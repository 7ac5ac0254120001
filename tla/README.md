# Verification of the plumber JavaScript servlet library

TLA+ models of the JavaScript side of plumber: the C-type codec `ctypes.js`,
and the blob reader, pipe read and disposable handles through which a servlet
reads pipe data. TLC checks them on small instances and TLAPS proves the blob
reader's safety for every instance.

## 1. The system and its parts

| Part | Source | State | Operations | Interacts with |
|---|---|---|---|---|
| Primitive registry and values | `servlets/javascript/lib/ctypes.js` 10-97, 300-330 | none: values are immutable descriptors | `int8_t() ... double_t()`, `fixed_length_string_t`, `arrayOf`; `getSize/parse/dump` of `Num` and `FixedLengthString` | the DataView of the caller's buffer |
| Schema compiler and models | `ctypes.js` 119-298 | a compiled model tree (sizes summed once, in the constructor) | `_getModel`; `getSize/parse/dump` of `ConstModel`, `ValueModel`, `ArrayModel`, `ObjectModel` | values, the caller's buffer |
| Model facade | `ctypes.js` 346-383 | the compiled model | `size`, `parse(read_callback)`, `model()`, `dump(obj)` | the read callback (usually a pipe read), the caller's buffers |
| Pipe API | `servlets/language/javascript/lib/pservlet/pipe.js` | none in JS: the pipe lives in the runtime | `read`, `write` (partial-write loops), `eof`, flags, `push_state/pop_state`, class `Pipe` | runtime `__read/__write/...`, BlobReader |
| BlobReader | `servlets/javascript/lib/pservlet/blob.js` | `_offset`, `_size`, the handle | `readBytes`, `readString`, `skip`, `reset`, `size`, `bytesAvaliable`, `unread` | runtime `__blob_get/__blob_size/__unread`, handles |
| Disposable handles | `servlets/language/javascript/lib/handle.js` | the handle and its GC sentinel | `getHandleClass`, `getHandleObject`, the `HandleBase` constructor | the runtime's `__sentinel` and `__handle_dispose`, garbage collector |
| Module loader | `servlets/language/javascript/lib/__init__.js` | the `imported` table | `using(...)` | runtime `__import` |
| Servlet callbacks | `servlets/language/javascript/lib/pservlet.js` | `__servlet_def__` | `setupCallbacks` | the runtime, which calls init/exec/unload |
| Logging | `servlets/javascript/lib/pservlet/log.js` | none | `log.*` | runtime log writer |
| Demos | `misc/jsdemo/readzip.js`, `misc/jsdemo/example.js`, `examples/jsecho/cat.js` | per-servlet | exec handlers combining the above | all of the above |

A servlet's `exec` reads bytes with `pipe.read`, which returns a `BlobReader`
over a pooled blob of the runtime. The servlet parses the bytes with a
`modelOf` facade, whose read callback is typically `blob.readBytes`. It answers
by `dump`ing a value and handing the buffer to `pipe.write`. The blob's memory
stays valid as long as a GC sentinel is reachable. `readBytes` copies the
sentinel into every buffer it returns.

Behaviours that are hard to test, and where they bite:
- **Layout.** The for-in enumeration order decides the byte layout
  (`ctypes.js:293`).
- **Signedness and wrap.** Signed string reads (`:75`) and the modulo wrap of
  the DataView setters (`:300-311`). The wrap of an out-of-range value is
  modelled (`LEBytes`) but no run feeds one: the spec promises the round trip
  only for in-range values, so there is nothing to check it against.
- **Floats.** Float getters that always throw (`:312`).
- **Partial dumps.** A dump that throws part-way keeps its earlier writes
  (`:82`, setters).
- **Short reads.** A read callback can return fewer bytes than asked (`:361`).
- **Blob lifetime.** The collector runs the handle's finalizer at a moment no
  code controls. Buffers that alias the blob rely on the sentinel copy
  (`blob.js:31`).
- **Clamps.** The upper clamps of `readBytes`/`skip` (`blob.js:26,64`).
- **Partial writes.** `pipe.write` stops on a zero-byte write (`pipe.js:50`).

## 2. Modules

| Module | Models | TLC only / proved |
|---|---|---|
| `CTypes` | ctypes.js as pure operators: JS values as tagged records, the DataView getters/setters, `Num`/`FixedLengthString`, `_getModel`, the four model classes, `parse`, and `dump` as the ordered list of DataView writes it performs | TLC (recursive) |
| `CTypesFacade` | a caller of one `modelOf(Schema)` facade as a state machine | TLC |
| `MCCTypes` | the schemas, sample values and bounds | TLC |
| `BlobReader` | pipe.read, BlobReader, handle pool and GC finalization as a state machine | TLC and TLAPS |
| `MCBlobReader` | model-value handles and buffer slots, with symmetry | TLC |
| `BlobReaderProofs` | the inductive invariant and theorems | TLAPS |

### CTypes and CTypesFacade

A JS value is a record with one field naming its kind: `[num |-> n]`,
`[str |-> <<code units>>]`, `[arr |-> ...]`, `[obj |-> ...]`, `[undef |-> TRUE]`.
Values of different kinds therefore compare as unequal. A buffer is a sequence
of bytes.

The setters and getters are modelled by what they compute:
- **Setters.** `LEBytes` gives little-endian two's complement modulo 2^(8w).
  `ToNumberInt` gives ToNumber, with NaN mapped to 0.
- **Getters.** `LEUnsigned` and `LESigned` decode.
- **Floats.** `float_t`/`double_t` dump by a table of the bit patterns of the
  sample values 0, 1 and -2. Any other value is treated as NaN.

`_getModel` orders object properties as JS `for-in` does (`EnumOrder`):
array-index keys first, ascending, then the rest in source order.

`DumpOps` returns the writes a dump performs, in program order, and stops at
the first exception. `Apply` performs them on a buffer. A DataView setter
checks its range before writing, so the writes before a throwing one stay.

The facade's state:
- `wire`/`sent`: the last successful `dump(obj)` and its input;
- `got`: the last `parse`, with a callback returning the first k bytes of
  `wire`;
- `scratch`/`window`: a caller's own buffer and the range of the last
  `model().dump(x, view, off)`;
- `lastDump`: the input and exception of the last facade dump.

A short read: when the callback returns k < size() bytes, the DataView is
shorter and the parse throws RangeError.

### BlobReader

The model's state:
- **Pipe bytes.** Positions 1..StreamLen of the pipe's bytes; `avail` have
  arrived and `taken` have been handed out.
- **Handles.** `hstate[h]` is free or live; `blob[h]` is the run of positions
  the blob of handle h holds.
- **Readers.** `reader[h]` is the BlobReader (`live`, `_offset`, `_size`).
- **Buffers.** `bufs[k]` is an ArrayBuffer returned by `readBytes`: the handle,
  the run it aliases, and whether it carries the sentinel.

The actions:
- `PipeRead` is `pipe.read` → `__read` → `makeBlobReader` → constructor.
  `pipe.js` only forwards `count`; cutting it to the bytes that have arrived
  is what the model assumes of the native `__read`.
- `ReadBytes`, `ReadString`, `Skip` and `Reset` are the methods.
- `DropReader`/`DropBuffer` are the application losing its last reference.
- `Finalize` is the collector running the sentinel's finalizer
  (`__handle_dispose`). It is enabled only when neither the reader nor any held
  buffer reaches the sentinel.
- `Arrive` is the transport delivering a byte.

## 3. Runs

| Run | cfg | Checks | Result |
|---|---|---|---|
| ctypes_roundtrip | `MCCTypes.cfg` | `ParseFaithful`, `WireMatchesDeclaredLayout` | pass |
| ctypes_dump_window | `MCCTypesWindow.cfg` | `DumpWithinWindow` (action property) | pass |
| ctypes_nonascii_string | `MCCTypesNonAscii.cfg` | `ParseFaithful` | violation: signed `getInt8` |
| ctypes_float | `MCCTypesFloat.cfg` | `ParseFaithful` | violation: `_get_float` throws ReferenceError |
| ctypes_index_key | `MCCTypesIndexKey.cfg` | `WireMatchesDeclaredLayout` | violation: for-in order |
| ctypes_missing_field | `MCCTypesShape.cfg` | `ShapeMismatchThrows` | violation: missing field dumped as 0 |
| blob_reader | `MCBlobReader.cfg` | `TypeOK`, `ReaderWithinBlob`, `BufferBacked` | pass |

The properties:
- **`ParseFaithful`** (round trip). Parsing the full dump of x returns x, with
  strings padded or truncated and literals as declared. A short read throws.
- **`WireMatchesDeclaredLayout`.** The dump equals a reference encoding read
  off the schema: declared order, no padding, little endian.
- **`DumpWithinWindow`.** No step of `model().dump` changes a byte of the
  caller's buffer outside `[off, off + size())`. This includes dumps that
  throw part-way, and offsets so near the end that a setter throws.
- **`ShapeMismatchThrows`.** A value lacking a field the schema reads fails to
  dump. The spec's error table says so; the code does not do it.
- **`TypeOK`** (BlobReader). Besides the types, every buffer `readBytes`
  returned has a natural length. That holds only because `readBytes`,
  `readString` and `skip` stop at `_size`, so `_size - _offset` never goes
  negative.
- **`ReaderWithinBlob`.** A live reader's offset is within its blob, and its
  handle is allocated.
- **`BufferBacked`.** Every held buffer lies within the memory of a live handle.

Bounds, and why they are enough:
- **Main schema.** It nests a literal, an int16, an array of two uint8, a
  uint32 and a record `{int8, string(2)}`. Every model class, both parse paths
  and every cursor advance occur.
- **Sample values.** The main schema's fields take values at the sign and
  width boundaries of their types: int8 -1 and 127, uint8 200 (above 127),
  int16 -2 and 300 (two bytes), uint32 16909060 (four distinct bytes). All
  are in range, so no setter wraps. Strings are shorter than, as long as and
  longer than the 2-unit field.
- **Reads.** Lengths 0, size-1 and size.
- **Scratch buffer.** It is 13 bytes, so `model().dump` runs at every offset
  from 0 to 3 past the last one that fits. It uses a value that throws
  TypeError in the last field.
- **BlobReader.** Two handles, which the runtime reuses, and two buffer
  slots. Four stream bytes and counts 0..3, so reads are cut, exhausted and
  empty, and a freed handle is reused while an old buffer may still be held.

Each passing property has a mutant (PROJECT.json), a plausible bug that TLC
then finds:
- big-endian order (the `littleEndian` flag dropped);
- an unsigned read;
- a zero fill one past the end;
- a missing clamp in `skip` (for `ReaderWithinBlob`, and for `TypeOK`: a
  later `readBytes` then returns a buffer of negative length);
- a dropped sentinel copy.

No fairness is assumed and no liveness is checked. The runtime decides when
bytes arrive and when the garbage collector runs; neither is guaranteed to
happen.

## 4. Proofs (`BlobReaderProofs`, TLAPS)

- `TypeCorrect`: `Spec => []TypeOK`
- `ReaderSafe`: `Spec => []ReaderWithinBlob`
- `BufferSafe`: `Spec => []BufferBacked`

They hold for every set of handles (nonempty), every set of buffer slots and
all natural `StreamLen` and `MaxCount` (`BlobAssumption`).

None of the three is inductive alone:
- `readBytes` keeps `_offset` natural only because `_offset <= _size`.
- The finalizer cannot free a blob under a held buffer only because every held
  buffer carries the sentinel.

So the proofs go through the inductive invariant
`IInv == TypeOK /\ ReaderWithinBlob /\ BufferBacked /\ SentinelHeld`. Two
lemmas give `InitIInv` and `NextIInv`, with one step per action and one
sub-step per conjunct it disturbs. The theorems follow by PTL.

The following stay with TLC:
- everything about ctypes, whose definitions are recursive over schemas;
- the for-in order;
- the action property `DumpWithinWindow`.

## 5. Not modelled (yet) and the plan

The plan, in order:
1. Pipe write: the partial-write loops of `pipe.write` (model, ArrayBuffer,
   string paths) against a runtime that accepts any prefix. The property is
   that the returned remainder is exactly what was not written.
2. `BlobReader.unread` together with the pipe's stream.
3. The module loader `using`: re-entrant import and failure reset.
4. readzip's two-phase variable-length parse over short pipe reads.
5. A refinement of BlobReader to an abstract "stream of bytes consumed in
   order" specification.

Left out, with the reason:
- `log.js` and `pservlet.js`: formatting and callback wrapping, with no state.
- The `Pipe` class: its constructor references an undeclared `pipe`
  (`pipe.js:135`) and always throws.
- Wide strings: `fixed_length_string_t` never sets `wide`.
- Floats other than the sample values.
- uint32 values of 2^31 and above, which are beyond TLC's integers.
