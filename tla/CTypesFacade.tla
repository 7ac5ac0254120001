---------------------------- MODULE CTypesFacade ----------------------------
(***************************************************************************)
(* A caller of one ctypes.modelOf(Schema) facade (ctypes.js lines          *)
(* 346-383), compiled once and used repeatedly:                            *)
(*   - CallDump(x):  facade.dump(x) into a fresh buffer, kept as the wire; *)
(*   - CallParse(k): facade.parse(read_callback) where the callback, asked *)
(*                   for size() bytes, returns the first k bytes of the    *)
(*                   wire (k < size() is a short read);                    *)
(*   - CallModelDump(x, off): facade.model().dump(x, view, off) into a    *)
(*                   buffer the caller owns and reuses (scratch).          *)
(***************************************************************************)
EXTENDS CTypes, SequencesExt

CONSTANTS
  Schema,         \* the schema passed to modelOf
  Inputs,         \* the JS values the caller dumps
  ScratchInputs,  \* the JS values the caller dumps into its own buffer
  ReadLens,       \* the byte counts a read callback may return
  ScratchLen      \* the length of the caller's own buffer

model == _getModel(Schema)
size == GetSize(model)

ASSUME FacadeAssumption ==
  /\ ReadLens \subseteq 0..size
  /\ size \in ReadLens
  /\ ScratchLen \in Nat /\ ScratchLen >= size

NoValue == [none |-> TRUE]

VARIABLES
  wire,      \* the buffer returned by the last dump that did not throw
  sent,      \* the value that dump was given
  got,       \* the last parse: its result, the value on the wire, the bytes read
  scratch,   \* the caller's own buffer
  window,    \* [lo, hi): the byte range of the last CallModelDump
  lastDump   \* the input of the last facade dump and the exception it raised

vars == <<wire, sent, got, scratch, window, lastDump>>

Init ==
  /\ wire = <<>>
  /\ sent = NoValue
  /\ got = NoValue
  /\ scratch = [i \in 1..ScratchLen |-> 255]
  /\ window = [lo |-> 0, hi |-> 0]
  /\ lastDump = NoValue

(* modelOf(...).dump(x): the whole buffer or, on an exception, nothing. *)
CallDump(x) ==
  LET r == FacadeDump(model, x)
  IN  /\ IF r.exc = NoExc THEN wire' = r.buf /\ sent' = x
                          ELSE UNCHANGED <<wire, sent>>
      /\ lastDump' = [input |-> x, exc |-> r.exc]
      /\ UNCHANGED <<got, scratch, window>>

(* modelOf(...).parse(read_callback), the callback returning k bytes. *)
CallParse(k) ==
  /\ k <= Len(wire)
  /\ got' = [value |-> FacadeParse(model, SubSeq(wire, 1, k)), of |-> sent, len |-> k]
  /\ UNCHANGED <<wire, sent, scratch, window, lastDump>>

(* modelOf(...).model().dump(x, new DataView(scratch), off). *)
CallModelDump(x, off) ==
  /\ scratch' = Apply(scratch, DumpOps(model, x, off)).buf
  /\ window' = [lo |-> off, hi |-> off + size]
  /\ UNCHANGED <<wire, sent, got, lastDump>>

Next ==
  \/ \E x \in Inputs : CallDump(x)
  \/ \E k \in ReadLens : CallParse(k)
  \/ \E x \in ScratchInputs, off \in 0..(ScratchLen - size + 1) : CallModelDump(x, off)

Spec == Init /\ [][Next]_vars

-----------------------------------------------------------------------------
(* What the spec promises of a schema, read off the schema itself: fields  *)
(* in declared order, no padding, little-endian two's complement, strings  *)
(* truncated or NUL-padded to their declared length, literals taking no    *)
(* bytes and decoding to themselves.                                       *)

(* Little-endian bytes of n modulo 256^w (floor division, as TLA+ \div). *)
RefLE(n, w) == [i \in 1..w |-> (n \div (256 ^ (i - 1))) % 256]

RECURSIVE RefBytes(_, _)
RefBytes(node, x) ==
  CASE node.cls = "Num" ->
         IF node.type \in FloatTypes THEN FloatBytes(x, NumWidth[node.type])
         ELSE RefLE(x.num, NumWidth[node.type])
    [] node.cls = "FixedLengthString" ->
         [i \in 1..node.size |-> IF i <= Len(x.str) THEN x.str[i] % 256 ELSE 0]
    [] node.cls = "ValueArray" ->
         Concat([i \in 1..node.size |-> RefBytes(node.baseType, x.arr[i])])
    [] node.cls = "Object" ->
         Concat([i \in DOMAIN node.props |->
                   RefBytes(node.props[i][2], GetProp(x, node.props[i][1]))])
    [] node.cls = "Literal" -> <<>>

RECURSIVE RefValue(_, _)
RefValue(node, x) ==
  CASE node.cls = "Num" -> x
    [] node.cls = "FixedLengthString" ->
         JsStr([i \in 1..node.size |-> IF i <= Len(x.str) THEN x.str[i] ELSE 0])
    [] node.cls = "ValueArray" ->
         JsArr([i \in 1..node.size |-> RefValue(node.baseType, x.arr[i])])
    [] node.cls = "Object" ->
         JsObj([k \in {p[1] : p \in ToSet(node.props)} |->
                  LET p == CHOOSE q \in ToSet(node.props) : q[1] = k
                  IN  RefValue(p[2], GetProp(x, k))])
    [] node.cls = "Literal" -> node.value

(* x supplies every field and element the schema reads bytes from. *)
RECURSIVE HasShape(_, _)
HasShape(node, x) ==
  CASE node.cls = "Num" -> Is("num", x)
    [] node.cls = "FixedLengthString" -> Is("str", x)
    [] node.cls = "ValueArray" ->
         Is("arr", x) /\ Len(x.arr) >= node.size
         /\ \A i \in 1..node.size : HasShape(node.baseType, x.arr[i])
    [] node.cls = "Object" ->
         Is("obj", x) /\ \A i \in DOMAIN node.props :
            node.props[i][2].cls # "Literal" =>
              /\ node.props[i][1] \in DOMAIN x.obj
              /\ HasShape(node.props[i][2], x.obj[node.props[i][1]])
    [] node.cls = "Literal" -> TRUE

-----------------------------------------------------------------------------
TypeOK ==
  /\ wire \in Seq(Bytes) /\ Len(wire) \in {0, size}
  /\ got = NoValue \/ got.len \in ReadLens
  /\ scratch \in [1..ScratchLen -> Bytes]
  /\ window \in [lo : 0..ScratchLen + 1, hi : 0..ScratchLen + 1 + size]
  /\ lastDump = NoValue \/ lastDump.exc \in {NoExc, "TypeError", "RangeError"}

(* Round trip (spec 3 invariant 3, spec 8): parsing the size() bytes of a *)
(* dump returns the value dumped, strings NUL-padded or truncated to their *)
(* length and constants equal to their literal; a short read throws.       *)
(* About ObjectModel/ArrayModel/Num/FixedLengthString parse and dump.      *)
ParseFaithful ==
  got # NoValue =>
    IF got.len = size /\ got.of # NoValue
    THEN got.value = RefValue(Schema, got.of)
    ELSE Is("throw", got.value)

(* Byte-exact layout (spec 3, invariant 2): the buffer dump returns holds  *)
(* each field at the sum of the sizes of the fields declared before it,    *)
(* little-endian.  About ObjectModel's for-in enumeration and the setters. *)
WireMatchesDeclaredLayout ==
  sent # NoValue => wire = RefBytes(Schema, sent)

(* The dump engine writes only within [offset, offset + size()) of the     *)
(* caller's buffer (spec 4.4), also when it throws part-way.  About the    *)
(* cursor arithmetic of ArrayModel/ObjectModel.dump and the loops of       *)
(* FixedLengthString.dump.                                                 *)
DumpWithinWindow ==
  [][\A i \in DOMAIN scratch :
       (i - 1 < window'.lo \/ i - 1 >= window'.hi) => scratch'[i] = scratch[i]]_vars

(* A dump of a value that lacks a field or element the model reads fails  *)
(* (spec 7, ShapeMismatch).  About ArrayModel/ObjectModel.dump reading     *)
(* obj[i] / obj[name] and handing undefined to the child.                  *)
ShapeMismatchThrows ==
  lastDump # NoValue /\ ~HasShape(Schema, lastDump.input) => lastDump.exc # NoExc

=============================================================================
