------------------------------- MODULE CTypes -------------------------------
(***************************************************************************)
(* The C native type codec of servlets/javascript/lib/ctypes.js: the       *)
(* primitive values (Num, FixedLengthString), the schema compiler          *)
(* _getModel, the four model classes with their getSize/parse/dump, and    *)
(* the modelOf facade.  Pure operators; the state machine that drives them *)
(* is CTypesFacade.                                                        *)
(*                                                                         *)
(* JavaScript values are tagged records, one field name per kind, so that *)
(* values of different kinds compare as unequal:                           *)
(*   [num |-> n]  [str |-> <<code units>>]  [arr |-> <<values>>]           *)
(*   [obj |-> [key -> value]]  [undef |-> TRUE]                            *)
(* A property key is a string; the canonical numeric strings "0", "1", ... *)
(* are array-index keys, which JS enumerates before the others.            *)
(* An exception is [throw |-> "TypeError" | "RangeError" | ...].           *)
(* A buffer (ArrayBuffer seen through a DataView) is a sequence of bytes;  *)
(* byte offset o is element o + 1.                                         *)
(***************************************************************************)
EXTENDS Integers, Sequences, TLC

JsNum(n) == [num |-> n]
JsStr(s) == [str |-> s]
JsArr(s) == [arr |-> s]
JsObj(f) == [obj |-> f]
Undefined == [undef |-> TRUE]
Throw(e) == [throw |-> e]
NoExc == "none"

Is(kind, x) == kind \in DOMAIN x
Bytes == 0..255

(* ToString of the array indices the models use: IndexKey[i + 1] = "i". *)
IndexKey == <<"0", "1", "2", "3", "4", "5", "6", "7", "8", "9", "10", "11", "12">>
IsIndexKey(k) == \E i \in DOMAIN IndexKey : IndexKey[i] = k
KeyIndex(k) == (CHOOSE i \in DOMAIN IndexKey : IndexKey[i] = k) - 1

-----------------------------------------------------------------------------
(* JavaScript conversions used by DataView and String.fromCharCode.        *)

(* ToNumber, as seen through ToIntN: NaN becomes 0.  Strings never hold    *)
(* digits or white space in the models (CTypesFacade assumes it), so a     *)
(* string converts to NaN or, empty, to 0; an object to NaN; an array of   *)
(* one element to that element's conversion, any other array to 0 or NaN. *)
RECURSIVE ToNumberInt(_)
ToNumberInt(x) ==
  CASE Is("num", x)                    -> x.num
    [] Is("arr", x) /\ Len(x.arr) = 1 -> ToNumberInt(x.arr[1])
    [] OTHER                          -> 0

(* A plausible bug in LEBytes: the littleEndian flag (true) dropped from  *)
(* the setter call, so the bytes are stored big-endian.                    *)
LEBytesBigEndian(n, w) ==
  IF n >= 0 THEN [i \in 1..w |-> (n \div (256 ^ (w - i))) % 256]
            ELSE [i \in 1..w |-> 255 - (((-n - 1) \div (256 ^ (w - i))) % 256)]

(* The w little-endian bytes of the two's complement of n modulo 2^(8w),   *)
(* which is what setIntN and setUintN store (ToIntN/ToUintN wrap).         *)
LEBytes(n, w) ==
  IF n >= 0 THEN [i \in 1..w |-> (n \div (256 ^ (i - 1))) % 256]
            ELSE [i \in 1..w |-> 255 - (((-n - 1) \div (256 ^ (i - 1))) % 256)]

(* getUintN / getIntN of w little-endian bytes. *)
LEUnsigned(b) ==
  LET acc[i \in 0..Len(b)] == IF i = 0 THEN 0 ELSE acc[i - 1] + b[i] * 256 ^ (i - 1)
  IN  acc[Len(b)]
LESigned(b) ==
  IF b[Len(b)] < 128 THEN LEUnsigned(b)
  ELSE -LEUnsigned([i \in DOMAIN b |-> 255 - b[i]]) - 1

(* setFloat32 / setFloat64 little-endian of the numbers 0, 1 and -2 the    *)
(* models use; any other value converts to NaN, stored as the quiet NaN.   *)
FloatBytes(x, w) ==
  LET top == CASE x = JsNum(0) -> <<0, 0>>
               [] x = JsNum(1) -> IF w = 4 THEN <<128, 63>> ELSE <<240, 63>>
               [] x = JsNum(-2) -> <<0, 192>>
               [] OTHER  -> IF w = 4 THEN <<192, 127>> ELSE <<248, 127>>
  IN  [i \in 1..(w - 2) |-> 0] \o top

-----------------------------------------------------------------------------
(* The primitive registry: ctypes.int8_t() ... double_t() build a Num with *)
(* its reader, writer and size; fixed_length_string_t(size) a              *)
(* FixedLengthString that is never wide.                                   *)
IntTypes == {"int8_t", "uint8_t", "int16_t", "uint16_t", "int32_t", "uint32_t"}
FloatTypes == {"float_t", "double_t"}
NumWidth == [int8_t |-> 1, uint8_t |-> 1, int16_t |-> 2, uint16_t |-> 2,
             int32_t |-> 4, uint32_t |-> 4, float_t |-> 4, double_t |-> 8]
Signed == {"int8_t", "int16_t", "int32_t"}

Num(type) == [cls |-> "Num", type |-> type]
fixed_length_string_t(size) == [cls |-> "FixedLengthString", size |-> size, wide |-> FALSE]
arrayOf(type, size) == [cls |-> "ValueArray", baseType |-> type, size |-> size]

(* Value.getSize *)
ValueSize(v) ==
  IF v.cls = "Num" THEN NumWidth[v.type]
  ELSE v.size * (IF v.wide THEN 2 ELSE 1)

(* A DataView read of w bytes at offset off: RangeError past the end.      *)
InView(buf, off, w) == off + w <= Len(buf)
ViewBytes(buf, off, w) == SubSeq(buf, off + 1, off + w)

(* A plausible bug in ParseNum: every integer read as unsigned. *)
ParseNumUnsigned(type, buf, off) ==
  CASE type \in FloatTypes                -> Throw("ReferenceError")
    [] ~InView(buf, off, NumWidth[type])  -> Throw("RangeError")
    [] OTHER -> JsNum(LEUnsigned(ViewBytes(buf, off, NumWidth[type])))

(* Num.parse through _get_<type>.  _get_float and _get_double name an      *)
(* undeclared variable `value` and throw a ReferenceError.                 *)
ParseNum(type, buf, off) ==
  CASE type \in FloatTypes                -> Throw("ReferenceError")
    [] ~InView(buf, off, NumWidth[type])  -> Throw("RangeError")
    [] type \in Signed -> JsNum(LESigned(ViewBytes(buf, off, NumWidth[type])))
    [] OTHER           -> JsNum(LEUnsigned(ViewBytes(buf, off, NumWidth[type])))

(* FixedLengthString.parse: getInt8 (signed), or big-endian getInt16 when  *)
(* wide, per code unit; String.fromCharCode applies ToUint16.              *)
ParseString(v, buf, off) ==
  LET w == IF v.wide THEN 2 ELSE 1
      Unit(i) == IF v.wide THEN LET b == ViewBytes(buf, off + i * w, 2)
                                IN  b[1] * 256 + b[2]
                 ELSE LET s == LESigned(ViewBytes(buf, off + i, 1))
                      IN  IF s < 0 THEN s + 65536 ELSE s
  IN  IF InView(buf, off, v.size * w)
      THEN JsStr([i \in 1..v.size |-> Unit(i - 1)])
      ELSE Throw("RangeError")

ParseValue(v, buf, off) ==
  IF v.cls = "Num" THEN ParseNum(v.type, buf, off) ELSE ParseString(v, buf, off)

(* A dump is a sequence of DataView writes [at, bytes] in program order,   *)
(* possibly interrupted by an exception [throw].                           *)
Write(at, bytes) == [at |-> at, bytes |-> bytes]

(* Num.dump through _set_<type>. *)
DumpNum(type, x, off) ==
  IF type \in FloatTypes
  THEN <<Write(off, FloatBytes(x, NumWidth[type]))>>
  ELSE <<Write(off, LEBytes(ToNumberInt(x), NumWidth[type]))>>

(* A plausible bug in DumpString: the zero fill runs to size inclusive. *)
DumpStringFillPastEnd(v, x, off) ==
  LET w == IF v.wide THEN 2 ELSE 1
      Unit(c) == IF v.wide THEN <<(c \div 256) % 256, c % 256>> ELSE <<c % 256>>
      n == Len(x.str)
      copied == IF n < v.size THEN n ELSE v.size
  IN  IF ~Is("str", x) THEN <<Throw("TypeError")>>
      ELSE [i \in 1..copied |-> Write(off + (i - 1) * w, Unit(x.str[i]))]
           \o [i \in 1..(v.size - copied + 1) |-> Write(off + (n + i - 1) * w, Unit(0))]

(* FixedLengthString.dump: TypeError for a non-string, one write per code  *)
(* unit of the value up to size, then zeros from value.length to size.     *)
DumpString(v, x, off) ==
  LET w == IF v.wide THEN 2 ELSE 1
      Unit(c) == IF v.wide THEN <<(c \div 256) % 256, c % 256>> ELSE <<c % 256>>
      n == Len(x.str)
      copied == IF n < v.size THEN n ELSE v.size
  IN  IF ~Is("str", x) THEN <<Throw("TypeError")>>
      ELSE [i \in 1..copied |-> Write(off + (i - 1) * w, Unit(x.str[i]))]
           \o [i \in 1..(v.size - copied) |-> Write(off + (n + i - 1) * w, Unit(0))]

DumpValue(v, x, off) ==
  IF v.cls = "Num" THEN DumpNum(v.type, x, off) ELSE DumpString(v, x, off)

-----------------------------------------------------------------------------
(* Models.  ValueModel wraps a Value, ArrayModel repeats a base model,     *)
(* ObjectModel holds its children as <<name, model>> in enumeration order  *)
(* and the size summed in its constructor, ConstModel holds a literal.     *)
ModelClasses == {"ValueModel", "ArrayModel", "ObjectModel", "ConstModel"}

RECURSIVE GetSize(_)
GetSize(m) ==
  CASE m.cls = "ConstModel" -> 0
    [] m.cls = "ValueModel" -> ValueSize(m.value)
    [] m.cls = "ArrayModel" -> GetSize(m.base) * m.size
    [] m.cls = "ObjectModel" -> m.size

(* for (name in obj): array-index keys in ascending numeric order first,   *)
(* then the other keys in insertion order.                                 *)
EnumOrder(props) ==
  SortSeq(SelectSeq(props, LAMBDA p : IsIndexKey(p[1])),
          LAMBDA p, q : KeyIndex(p[1]) < KeyIndex(q[1]))
  \o SelectSeq(props, LAMBDA p : ~IsIndexKey(p[1]))

ObjectModel(children) ==
  LET sz[i \in 0..Len(children)] ==
        IF i = 0 THEN 0 ELSE sz[i - 1] + GetSize(children[i][2])
  IN  [cls |-> "ObjectModel", children |-> children, size |-> sz[Len(children)]]

(* _getModel: a schema node is a Value, a ValueArray, a compiled Model, a  *)
(* plain object [cls |-> "Object", props |-> <<<<key, node>>, ...>>] with  *)
(* its properties in source order, or a literal [cls |-> "Literal"].       *)
RECURSIVE _getModel(_)
_getModel(node) ==
  CASE node.cls \in {"Num", "FixedLengthString"} -> [cls |-> "ValueModel", value |-> node]
    [] node.cls = "ValueArray" ->
         [cls |-> "ArrayModel", base |-> _getModel(node.baseType), size |-> node.size]
    [] node.cls \in ModelClasses -> node
    [] node.cls = "Object" ->
         LET ps == EnumOrder(node.props)
         IN  ObjectModel([i \in DOMAIN ps |-> <<ps[i][1], _getModel(ps[i][2])>>])
    [] node.cls = "Literal" -> [cls |-> "ConstModel", value |-> node.value]

(* The exceptions among a sequence of results, in order. *)
Thrown(rs) == SelectSeq(rs, LAMBDA r : Is("throw", r))

(* The offsets of the children of an ObjectModel: the cursor advanced by   *)
(* each child's size in enumeration order.                                 *)
ChildOffsets(m, off) ==
  LET c[i \in 1..Len(m.children)] ==
        IF i = 1 THEN off ELSE c[i - 1] + GetSize(m.children[i - 1][2])
  IN  c

RECURSIVE Parse(_, _, _)
Parse(m, buf, off) ==
  CASE m.cls = "ConstModel" -> m.value
    [] m.cls = "ValueModel" -> ParseValue(m.value, buf, off)
    [] m.cls = "ArrayModel" ->
         LET rs == [i \in 1..m.size |-> Parse(m.base, buf, off + (i - 1) * GetSize(m.base))]
         IN  IF Thrown(rs) # <<>> THEN Thrown(rs)[1] ELSE JsArr(rs)
    [] m.cls = "ObjectModel" ->
         LET o == ChildOffsets(m, off)
             rs == [i \in DOMAIN m.children |-> Parse(m.children[i][2], buf, o[i])]
         IN  IF Thrown(rs) # <<>> THEN Thrown(rs)[1]
             ELSE JsObj([k \in {m.children[i][1] : i \in DOMAIN m.children} |->
                          rs[CHOOSE i \in DOMAIN m.children : m.children[i][1] = k]])

(* obj[key]: a TypeError on undefined; undefined for a missing property.   *)
(* An array or a string has its elements under the index keys.             *)
GetProp(x, key) ==
  LET i == IF IsIndexKey(key) THEN KeyIndex(key) ELSE -1
  IN  CASE Is("undef", x) -> Throw("TypeError")
        [] Is("arr", x) -> IF i \in 0..(Len(x.arr) - 1) THEN x.arr[i + 1] ELSE Undefined
        [] Is("str", x) -> IF i \in 0..(Len(x.str) - 1) THEN JsStr(<<x.str[i + 1]>>) ELSE Undefined
        [] Is("obj", x) -> IF key \in DOMAIN x.obj THEN x.obj[key] ELSE Undefined
        [] OTHER -> Undefined

(* The concatenation of a sequence of write sequences. *)
Concat(ss) ==
  LET cat[i \in 0..Len(ss)] == IF i = 0 THEN <<>> ELSE cat[i - 1] \o ss[i]
  IN  cat[Len(ss)]

(* Model.dump(obj, view, offset) as the writes it performs; a property     *)
(* read that throws ends the sequence.                                     *)
RECURSIVE DumpOps(_, _, _)
DumpOps(m, x, off) ==
  LET Child(cm, key, at) ==
        IF Is("throw", GetProp(x, key)) THEN <<GetProp(x, key)>>
        ELSE DumpOps(cm, GetProp(x, key), at)
  IN
  CASE m.cls = "ConstModel" -> <<>>
    [] m.cls = "ValueModel" -> DumpValue(m.value, x, off)
    [] m.cls = "ArrayModel" ->
         Concat([i \in 1..m.size |-> Child(m.base, IndexKey[i], off + (i - 1) * GetSize(m.base))])
    [] m.cls = "ObjectModel" ->
         LET o == ChildOffsets(m, off)
         IN  Concat([i \in DOMAIN m.children |-> Child(m.children[i][2], m.children[i][1], o[i])])

(* Performs the writes in order on buf.  A DataView setter checks its      *)
(* whole range before writing, so the first write past the end throws a    *)
(* RangeError and the writes before it stay; an exception ends the dump.   *)
Apply(buf, ops) ==
  LET st[i \in 0..Len(ops)] ==
        IF i = 0 THEN [buf |-> buf, exc |-> NoExc]
        ELSE LET p == st[i - 1]
                 op == ops[i]
             IN  CASE p.exc # NoExc -> p
                   [] Is("throw", op) -> [p EXCEPT !.exc = op.throw]
                   [] op.at + Len(op.bytes) > Len(p.buf) -> [p EXCEPT !.exc = "RangeError"]
                   [] OTHER -> [p EXCEPT !.buf = [j \in DOMAIN p.buf |->
                                  IF j - 1 - op.at \in 0..(Len(op.bytes) - 1)
                                  THEN op.bytes[j - op.at] ELSE p.buf[j]]]
  IN  st[Len(ops)]

-----------------------------------------------------------------------------
(* The modelOf facade.  parse(read_callback) reads size() bytes through    *)
(* the callback and parses at offset 0; dump(obj) dumps into a new         *)
(* zero-filled ArrayBuffer of size() bytes and returns it.                 *)
FacadeParse(model, readResult) ==
  IF readResult = Undefined THEN Throw("TypeError") ELSE Parse(model, readResult, 0)

FacadeDump(model, x) ==
  Apply([i \in 1..GetSize(model) |-> 0], DumpOps(model, x, 0))

=============================================================================
