------------------------------ MODULE MCCTypes ------------------------------
(***************************************************************************)
(* Instances of CTypesFacade for TLC: the schemas, the sample values their *)
(* fields take, and the inputs built from them.                            *)
(***************************************************************************)
EXTENDS CTypesFacade

Obj(props) == [cls |-> "Object", props |-> props]
Lit(v) == [cls |-> "Literal", value |-> v]

(* A record with every kind of node: a literal, signed and unsigned        *)
(* integers of each width, an array, a nested record ending in a string.   *)
MainSchema ==
  Obj(<< <<"magic", Lit(JsStr(<<80, 75>>))>>,
         <<"a", Num("int16_t")>>,
         <<"c", arrayOf(Num("uint8_t"), 2)>>,
         <<"e", Num("uint32_t")>>,
         <<"hdr", Obj(<< <<"n", Num("int8_t")>>,
                         <<"name", fixed_length_string_t(2)>> >>)>> >>)

(* Sample values: both signs, values at and past 127/128, a value wider    *)
(* than one byte.  uint32 samples stay below 2^31, TLC's integer range.    *)
NumSamples ==
  [int8_t |-> {-1, 127}, uint8_t |-> {200}, int16_t |-> {-2, 300},
   uint16_t |-> {65535}, int32_t |-> {-1}, uint32_t |-> {16909060},
   float_t |-> {1}, double_t |-> {-2}]
(* Strings shorter than, as long as, and longer than a 2-unit field; no   *)
(* digits.                                                                  *)
StrSamples == {<<>>, <<65>>, <<65, 66>>, <<65, 66, 67>>}

(* Every value of the schema's shape built from the samples; a literal     *)
(* field is left undefined, as a caller would leave it out.                *)
RECURSIVE Shaped(_)
Shaped(node) ==
  CASE node.cls = "Num" -> {JsNum(n) : n \in NumSamples[node.type]}
    [] node.cls = "FixedLengthString" -> {JsStr(s) : s \in StrSamples}
    [] node.cls = "ValueArray" -> {JsArr(f) : f \in [1..node.size -> Shaped(node.baseType)]}
    [] node.cls = "Literal" -> {Undefined}
    [] node.cls = "Object" ->
         LET ks == {p[1] : p \in ToSet(node.props)}
             Ch(k) == (CHOOSE p \in ToSet(node.props) : p[1] = k)[2]
         IN  {JsObj(g) : g \in {f \in [ks -> UNION {Shaped(Ch(k)) : k \in ks}] :
                                  \A k \in ks : f[k] \in Shaped(Ch(k))}}

(* A well-shaped value, and one whose string field holds a number: its    *)
(* dump throws a TypeError after the fields before it were written.        *)
GoodValue ==
  JsObj(("magic" :> Undefined) @@ ("a" :> JsNum(300)) @@ ("c" :> JsArr(<<JsNum(0), JsNum(200)>>))
        @@ ("hdr" :> JsObj(("n" :> JsNum(-1)) @@ ("name" :> JsStr(<<65>>))))
        @@ ("e" :> JsNum(16909060)))
BadValue ==
  JsObj(("magic" :> Undefined) @@ ("a" :> JsNum(-2)) @@ ("c" :> JsArr(<<JsNum(200), JsNum(0)>>))
        @@ ("hdr" :> JsObj(("n" :> JsNum(127)) @@ ("name" :> JsNum(5))))
        @@ ("e" :> JsNum(16909060)))

MainInputs == Shaped(MainSchema)
MainScratchInputs == {GoodValue, BadValue}
NoInputs == {}

(* A string holding a code unit above 127 ("\u00e9"). *)
StringSchema == Obj(<< <<"name", fixed_length_string_t(2)>> >>)
StringInputs == {JsObj("name" :> JsStr(<<233>>))}

(* A float field. *)
FloatSchema == Obj(<< <<"n", Num("uint8_t")>>, <<"p", Num("float_t")>> >>)
FloatInputs == {JsObj(("n" :> JsNum(1)) @@ ("p" :> JsNum(1)))}

(* A field named like an array index declared after another field. *)
IndexKeySchema == Obj(<< <<"b", Num("uint8_t")>>, <<"1", Num("uint16_t")>> >>)
IndexKeyInputs == {JsObj(("b" :> JsNum(7)) @@ ("1" :> JsNum(258)))}

(* A value of MainSchema that leaves out the int16 field "a". *)
MissingFieldInputs ==
  {JsObj(("c" :> JsArr(<<JsNum(200), JsNum(200)>>))
         @@ ("hdr" :> JsObj(("n" :> JsNum(-1)) @@ ("name" :> JsStr(<<65>>))))
         @@ ("e" :> JsNum(16909060)))}
MainReadLens == {0, 10, 11}
TwoByteReadLens == {2}
ThreeByteReadLens == {3}
FiveByteReadLens == {5}
MainScratchLen == 13

=============================================================================
