----------------------------- MODULE Converters -----------------------------
(***************************************************************************)
(* The conversions between openDAQ objects and OPC UA values.              *)
(*   object   [k |-> its interface, v |-> its value]                       *)
(*   variant  [k |-> its UA type, n |-> "scalar" or "array", v |-> data]   *)
(* A conversion is the set of its results: {} when it throws.  An integer  *)
(* type keeps its sign and has 2, 3, 4 and 5 bits for 8, 16, 32 and 64; a  *)
(* float is a count of steps of which a 32-bit float keeps the even ones.  *)
(* One value is converted, carried to the other side and converted back.   *)
(***************************************************************************)
EXTENDS Integers, Sequences, SequencesExt, FiniteSets

CONSTANTS Samples,      \* the <<object, target type>> that are converted
          Selections,   \* lists and dictionaries of selection values
          UaStructs,    \* generic UA structures: member -> [t |-> type, opt |-> BOOLEAN]
          UaEnums       \* enumerations of UA: names of their values, from 0

VARIABLES sample,       \* the object and the target type
          how,          \* "base", "own": the reading converter; "selection"
          direct,       \* the variant stays on its side (eval values, unit tests)
          sent, got,    \* results of the two conversions
          stage

convertVars == <<sample, how, direct, sent, got, stage>>

Obj(kind, value) == [k |-> kind, v |-> value]
Nil == Obj("nil", 0)
Scalar(t, d) == [k |-> t, n |-> "scalar", v |-> d]
Array(t, d) == [k |-> t, n |-> "array", v |-> d]
NullVariant == Scalar("none", 0)

\* The conversions of F one by one; one that throws makes the whole throw.
All(F) ==
  IF \E i \in DOMAIN F : F[i] = {} THEN {}
  ELSE {[i \in DOMAIN F |-> CHOOSE x \in F[i] : TRUE]}

-----------------------------------------------------------------------------
(* The simple types *)

Bits == [SBYTE |-> 2, INT16 |-> 3, INT32 |-> 4, INT64 |-> 5,
         BYTE |-> 2, UINT16 |-> 3, UINT32 |-> 4, UINT64 |-> 5]

\* StructConverter<IInteger, UA_...>: the static_cast to the type.
Cast(n, t) ==
  LET m == n % 2^Bits[t]
  IN  IF t \in {"SBYTE", "INT16", "INT32", "INT64"} /\ m >= 2^(Bits[t] - 1)
      THEN m - 2^Bits[t] ELSE m

\* The converters: the types a scalar and an array may have as target, the
\* first being the one without a target ("" : it depends on the object), and
\* whether an array that came as extension objects is read.
BoolConverter == [scalar |-> <<"BOOLEAN">>, array |-> <<"BOOLEAN">>, ext |-> FALSE]

IntConverter ==
  LET types == <<"INT64", "UINT64", "INT32", "UINT32", "INT16", "UINT16", "BYTE", "SBYTE">>
  IN  [scalar |-> types, array |-> types, ext |-> FALSE]

FloatConverter == [scalar |-> <<"DOUBLE", "FLOAT">>, array |-> <<"DOUBLE", "FLOAT">>, ext |-> FALSE]

StringConverter ==
  [scalar |-> <<"STRING", "LOCALIZEDTEXT", "QUALIFIEDNAME">>,
   array |-> <<"STRING", "LOCALIZEDTEXT">>, ext |-> FALSE]

\* SampleTypeToTmsEnum: Struct has no UA sample type and becomes Invalid.
SampleToTms(s) == IF s = "Null" THEN {} ELSE {IF s = "Struct" THEN "Invalid" ELSE s}

\* ScaledSampleTypeFromTmsEnum, ScaledSampleTypeToTmsEnum
ScaledSample(s) == IF s \in {"Float32", "Float64"} THEN {s} ELSE {}

\* CoreTypeToUANodeID
CoreToNode(c) ==
  CASE c = "Bool" -> {"BOOLEAN"} [] c = "Int" -> {"INT64"} [] c = "Float" -> {"DOUBLE"}
    [] c = "String" -> {"STRING"} [] c = "Ratio" -> {"RationalNumber64"} [] OTHER -> {}

\* nodeIdToCoreTypeMap
NodeToCore(t) ==
  CASE t = "BOOLEAN" -> {"Bool"} [] t \in {"FLOAT", "DOUBLE"} -> {"Float"}
    [] t \in DOMAIN Bits -> {"Int"} [] t = "STRING" -> {"String"}
    [] t \in {"RationalNumber", "RationalNumber64"} -> {"Ratio"} [] OTHER -> {}

-----------------------------------------------------------------------------
(* The UA structures: the coding of each member.  A member that is not here *)
(* is not written, and is unassigned when read.                             *)

EUInformationWithQuantity ==
  [symbol |-> "STRING", id |-> "INT32", name |-> "STRING", quantity |-> "STRING"]
EUInformation == [symbol |-> "STRING", id |-> "INT32", name |-> "STRING"]

\* Mutant: a unit is written as the plain OPC UA structure by default.
UnitConverterPlain ==
  LET types == <<"EUInformation", "EUInformationWithQuantity">>
  IN  [scalar |-> types, array |-> types, ext |-> TRUE]

UnitConverter ==
  LET types == <<"EUInformationWithQuantity", "EUInformation">>
  IN  [scalar |-> types, array |-> types, ext |-> TRUE]

RationalNumber == [numerator |-> "INT32", denominator |-> "UINT32"]
RationalNumber64 == [numerator |-> "INT64", denominator |-> "UINT64"]
RatioConverter ==
  LET types == <<"RationalNumber64", "RationalNumber">>
  IN  [scalar |-> types, array |-> types, ext |-> TRUE]

DoubleComplexNumberType == [real |-> "DOUBLE", imaginary |-> "DOUBLE"]
ComplexNumberType == [real |-> "FLOAT", imaginary |-> "FLOAT"]
ComplexConverter ==
  LET types == <<"DoubleComplexNumberType", "ComplexNumberType">>
  IN  [scalar |-> types, array |-> types, ext |-> FALSE]

RangeStruct == [low |-> "REAL", high |-> "REAL"]
RangeConverter == [scalar |-> <<"Range">>, array |-> <<"Range">>, ext |-> FALSE]

Argument == [name |-> "STRING", type |-> "CORETYPE"]
ArgumentConverter == [scalar |-> <<"Argument">>, array |-> <<"Argument">>, ext |-> TRUE]

FunctionBlockInfo == [id |-> "STRING", name |-> "STRING", description |-> "STRING"]
FbTypeConverter == [scalar |-> <<"FunctionBlockInfo">>, array |-> <<"FunctionBlockInfo">>, ext |-> TRUE]

DimensionDescriptor == [name |-> "String", unit |-> "Unit", rule |-> "DimRule"]
DimensionConverter ==
  [scalar |-> <<"DimensionDescriptor">>, array |-> <<"DimensionDescriptor">>, ext |-> TRUE]

\* One structure for the linear rules of data and of dimensions; only the
\* latter have the size.
DataLinearRule == [delta |-> "NUMBER", start |-> "NUMBER"]
LinearRule == [delta |-> "NUMBER", start |-> "NUMBER", size |-> "SIZE"]
LogRule == [delta |-> "NUMBER", start |-> "NUMBER", base |-> "INT64", size |-> "UINT32"]
ListRule == [list |-> "NUMBERS"]
CustomRule == [params |-> "PARAMS"]

ConstantRule == [value |-> "ZERO"]
BaseRule == <<>>
ExplicitDomainRule == [min |-> "NUMBER", max |-> "NUMBER"]

LinearScaling == [scale |-> "NUMBER", offset |-> "NUMBER"]
PostScaling == [scale |-> "NUMBER", offset |-> "NUMBER", input |-> "SAMPLE", output |-> "SCALED"]
ScalingConverter ==
  LET types == <<"PostScaling", "LinearScaling">> IN [scalar |-> types, array |-> types, ext |-> TRUE]

\* VariantConverter<IDataRule>::ToVariant without a target.
DataRuleType(o) ==
  CASE o.v.type = "Linear" -> "LinearRule" [] o.v.type = "Constant" -> "ConstantRule"
    [] o.v.type = "Other" -> "CustomRule"
    [] o.v.type = "Explicit" /\ {"min", "max"} \subseteq DOMAIN o.v.p -> "ExplicitDomainRule"
    [] OTHER -> "BaseRule"
DataRuleConverter ==
  LET types == <<"", "LinearRule", "ConstantRule", "BaseRule", "CustomRule", "ExplicitDomainRule">>
  IN  [scalar |-> types, array |-> types, ext |-> TRUE]

\* VariantConverter<IDimensionRule>::ToVariant without a target.
DimRuleType(o) ==
  [Linear |-> "LinearRule", Logarithmic |-> "LogRule", List |-> "ListRule",
   Other |-> "CustomRule"][o.v.type]
DimRuleConverter ==
  LET types == <<"", "LinearRule", "LogRule", "ListRule", "CustomRule">>
  IN  [scalar |-> types, array |-> types, ext |-> TRUE]

\* A descriptor whose sample type is Struct loses what is not here.
StructDescriptor ==
  [name |-> "STRING", dimensions |-> "DIMENSIONS", metadata |-> "METADATA", fields |-> "FIELDS"]
DataDescriptor ==
  [name |-> "STRING", dimensions |-> "DIMENSIONS", metadata |-> "METADATA", sample |-> "SAMPLE",
   unit |-> "Unit", range |-> "Range", rule |-> "DataRule", origin |-> "String",
   tick |-> "Ratio", post |-> "Scaling"]
DescriptorType(o) == IF o.v.sample = "Struct" THEN "StructDescriptor" ELSE "DataDescriptor"
DescriptorConverter ==
  LET types == <<"", "DataDescriptor", "StructDescriptor">>
  IN  [scalar |-> types, array |-> types, ext |-> TRUE]

\* VariantConverter<INumber>: no target at all.
NumberConverter == [scalar |-> <<"">>, array |-> <<"">>, ext |-> TRUE]

Layout ==
  [EUInformationWithQuantity |-> EUInformationWithQuantity, EUInformation |-> EUInformation,
   RationalNumber |-> RationalNumber, RationalNumber64 |-> RationalNumber64,
   DoubleComplexNumberType |-> DoubleComplexNumberType, ComplexNumberType |-> ComplexNumberType,
   Range |-> RangeStruct, Argument |-> Argument, FunctionBlockInfo |-> FunctionBlockInfo,
   DimensionDescriptor |-> DimensionDescriptor, LinearRule |-> LinearRule, LogRule |-> LogRule,
   ListRule |-> ListRule, CustomRule |-> CustomRule, ConstantRule |-> ConstantRule,
   BaseRule |-> BaseRule, ExplicitDomainRule |-> ExplicitDomainRule,
   LinearScaling |-> LinearScaling, PostScaling |-> PostScaling,
   StructDescriptor |-> StructDescriptor, DataDescriptor |-> DataDescriptor]

LayoutFor(i, t) == IF i = "DataRule" /\ t = "LinearRule" THEN DataLinearRule ELSE Layout[t]

\* idToVariantMap and idToArrayVariantMap: the converter of an interface.
ConverterOf ==
  [Bool |-> BoolConverter, Int |-> IntConverter, Float |-> FloatConverter,
   String |-> StringConverter, Unit |-> UnitConverter, Ratio |-> RatioConverter,
   Complex |-> ComplexConverter, Range |-> RangeConverter, Argument |-> ArgumentConverter,
   FbType |-> FbTypeConverter, Dimension |-> DimensionConverter, DataRule |-> DataRuleConverter,
   DimRule |-> DimRuleConverter, Scaling |-> ScalingConverter, Descriptor |-> DescriptorConverter]

\* uaTypeToDaqObject: the interface a UA type is read as.  No rules here.
ReadAs(t) ==
  CASE t = "BOOLEAN" -> "Bool" [] t \in DOMAIN Bits -> "Int" [] t \in {"FLOAT", "DOUBLE"} -> "Float"
    [] t \in {"STRING", "LOCALIZEDTEXT", "QUALIFIEDNAME"} -> "String"
    [] OTHER ->
       LET i == {"Unit", "Ratio", "Descriptor", "Dimension", "FbType", "Scaling", "Argument",
                 "Range", "Complex"}
           is == {c \in i : t \in ToSet(ConverterOf[c].scalar)}
       IN  IF is = {} THEN "none" ELSE CHOOSE c \in is : TRUE

\* uaTypeToDaqList: its keys for units are not the node ids of the types.
ReadListAs(t) == IF ReadAs(t) = "Unit" THEN "none" ELSE ReadAs(t)

-----------------------------------------------------------------------------
(* Writing *)

RECURSIVE ToVariant(_, _), ToDaq(_), ReadOwn(_, _), Encode(_, _), Decode(_, _), Wire(_), Kept(_)

\* The type without a target.
DefaultType(o) ==
  CASE o.k = "DataRule" -> DataRuleType(o) [] o.k = "DimRule" -> DimRuleType(o)
    [] o.k = "Descriptor" -> DescriptorType(o)
    [] OTHER -> Head(ConverterOf[o.k].scalar)

\* The members a UA structure of type t takes from o.
Members(o, t) ==
  CASE t \in {"LinearRule", "LogRule", "ListRule", "CustomRule", "ConstantRule",
              "ExplicitDomainRule", "BaseRule"} -> o.v.p
    [] OTHER -> o.v

\* StructConverter<..>::ToTmsType
Pack(o, t) ==
  CASE t \in DOMAIN Bits -> {Cast(o.v, t)}
    [] t \in {"BOOLEAN", "DOUBLE", "STRING", "LOCALIZEDTEXT", "QUALIFIEDNAME"} -> {o.v}
    [] t = "FLOAT" -> {2 * (o.v \div 2)}
    [] t \in DOMAIN Layout ->
       LET from == Members(o, t)
           to == LayoutFor(o.k, t)
       IN  All([m \in DOMAIN to |-> IF to[m] = "ZERO" THEN {0}
                                    ELSE IF m \in DOMAIN from THEN Encode(to[m], from[m]) ELSE {}])

\* A member of a structure.
Encode(c, x) ==
  CASE c \in DOMAIN Bits -> {Cast(x, c)}
    [] c \in {"DOUBLE", "STRING", "METADATA"} -> {x}
    [] c = "FLOAT" -> {2 * (x \div 2)}
    [] c = "REAL" -> {x.v}
    [] c = "NUMBER" -> IF x.k \in {"Int", "Float"} THEN ToVariant(x, "") ELSE {}
    [] c = "SIZE" -> {Cast(x, "UINT32")}
    [] c = "CORETYPE" -> CoreToNode(x)
    [] c = "SAMPLE" -> SampleToTms(x)
    [] c = "SCALED" -> ScaledSample(x)
    [] c = "PARAMS" -> All([p \in DOMAIN x |-> ToVariant(x[p], "")])
    [] c \in {"NUMBERS", "DIMENSIONS", "FIELDS"} -> All([i \in DOMAIN x |-> ToVariant(x[i], "")])
    [] OTHER -> IF x.k = "nil" THEN {NullVariant} ELSE ToVariant(x, "")

\* VariantConverter<IStruct>::ToVariant: every member of the UA type must be
\* there, and a member may be unassigned only when it is optional.
StructToVariant(o) ==
  IF o.v.name \notin DOMAIN UaStructs THEN {}
  ELSE LET ms == UaStructs[o.v.name]
           Member(m) ==
             IF o.v.m[m].k = "nil" THEN IF ms[m].opt THEN {NullVariant} ELSE {}
             ELSE {x \in ToVariant(o.v.m[m], ms[m].t) : x.k = ms[m].t}
       IN  IF DOMAIN o.v.m # DOMAIN ms THEN {}
           ELSE {Scalar(o.v.name, d) : d \in All([m \in DOMAIN ms |-> Member(m)])}

\* VariantConverter<IEnumeration>::ToVariant
EnumToVariant(o) == IF o.v.name \in DOMAIN UaEnums THEN {Scalar(o.v.name, Cast(o.v.i, "INT32"))} ELSE {}

\* VariantConverter<IDict>::ToVariant: an empty dictionary is a null variant.
DictToVariant(o, t) ==
  IF t \notin {"", "DaqKeyValuePair"} THEN {}
  ELSE IF o.v = <<>> THEN {NullVariant}
  ELSE {Array("DaqKeyValuePair", d) :
          d \in All([i \in DOMAIN o.v |->
                 All([key |-> ToVariant(o.v[i].key, ""), value |-> ToVariant(o.v[i].value, "")])])}

\* ListConversionUtils: arrays of variants, of extension objects, of one type.
VariantArray(xs) == {Array("VARIANT", d) : d \in All([i \in DOMAIN xs |-> ToVariant(xs[i], "")])}
ExtensionArray(xs) == {Array("EXTENSIONOBJECT", d) : d \in All([i \in DOMAIN xs |-> ToVariant(xs[i], "")])}
TypedArray(xs, t) ==
  {Array(t, d) : d \in All([i \in DOMAIN xs |-> IF xs[i].k = xs[1].k THEN Pack(xs[i], t) ELSE {}])}

\* VariantConverter<IStruct>::ToArrayVariant: one type, that of the first.
StructArray(xs) ==
  {Array(d[1].k, [i \in DOMAIN d |-> d[i].v]) :
     d \in {e \in All([i \in DOMAIN xs |-> StructToVariant(xs[i])]) :
              \A i \in DOMAIN e : e[i].k = e[1].k}}

\* VariantConverter<IBaseObject>::ToArrayVariant; the interface of a list
\* without element type is that of its first element.
ListToVariant(o, t) ==
  LET xs == o.v
      c == ConverterOf[xs[1].k]
  IN  CASE t = "EXTENSIONOBJECT" -> ExtensionArray(xs)
        [] t = "VARIANT" \/ xs = <<>> -> VariantArray(xs)
        [] xs[1].k = "Struct" -> StructArray(xs)
        [] xs[1].k = "Enum" -> {}
        [] xs[1].k \in {"Dict", "List"} -> VariantArray(xs)
        [] xs[1].k \in DOMAIN ConverterOf /\ t = "" ->
             IF Head(c.array) = "" THEN ExtensionArray(xs) ELSE TypedArray(xs, Head(c.array))
        [] OTHER -> IF t \in ToSet(c.array) THEN TypedArray(xs, t) ELSE {}

\* VariantConverter<IBaseObject>::ToVariant; a conversion to the null variant
\* counts as none.
ToVariant(o, t) ==
  LET Plain(u) ==
        CASE o.k = "List" -> ListToVariant(o, u) [] o.k = "Dict" -> DictToVariant(o, u)
          [] o.k = "Struct" -> StructToVariant(o) [] o.k = "Enum" -> EnumToVariant(o)
          [] OTHER -> LET s == IF u = "" THEN DefaultType(o) ELSE u
                      IN  IF u = "" \/ u \in ToSet(ConverterOf[o.k].scalar)
                          THEN {Scalar(s, d) : d \in Pack(o, s)} ELSE {}
  IN  IF o.k = "nil" THEN {NullVariant}
      ELSE {x \in IF t \in {"EXTENSIONOBJECT", "VARIANT"} /\ o.k # "List"
                  THEN {Scalar(t, y) : y \in {z \in Plain("") : z.k # "none"}}
                  ELSE Plain(t) : x.k # "none"}

\* SelectionVariantConverter::ToVariant: the place or the key, and the value.
SelectionToVariant(o) ==
  LET Key(i) == IF o.k = "List" THEN i - 1 ELSE o.v[i].key.v
      Value(i) == IF o.k = "List" THEN o.v[i] ELSE o.v[i].value
  IN  IF o.v = <<>> THEN {NullVariant}
      ELSE {Array("SelectionEntry", d) :
              d \in All([i \in DOMAIN o.v |-> All([key |-> {Key(i)}, value |-> ToVariant(Value(i), "")])])}

-----------------------------------------------------------------------------
(* Reading *)

\* VariantConverter<INumber>::ToDaqObject: a UA Float is not a number.
ReadNumber(x) ==
  IF x.k \in DOMAIN Bits THEN {Obj("Int", Cast(x.v, "INT64"))}
  ELSE IF x.k = "DOUBLE" THEN {Obj("Float", x.v)} ELSE {}

\* A member of a structure.
Decode(c, d) ==
  CASE c \in DOMAIN Bits -> {Cast(d, "INT64")}
    [] c = "REAL" -> {Obj("Float", d)}
    [] c = "NUMBER" -> ReadNumber(d)
    [] c = "CORETYPE" -> NodeToCore(d)
    [] c = "SCALED" -> ScaledSample(d)
    [] c = "NUMBERS" -> IF d = <<>> THEN {} ELSE All([i \in DOMAIN d |-> ReadNumber(d[i])])
    [] c = "PARAMS" ->
       LET read == {p \in DOMAIN d : ToDaq(d[p]) # {}}
       IN  All([p \in read |-> ToDaq(d[p])])
    [] c = "DIMENSIONS" -> All([i \in DOMAIN d |-> ReadOwn(d[i], "Dimension")])
    [] c = "FIELDS" -> All([i \in DOMAIN d |-> ReadOwn(d[i], "Descriptor")])
    [] c \in {"DataRule", "DimRule"} -> IF d.k = "none" THEN {Nil} ELSE ReadOwn(d, c)
    [] c \in DOMAIN ConverterOf -> ToDaq(d)
    [] OTHER -> {d}

\* The rule a structure is read as.
RuleKind(t) ==
  [LinearRule |-> "Linear", LogRule |-> "Logarithmic", ListRule |-> "List", CustomRule |-> "Other",
   ConstantRule |-> "Constant", BaseRule |-> "Explicit", ExplicitDomainRule |-> "Explicit"][t]

\* StructConverter<..>::ToDaqObject
Unpack(i, t, d) ==
  LET from == LayoutFor(i, t)
      read == All([m \in DOMAIN from \ {"value"} |-> IF m \in DOMAIN d THEN Decode(from[m], d[m]) ELSE {}])
  IN  CASE t \in DOMAIN Bits -> {Obj("Int", Cast(d, "INT64"))}
        [] t \notin DOMAIN Layout -> {Obj(i, d)}
        [] i \in {"DataRule", "DimRule"} -> {Obj(i, [type |-> RuleKind(t), p |-> r]) : r \in read}
        [] OTHER -> {Obj(i, r) : r \in read}

\* A structure that only the generic converter knows: a rule, for the base
\* converter.  Its members are not followed here.
Generic == Obj("Generic", 0)

\* VariantConverter<IStruct>::ToDaqObject
ReadStruct(t, d) ==
  {Obj("Struct", [name |-> t, m |-> ms]) :
     ms \in All([m \in DOMAIN UaStructs[t] |-> ToDaq(d[m])])}

\* VariantConverter<IEnumeration>::ToDaqObject: the name with that value.
ReadEnum(t, d) ==
  {Obj("Enum", [name |-> t, i |-> IF d \in DOMAIN UaEnums[t] THEN d ELSE -1])}

\* VariantConverter<IDict>::ToDaqObject
ReadDict(ds) ==
  {Obj("Dict", e) :
     e \in All([i \in DOMAIN ds |-> All([key |-> ToDaq(ds[i].key), value |-> ToDaq(ds[i].value)])])}

\* isDictionary of SelectionVariantConverter::ToDaqObject
InOrder(ds) == \A i \in DOMAIN ds : ds[i].v.key = i - 1

\* SelectionVariantConverter::ToDaqObject: keys 0, 1, 2.. in order make a list.
ReadSelection(x) ==
  LET ds == x.v
      values == All([i \in DOMAIN ds |-> ToDaq(ds[i].v.value)])
  IN  IF x.k # "EXTENSIONOBJECT" THEN {}
      ELSE {IF InOrder(ds) THEN Obj("List", vs)
            ELSE Obj("Dict", [i \in DOMAIN ds |-> [key |-> Obj("Int", ds[i].v.key), value |-> vs[i]]]) : vs \in values}

\* What comes out of data that is read as a type it is not.
Garbage == Obj("Garbage", 0)

\* DecodeIfExtensionObject and UnwrapIfVariant: one layer is taken off.
Decoded(x) == IF x.k = "EXTENSIONOBJECT" THEN x.v ELSE x
Unwrapped(x) == IF x.k = "VARIANT" THEN x.v ELSE x

\* ToDaqObject of the converter of one interface: none of them unwraps a
\* variant, those of the simple types do not decode an extension object, and
\* that of descriptors decodes it for its type and then reads the object itself.
ReadOwn(x, i) ==
  LET y == IF i \in {"Bool", "Int", "Float", "String"} THEN x ELSE Decoded(x)
  IN  CASE x.k = "none" -> IF i \in {"Bool", "Int", "String"} THEN {Nil} ELSE {}
        [] y.k \notin ToSet(ConverterOf[i].scalar) -> {}
        [] i = "Descriptor" /\ y # x -> {Garbage}
        [] OTHER -> Unpack(i, y.k, y.v)

\* ToDaqList of the converter of one interface.
ReadOwnList(x, i) ==
  LET Each(F(_)) == {Obj("List", s) : s \in All([j \in DOMAIN x.v |-> F(x.v[j])])}
      Through(d) == ReadOwn(d, i)
      Typed(d) == Unpack(i, x.k, d)
  IN  CASE x.k = "EXTENSIONOBJECT" -> IF ConverterOf[i].ext THEN Each(Through) ELSE {}
        [] x.k \in ToSet(ConverterOf[i].scalar) -> Each(Typed)
        [] OTHER -> {}

\* VariantConverter<IBaseObject>::ToDaqList
ReadList(x) ==
  LET Each(F(_)) == {Obj("List", s) : s \in All([j \in DOMAIN x.v |-> F(x.v[j])])}
      Struct(d) == IF x.k \in DOMAIN UaStructs THEN ReadStruct(x.k, d) ELSE {Generic}
  IN  CASE x.k \in {"EXTENSIONOBJECT", "VARIANT"} -> Each(ToDaq)
        [] ReadListAs(x.k) # "none" -> ReadOwnList(x, ReadListAs(x.k))
        [] x.k \in DOMAIN UaEnums -> {}
        [] OTHER -> Each(Struct)

\* The arrays of VariantConverter<IBaseObject>::ToDaqObject: the first of the
\* extension objects tells what they are, also when there is none.
ReadArray(x) ==
  LET ext == x.k = "EXTENSIONOBJECT"
      first == IF ext /\ x.v # <<>> THEN x.v[1].k ELSE x.k
  IN  CASE ext /\ x.v = <<>> -> {Garbage}
        [] first = "DaqKeyValuePair" -> ReadDict(IF ext THEN [j \in DOMAIN x.v |-> x.v[j].v] ELSE x.v)
        [] first = "SelectionEntry" -> ReadSelection(x)
        [] OTHER -> ReadList(x)

\* VariantConverter<IBaseObject>::ToDaqObject.  An array in a variant is taken
\* for a scalar: a dictionary that was wrapped becomes a structure of one pair.
ToDaq(x) ==
  LET y == Unwrapped(Decoded(x))
  IN  CASE x.k = "none" -> {Nil}
        [] x.n = "array" -> ReadArray(x)
        [] y.k = "none" -> {Nil}
        [] y.k \in DOMAIN UaEnums -> ReadEnum(y.k, y.v)
        [] ReadAs(y.k) # "none" -> ReadOwn(y, ReadAs(y.k))
        [] y.k \in DOMAIN UaStructs -> ReadStruct(y.k, y.v)
        [] y.k \in {"EXTENSIONOBJECT", "VARIANT"} -> {}
        [] OTHER -> {Generic}

\* A variant in a variant, alone and not in an array, is not encoded.
Crosses(x) == x.k # "VARIANT" \/ x.n = "array"

\* What open62541 does with a variant on its way: a structure in an array
\* becomes an extension object, one alone does not stay one, and an
\* enumeration becomes an Int32.
Wire(x) ==
  CASE x.k \in {"DaqKeyValuePair", "SelectionEntry"} /\ x.n = "array" ->
         Array("EXTENSIONOBJECT",
               [i \in DOMAIN x.v |-> Scalar(x.k, [x.v[i] EXCEPT !.value = Wire(@)])])
    [] x.n = "array" /\ x.k \in DOMAIN Layout \cup DOMAIN UaStructs ->
         Array("EXTENSIONOBJECT", [i \in DOMAIN x.v |-> Scalar(x.k, x.v[i])])
    [] x.n = "array" /\ x.k = "VARIANT" -> Array("VARIANT", [i \in DOMAIN x.v |-> Wire(x.v[i])])
    [] x.n = "scalar" /\ x.k = "EXTENSIONOBJECT" -> x.v
    [] x.n = "scalar" /\ x.k \in DOMAIN UaEnums -> Scalar("INT32", x.v)
    [] OTHER -> x

-----------------------------------------------------------------------------
(* One value there and back *)

ConvertInit ==
  /\ \/ sample \in Samples /\ how \in {"base", "own"}
     \/ sample \in Selections \X {""} /\ how = "selection"
  /\ direct \in BOOLEAN /\ sent = {} /\ got = {} /\ stage = "write"

Write ==
  /\ stage = "write" /\ stage' = "read"
  /\ sent' = IF how = "selection" THEN SelectionToVariant(sample[1]) ELSE ToVariant(sample[1], sample[2])
  /\ UNCHANGED <<sample, how, direct, got>>

\* The interface whose own converter reads, when there is one: that of the
\* object, or of the elements of a list.
Element(o) == IF o.k = "List" /\ o.v # <<>> THEN o.v[1] ELSE o
ByOwn == how = "own" /\ Element(sample[1]).k \in DOMAIN ConverterOf

Read ==
  /\ stage = "read" /\ stage' = "done"
  /\ LET i == Element(sample[1]).k
         Back(x) == CASE how = "selection" -> ReadSelection(x)
                      [] ByOwn -> IF sample[1].k = "List" THEN ReadOwnList(x, i) ELSE ReadOwn(x, i)
                      [] OTHER -> ToDaq(x)
     IN  got' = IF direct THEN UNION {Back(x) : x \in sent}
                ELSE UNION {Back(Wire(x)) : x \in {y \in sent : Crosses(y)}}
  /\ UNCHANGED <<sample, how, direct, sent>>

ConvertNext == Write \/ Read

-----------------------------------------------------------------------------
(* Properties *)

\* What of an object is there on the other side.
Kept(o) ==
  CASE o.k = "Range" ->
         Obj("Range", [low |-> Obj("Float", o.v.low.v), high |-> Obj("Float", o.v.high.v)])
    [] o.k = "Descriptor" ->
         LET fields == IF o.v.sample = "Struct" THEN {"name", "dimensions", "metadata", "fields"}
                       ELSE DOMAIN o.v \ {"fields"}
         IN  Obj("Descriptor", [f \in fields |->
               IF f = "fields" THEN [i \in DOMAIN o.v.fields |-> Kept(o.v.fields[i])]
               ELSE IF f = "range" THEN Kept(o.v.range) ELSE o.v[f]])
    [] o.k = "DataRule" /\ o.v.type = "Explicit" /\ DOMAIN o.v.p # {"min", "max"} ->
         Obj("DataRule", [type |-> "Explicit", p |-> <<>>])
    [] o.k = "List" -> Obj("List", [i \in DOMAIN o.v |-> Kept(o.v[i])])
    [] o.k = "Dict" ->
         Obj("Dict", [i \in DOMAIN o.v |-> [key |-> o.v[i].key, value |-> Kept(o.v[i].value)]])
    [] o.k = "Enum" -> IF direct THEN o ELSE Obj("Int", o.v.i)
    [] OTHER -> o

Done == stage = "done" /\ how # "selection"
Wrapped == sample[2] = "VARIANT" /\ sample[1].k \notin {"List", "nil"}

\* What cannot be read: a variant alone in a variant does not cross, a
\* converter of one interface reads no variants, those of ranges and complex
\* numbers no extension objects in lists, and a list rule without elements is
\* written but not read.
Refused ==
  \/ Wrapped /\ ~direct
  \/ ByOwn /\ sample[2] = "VARIANT"
  \/ ByOwn /\ sample[1].k = "List" /\ ~direct /\ Element(sample[1]).k \in {"Range", "Complex"}
  \/ ByOwn /\ sample[1].k = "DimRule" /\ sample[1].v.type = "List" /\ sample[1].v.p.list = <<>>

UnitList(o) == o.k = "List" /\ Element(o).k = "Unit"

\* What only comes back as a structure of UA: a rule for the base converter,
\* a list of units that was not carried, alone or in a dictionary, and a
\* wrapped dictionary.
AsStructure ==
  LET o == sample[1]
  IN  /\ ~ByOwn
      /\ \/ Element(o).k \in {"DataRule", "DimRule"}
         \/ direct /\ sample[2] = "" /\ UnitList(o)
         \/ direct /\ o.k = "Dict" /\ \E i \in DOMAIN o.v : UnitList(o.v[i].value)
         \/ Wrapped /\ o.k = "Dict"

\* Undefined in the code: a descriptor's own converter with an extension
\* object that was not carried, an empty array of extension objects.
Undefined ==
  /\ sample[2] = "EXTENSIONOBJECT"
  /\ \/ ByOwn /\ direct /\ sample[1].k = "Descriptor"
     \/ sample[1] = Obj("List", <<>>)

\* What is written without a target, or wrapped, is read or refused by the
\* reader that the code uses for it, and never becomes another value: the
\* object is there again, less what no UA type carries (Kept).
WrittenIsRead ==
  Done /\ sent # {} /\ sample[2] \in {"", "VARIANT", "EXTENSIONOBJECT"} /\ ~Undefined =>
    CASE Refused -> got = {}
      [] ~Refused /\ AsStructure -> Cardinality(got) = 1 /\ got # {Kept(sample[1])}
      [] OTHER -> got = {Kept(sample[1])}

\* An integer with a target type throws or arrives, and arrives as it was when
\* the type can hold it: no signed or unsigned type moves a value that fits.
IntegerThatFitsArrives ==
  Done /\ sample[1].k = "Int" /\ sent # {} /\ sample[2] \in DOMAIN Bits =>
    LET n == sample[1].v
        b == Bits[sample[2]]
        fits == IF sample[2] \in {"BYTE", "UINT16", "UINT32", "UINT64"} THEN n \in 0..2^b - 1
                ELSE n \in -(2^(b - 1))..2^(b - 1) - 1
    IN  /\ Cardinality(got) = 1
        /\ fits => got = {sample[1]}

\* Selection values arrive as they were: a list as a list, a dictionary with its
\* keys, unless those are 0, 1, 2.. in order; none of them as a null.
SelectionArrives ==
  stage = "done" /\ how = "selection" /\ ~direct /\ sample[1].v # <<>> =>
    LET o == sample[1]
        keys == [i \in DOMAIN o.v |-> o.v[i].key.v]
    IN  got = IF o.k = "List" THEN {o}
              ELSE IF keys = [i \in DOMAIN o.v |-> i - 1]
                   THEN {Obj("List", [i \in DOMAIN o.v |-> o.v[i].value])} ELSE {o}
=============================================================================
