---------------------------- MODULE SampleValues ----------------------------
(* Values of each interface, with the targets that make a difference. *)
EXTENDS Converters

Whole(n) == Obj("Int", n)
Float(n) == Obj("Float", n)
Text(s) == Obj("String", s)
UnitOf(s) == Obj("Unit", [id |-> -1, symbol |-> s, name |-> "n", quantity |-> "q"])
RatioOf(n) == Obj("Ratio", [numerator |-> n, denominator |-> 5])
RangeOf(l, h) == Obj("Range", [low |-> l, high |-> h])
ComplexOf(r) == Obj("Complex", [real |-> r, imaginary |-> 3])
ArgumentOf(t) == Obj("Argument", [name |-> "a", type |-> t])
FbTypeOf(i) == Obj("FbType", [id |-> i, name |-> "n", description |-> "d"])
RuleOf(k, t, p) == Obj(k, [type |-> t, p |-> p])
ScalingOf(s) == Obj("Scaling", [scale |-> s, offset |-> Whole(1), input |-> "Int16", output |-> "Float32"])
List(s) == Obj("List", s)
Dict(s) == Obj("Dict", s)
Pair(k, v) == [key |-> k, value |-> v]

Linear == RuleOf("DataRule", "Linear", [delta |-> Whole(2), start |-> Float(3)])
DataRules ==
  {Linear, RuleOf("DataRule", "Constant", <<>>), RuleOf("DataRule", "Explicit", <<>>),
   RuleOf("DataRule", "Explicit", [min |-> Whole(1)]),
   RuleOf("DataRule", "Explicit", [min |-> Whole(1), max |-> Whole(9)]),
   RuleOf("DataRule", "Other", [params |-> [a |-> Whole(1), b |-> Text("s")]])}
ListRuleOf(s) == RuleOf("DimRule", "List", [list |-> s])
DimRules ==
  {RuleOf("DimRule", "Linear", [delta |-> Whole(2), start |-> Whole(1), size |-> 4]),
   RuleOf("DimRule", "Logarithmic", [delta |-> Whole(2), start |-> Whole(1), base |-> 2, size |-> 4]),
   ListRuleOf(<<Whole(1), Float(2)>>), ListRuleOf(<<>>),
   RuleOf("DimRule", "Other", [params |-> [a |-> Whole(1)]])}
DimensionOf(n, u) == Obj("Dimension", [name |-> n, unit |-> u, rule |-> ListRuleOf(<<Whole(1)>>)])
DescriptorOf(s, unit, rule, post, fields) ==
  Obj("Descriptor",
      [name |-> "v", dimensions |-> <<DimensionOf(Text("d"), Nil)>>, metadata |-> [a |-> "b"],
       sample |-> s, unit |-> unit, range |-> RangeOf(Whole(0), Whole(7)), rule |-> rule,
       origin |-> Nil, tick |-> RatioOf(1), post |-> post, fields |-> fields])
PlainDescriptor == DescriptorOf("Int16", UnitOf("s"), Linear, Nil, <<>>)
Scaled == DescriptorOf("Float32", Nil, Linear, ScalingOf(Float(3)), <<>>)
Structured == DescriptorOf("Struct", Nil, Linear, Nil, <<PlainDescriptor, Scaled>>)
StructOf(n, x) == Obj("Struct", [name |-> "Settings", m |-> [mode |-> n, offset |-> x, limit |-> Nil]])
Limited(l) == Obj("Struct", [name |-> "Settings", m |-> [mode |-> Whole(3), offset |-> Nil, limit |-> l]])

Scalars ==
  {Nil, Obj("Bool", TRUE), Float(3), Text(""), Text("s"), UnitOf(""), UnitOf("V"), RatioOf(1),
   RatioOf(-9), RangeOf(Whole(1), Float(3)), ComplexOf(5), FbTypeOf("f"), ScalingOf(Whole(2)),
   DimensionOf(Nil, UnitOf("V")), PlainDescriptor, Scaled, Structured, StructOf(Whole(3), Nil), StructOf(Whole(3), Text("s")),
   StructOf(Nil, Nil), Limited(Whole(5)), Limited(UnitOf("V")), Obj("Enum", [name |-> "Mode", i |-> 1])}
  \cup {ArgumentOf(t) : t \in {"Bool", "Int", "Float", "String", "Ratio", "Proc"}}
  \cup DataRules \cup DimRules

Lists ==
  {List(<<>>), List(<<Whole(1), Whole(-2)>>), List(<<Whole(1), Float(2)>>), List(<<Text("s"), Text("t")>>),
   List(<<UnitOf("V"), UnitOf("A")>>), List(<<RangeOf(Whole(1), Whole(2)), RangeOf(Whole(3), Whole(4))>>),
   List(<<ComplexOf(1)>>), List(<<PlainDescriptor, Structured>>), List(<<Linear>>), List(<<List(<<Whole(1)>>)>>),
   List(<<StructOf(Whole(1), Nil), StructOf(Whole(2), Text("s"))>>), List(<<ArgumentOf("Int")>>),
   Dict(<<>>), Dict(<<Pair(Text("a"), Whole(1)), Pair(Text("b"), List(<<UnitOf("V")>>))>>),
   Dict(<<Pair(Whole(2), Dict(<<Pair(Whole(1), Text("s"))>>))>>)}

Samples_ ==
  (Scalars \cup Lists) \X {"", "VARIANT"} \cup {<<o, "EXTENSIONOBJECT">> : o \in {UnitOf("V"), RatioOf(1), PlainDescriptor, List(<<>>), List(<<UnitOf("V")>>)}}
  \cup {<<Whole(n), t>> : n \in {-16, -3, -1, 0, 1, 3, 7, 15}, t \in DOMAIN Bits \cup {"", "DOUBLE"}}
  \cup {<<Float(3), "FLOAT">>, <<UnitOf("V"), "EUInformation">>, <<RatioOf(9), "RationalNumber">>}
  \cup {<<List(<<Whole(1), Whole(9)>>), t>> : t \in {"INT16", "STRING"}}
Selections_ ==
  {List(<<>>), List(<<Text("a"), Text("b")>>), Dict(<<Pair(Whole(0), Text("a")), Pair(Whole(1), Text("b"))>>),
   Dict(<<Pair(Whole(1), Text("a")), Pair(Whole(0), Text("b"))>>), Dict(<<Pair(Whole(5), Text("a")), Pair(Whole(1), Text("b"))>>)}
UaStructs_ == [Settings |-> [mode |-> [t |-> "INT32", opt |-> FALSE], offset |-> [t |-> "STRING", opt |-> TRUE],
                            limit |-> [t |-> "VARIANT", opt |-> TRUE]]]
UaEnums_ == [Mode |-> [i \in 0..1 |-> IF i = 0 THEN "A" ELSE "B"]]
=============================================================================
