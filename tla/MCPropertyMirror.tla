------------------------- MODULE MCPropertyMirror ---------------------------
(* Objects with the kinds of properties that are shown differently. *)
EXTENDS PropertyMirror

Const(v) == [e |-> FALSE, v |-> v]
Eval(n) == [e |-> TRUE, v |-> n]
Prop(n, t, fields) ==
  [name |-> n, type |-> t, fields |-> fields, to |-> <<>>, by |-> n, native |-> TRUE, args |-> <<>>,
   ret |-> "Undefined", sub |-> <<>>]
Ref(n, to, by) == [Prop(n, "Reference", <<>>) EXCEPT !.to = to, !.by = by]
Func(n, t, args, ret) == [Prop(n, t, <<>>) EXCEPT !.args = args, !.ret = ret]

Locked == [IsReadOnly |-> Const(1), DefaultValue |-> Const(0)]
Limits == [MinValue |-> Const(0), MaxValue |-> Eval("mode"), DefaultValue |-> Const(0), Unit |-> Const(1)]

Objects_ ==
  {<<Prop("mode", "Int", [DefaultValue |-> Const(0)]), Ref("ref", <<"low", "high">>, "mode"),
     Prop("low", "Int", Limits), Prop("high", "String", [IsReadOnly |-> Eval("mode")])>>,
   <<Prop("mode", "Bool", <<>>), Ref("a", <<"fixed", "x">>, "mode"), Prop("fixed", "String", Locked),
     Ref("b", <<"x", "fixed">>, "mode"), Prop("x", "Float", [IsVisible |-> Const(0), ValidationExpression |-> Const(1)])>>,
   <<Func("f", "Func", <<"Int", "String">>, "Bool"), Func("g", "Proc", <<"List">>, "Undefined"),
     [Prop("s", "Struct", <<>>) EXCEPT !.native = FALSE], Func("h", "Proc", <<"Ratio">>, "Undefined"),
     [Prop("o", "Object", [IsReadOnly |-> Const(1)]) EXCEPT !.sub = <<Prop("in", "Int", Locked), Func("k", "Proc", <<>>, "Undefined")>>],
     Func("m", "Func", <<"Object">>, "Int")>>,
   <<Func("f", "Proc", <<>>, "Undefined"), Prop("id", "Int", Locked), Prop("t", "Struct", <<>>),
     Prop("pick", "Int", [SelectionValues |-> Const(<<"x", "y">>), DefaultValue |-> Const(0)])>>}
=============================================================================
