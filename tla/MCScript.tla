------------------------------ MODULE MCScript ------------------------------
EXTENDS ScriptEngine

If(l, op, r) == <<Fn(FUNCTION_IF), l, Op(op), r>>
IfTrue == If(Num(1), OPTYPE_EQ_EQ, Num(1))
IfFalse == If(Num(1), OPTYPE_GREATER, Num(2))
Else == <<Fn(FUNCTION_ELSE)>>
Endif == <<Fn(FUNCTION_ENDIF)>>
Again == <<Fn(FUNCTION_GOTO), Name("a")>>
Var(x, v) == <<Fn(FUNCTION_VAR), Name(x), Op(OPTYPE_EQ), v>>
Set(x, l, op, r) == <<Name(x), Op(OPTYPE_EQ), l, Op(op), r>>
Led(t) == <<Fn(FUNCTION_LED), t>>

\* Any order of the lines that move the control, and IFs nested up to three deep.
MCJumps == UNION {[1..n -> {IfTrue, IfFalse, Else, Endif, Again, Label("a")}] : n \in 1..5}

MCNested ==
  {s \in UNION {[1..n -> {IfTrue, IfFalse, Else, Endif}] : n \in {6, 7}} :
     /\ s[1] \in {IfTrue, IfFalse} /\ s[Len(s)] = Endif
     /\ Cardinality({n \in DOMAIN s : s[n] = Endif}) =
          Cardinality({n \in DOMAIN s : s[n] \in {IfTrue, IfFalse}})}

\* Lines that allocate, free, declare and end.
MCTexts ==
  UNION {[1..n -> {Led(Text("red")), <<Fn(FUNCTION_LCDW), Num(0), Text("red")>>,
                   Led(Name("x")), Var("x", Num(1)), <<Fn(FUNCTION_VAR), Name("x")>>, <<Fn(FUNCTION_VAR)>>,
                   Set("x", Name("x"), OPTYPE_PLUS, Num(1)), <<Fn(FUNCTION_IF), Num(1)>>,
                   <<Fn(FUNCTION_LED), Num(1), Op(OPTYPE_MOD), Name("x")>>,
                   <<Fn(FUNCTION_BOOT), Name("BNKOS")>>, <<Fn(FUNCTION_BOOT), Num(1)>>,
                   <<Fn(FUNCTION_END)>>}] : n \in 1..3}

\* A count of loops, a loop that a function ends, a constant that is assigned to.
MCLoops ==
  {<<Var("x", Num(0)), Label("a"), Set("x", Name("x"), OPTYPE_PLUS, Num(1)),
     If(Name("x"), OPTYPE_LOWER, Num(3)), Again, Endif>>,
   <<Var("x", Num(0)), Label("a"), <<Name("x"), Op(OPTYPE_EQ), Fn(FUNCTION_GPI), Num(1)>>,
     If(Name("x"), OPTYPE_NOT_EQ, Num(1)), Again, Else, Led(Text("red")), Endif>>,
   <<Var("x", Num(0)), <<Name("x"), Op(OPTYPE_EQ), Fn(FUNCTION_XPAD)>>,
     Set("BNKOS", Name("x"), OPTYPE_PLUS, Name("BNKOS"))>>,
   <<If(Name("_param0"), OPTYPE_LOWER_EQ, Num(1)), Set("_param0", Num(3), OPTYPE_MULT, Name("_param0")),
     Endif, If(Name("_param0"), OPTYPE_GREATER_EQ, Num(3)), <<Fn(FUNCTION_BOOT), Name("_param0")>>, Endif>>}

MCOperands == {Name("x"), Name("y"), Num(3), Num(-2)}
MCValues ==
  {<<Var("x", Num(v)), Var("y", Num(w)), Set("x", l, op, r)>> :
     v \in {-7, 5}, w \in {-512, 0, 2}, l \in MCOperands, r \in MCOperands,
     op \in OPTYPE_PLUS..OPTYPE_SHIFTDOWN}

MCScripts == MCJumps \cup MCNested \cup MCTexts \cup MCLoops \cup MCValues
MCNames == {"x", "y", "a", "red", "BNKOS", "_param0"}
=============================================================================
