---------------------------- MODULE MCTypeInfer ----------------------------
EXTENDS TypeInfer

E(op, args, n, as) == [op |-> op, args |-> args, n |-> n, as |-> as]

Param == <<E("param", <<>>, 0, "?"), Unknown>>
Lit(n, word) == <<E("literal", <<>>, n, word), Unknown>>
Use(v) == <<E("use", <<v>>, 0, "?"), Unknown>>
Add(a, b) == <<E("add", <<a, b>>, 0, "?"), Unknown>>
Mask(a, b) == <<E("mask", <<a, b>>, 0, "?"), Unknown>>
Equal(a, b) == <<E("equal", <<a, b>>, 0, "?"), Unknown>>
Phi(arms) == <<E("phi", arms, 0, "?"), Unknown>>
Call(g, args) == <<E("call", args, g, "?"), Unknown>>
Part(v, i) == <<E("part", <<v>>, i, "?"), Unknown>>
Untyped == <<E("host", <<>>, 0, "?"), Unknown>>
Host(b) == <<E("host", <<>>, 0, "?"), Known(b)>>
Auth(v) == <<E("auth", <<v>>, 0, "?"), Known("val")>>
Encode(b, v) == <<E("encode", <<v>>, 0, b), Inferred("val")>>
Hash(v) == <<E("hash", <<v>>, 0, "?"), Known("bytes")>>
Length(v) == <<E("length", <<v>>, 0, "?"), Known("u32")>>
Verify(k, m, s) == <<E("verify", <<k, m, s>>, 0, "?"), Known("val")>>
Push(v) == <<E("push", <<v>>, 0, "?"), Known("vec")>>

Fn(spec, params, body, returns) ==
    Function([spec |-> spec, params |-> [i \in 1 .. params |-> i],
     def |-> Map(body, LAMBDA b : b[1]), start |-> Map(body, LAMBDA b : b[2]),
     returns |-> returns, tests |-> {}])

Entry(inputs, outputs, body, returns) ==
    Fn({[inputs |-> inputs, outputs |-> outputs]}, Len(inputs), body, returns)

\* A literal meets a call's result before the callee is typed.
Vesting ==
    <<Entry(<<"u64">>, <<"u64">>,
        <<Param, Call(2, <<>>), Lit(1, "i64"), Add(2, 3), Call(4, <<4>>)>>, <<<<4>>>>),
      Fn({}, 0, <<Call(3, <<>>)>>, <<<<1>>>>),
      Fn({}, 0, <<Host("u64"), Lit(0, "i64"), Phi(<<1, 2>>)>>, <<<<3>>>>),
      Fn({}, 1, <<Param, Encode("u64", 1)>>, <<<<2>>>>)>>

\* A constant merged with a call's result.
MergedCall ==
    <<Entry(<<"u64">>, <<"u64">>,
        <<Param, Call(2, <<>>), Lit(0, "i64"), Phi(<<2, 3>>), Call(3, <<4>>)>>, <<<<1>>>>),
      Fn({}, 0, <<Host("u64")>>, <<<<1>>>>),
      Fn({}, 1, <<Param, Encode("u64", 1)>>, <<<<2>>>>)>>

\* A parameter is handed a constant and a sum that waits for a callee.
Late ==
    <<Entry(<<>>, <<>>,
        <<Call(2, <<>>), Lit(1, "i64"), Add(1, 2), Call(4, <<3>>), Call(4, <<2>>)>>, <<>>),
      Fn({}, 0, <<Call(3, <<>>)>>, <<<<1>>>>),
      Fn({}, 0, <<Host("u64")>>, <<<<1>>>>),
      Fn({}, 1, <<Param>>, <<<<1>>>>)>>

\* A helper asks for the Address that its caller holds a copy of as a Val.
Oscillate ==
    <<Entry(<<>>, <<>>, <<Host("val"), Use(1), Call(2, <<2>>)>>, <<>>),
      Fn({}, 1, <<Param, Auth(1)>>, <<>>)>>

WordOf(t) == IF t = "u64" THEN "i64" ELSE "i32"

\* A loop that counts to `bound`, after what `call` does.
Counting(bound, call, word) ==
    <<Param>> \o call \o <<Lit(0, word), Lit(1, word), Phi(<<Len(call) + 2, Len(call) + 5>>),
      Add(Len(call) + 4, Len(call) + 3), Equal(Len(call) + 4, bound)>>

\* The lowest helper, of one number.
NumberLow(t, w) == {
    Fn({}, 1, <<Param, Encode(t, 1)>>, <<<<1>>>>),
    Fn({}, 1, <<Param, Host(t)>>, <<<<2>>>>),
    Fn({}, 1, <<Param, Lit(1, w), Add(1, 2)>>, <<<<3>>>>),
    Fn({}, 1, <<Param, Lit(0, w), Phi(<<1, 2>>)>>, <<<<3>>>>),
    Fn({}, 1, <<Param, Lit(0, w)>>, <<<<2>>, <<1>>>>),
    Fn({}, 1, Counting(1, <<>>, w), <<<<4>>>>)}

\* A helper that calls it, and perhaps itself.
NumberMid(w) == {
    Fn({}, 1, <<Param, Call(3, <<1>>)>>, <<<<2>>>>),
    Fn({}, 1, <<Param, Call(3, <<1>>), Lit(1, w), Add(2, 3)>>, <<<<4>>>>),
    Fn({}, 1, <<Param, Call(3, <<1>>), Lit(0, w), Phi(<<2, 3>>)>>, <<<<4>>>>),
    Fn({}, 1, <<Param, Use(1), Call(3, <<2>>)>>, <<<<2>>>>),
    Fn({}, 1, <<Param, Call(3, <<1>>), Call(2, <<2>>), Phi(<<2, 3>>)>>, <<<<4>>>>),
    Fn({}, 1, Counting(2, <<Call(3, <<1>>)>>, w), <<<<5>>>>),
    Fn({}, 1, <<Param, Lit(1, w), Call(3, <<2>>), Call(3, <<1>>)>>, <<<<4>>>>)}

\* Two entries: one calls the upper helper or both, one gives the other
\* evidence.
NumberTop(t, w) == {
    Entry(<<t>>, <<t>>, <<Param, Call(2, <<1>>)>>, <<<<2>>>>),
    Entry(<<t>>, <<>>, <<Param, Call(2, <<1>>), Equal(2, 1)>>, <<>>),
    Entry(<<t>>, <<t>>, <<Param, Call(2, <<1>>), Call(3, <<2>>)>>, <<<<3>>>>),
    Entry(<<>>, <<>>, <<Lit(1, w), Call(2, <<1>>), Lit(2, w), Add(2, 3), Call(3, <<4>>)>>, <<>>)}

NumberNext(t, w) == {
    Entry(<<>>, <<>>, <<Untyped, Call(3, <<1>>)>>, <<>>),
    Entry(<<>>, <<>>, <<Lit(7, w), Call(3, <<1>>)>>, <<>>),
    Entry(<<t>>, <<t>>, <<Param, Use(1), Call(3, <<2>>)>>, <<<<3>>>>),
    Entry(<<>>, <<t>>, <<Host(t), Call(2, <<1>>)>>, <<<<2>>>>)}

\* The same four functions around an object.
ObjectLow(t) == {
    Fn({}, 1, <<Param>>, <<<<1>>>>),
    Fn({}, 1, <<Param, Host("val")>>, <<<<2>>>>),
    Fn({}, 1, <<Param, Host(t)>>, <<<<1, 2>>>>),
    Fn({}, 1, <<Param, Host("u64")>>, <<<<1, 2>>>>),
    Fn({}, 1, <<Param, Host(t), Phi(<<1, 2>>)>>, <<<<3>>>>),
    Fn({}, 1, <<Param, Host("val"), Phi(<<1, 2>>)>>, <<<<3>>>>)} \cup
    (CASE t = "address" -> {Fn({}, 1, <<Param, Auth(1)>>, <<<<1>>>>)}
       [] t = "vecOf" -> {Fn({}, 1, <<Param, Push(1)>>, <<<<2>>>>)}
       [] t = "bytes" -> {Fn({}, 1, <<Param, Length(1)>>, <<<<1>>>>)}
       [] OTHER -> {Fn({}, 1, <<Param, Host("val"), Host("val"), Verify(1, 2, 3)>>, <<<<2>>>>),
                    Fn({}, 1, <<Param, Hash(1)>>, <<<<1>>>>)})

ObjectMid(arity) == {
    Fn({}, 1, <<Param, Use(1), Call(3, <<2>>)>>, <<<<2>>>>),
    Fn({}, 1, <<Param, Call(3, <<1>>), Host("val"), Call(3, <<3>>)>>, <<<<1>>>>)} \cup
    (IF arity = 1
     THEN {Fn({}, 1, <<Param, Call(3, <<1>>)>>, <<<<2>>>>),
           Fn({}, 1, <<Param, Call(3, <<1>>), Equal(1, 2)>>, <<<<2>>>>),
           Fn({}, 1, <<Param, Call(3, <<1>>), Call(2, <<2>>), Phi(<<2, 3>>)>>, <<<<4>>>>)}
     ELSE {Fn({}, 1, <<Param, Call(3, <<1>>), Part(2, 2)>>, <<<<3>>>>),
           Fn({}, 1, <<Param, Call(3, <<1>>), Part(2, 1), Part(2, 2)>>, <<<<4>>, <<3>>>>)})

ObjectTop(t) == {
    Entry(<<t>>, <<t>>, <<Param, Call(2, <<1>>)>>, <<<<2>>>>),
    Entry(<<>>, <<>>, <<Host(t), Use(1), Call(2, <<2>>)>>, <<>>),
    Entry(<<>>, <<t>>, <<Host("val"), Call(2, <<1>>)>>, <<<<2>>>>),
    Entry(<<>>, <<>>, <<Untyped, Call(2, <<1>>)>>, <<>>),
    Entry(<<t>>, <<>>, <<Param, Host("val"), Call(2, <<2>>), Call(2, <<1>>), Call(2, <<3>>)>>, <<>>)}

ObjectNext(t) == {
    Entry(<<>>, <<>>, <<Untyped, Call(3, <<1>>)>>, <<>>),
    Entry(<<>>, <<>>, <<Host(t), Call(3, <<1>>)>>, <<>>),
    Entry(<<t, "bytes">>, <<>>, <<Param, Param, Call(3, <<1>>), Call(3, <<2>>)>>, <<>>),
    Entry(<<>>, <<>>, <<Lit(0, "i64"), Call(2, <<1>>)>>, <<>>)}

NumberPrograms ==
    UNION {{<<a, b, c, d>> : a \in NumberTop(t, WordOf(t)), b \in NumberMid(WordOf(t)),
                             c \in NumberLow(t, WordOf(t)), d \in NumberNext(t, WordOf(t))} :
              t \in {"u32", "u64"}}

ObjectPrograms ==
    UNION {UNION {{<<a, b, c, d>> : a \in ObjectTop(t), b \in ObjectMid(ReturnArity(c)), d \in ObjectNext(t)} :
                     c \in ObjectLow(t)} : t \in {"address", "bytes32", "bytes", "vecOf"}}

Few == {Vesting, Late, MergedCall, Oscillate}

MCPrograms == Few \cup NumberPrograms \cup ObjectPrograms
=============================================================================
