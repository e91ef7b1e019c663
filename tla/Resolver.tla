------------------------------ MODULE Resolver ------------------------------
(***************************************************************************)
(* The inter-procedural constant resolver (sordec-passes,                  *)
(* dataflow/const_prop.rs): a memoised walk over the values of a module,   *)
(* asked again and again by the recognizers.                               *)
(*                                                                         *)
(* A module is [functions, image]: a function has a value arena `def`, its *)
(* parameters, the value lists it returns and whether it is exported; the  *)
(* image is the list of data segments.  A literal is [kind, n] with n the  *)
(* bit pattern of an i32 (below Word) or i64 (below Word^2); bytes and     *)
(* texts are the numbers their bytes spell.  A result that may be absent   *)
(* is a set of at most one.                                                *)
(***************************************************************************)
EXTENDS HighExpr, FiniteSets

CONSTANTS
    Modules,         \* the modules looked at
    Word,            \* stands for 2^32
    U32Tag,          \* TAG_U32_VAL
    SymbolTag,       \* TAG_SYMBOL_SMALL
    Tags,            \* stands for 2^8, the size of a tag byte
    ResolveDepth,    \* DEFAULT_RESOLVE_DEPTH
    MaxQueries       \* how many queries one resolver is asked

ASSUME ResolverAssumption ==
    /\ {Word, ResolveDepth, MaxQueries} \subseteq Nat \ {0}
    /\ Tags \in 1 .. Word
    /\ {U32Tag, SymbolTag} \subseteq 0 .. Tags - 1

VARIABLES
    ir,        \* self.ir
    memo,      \* self.memo
    query,     \* the last query, <<function, values, flavor>>
    asked,     \* how many queries were answered
    answer     \* what the last one returned

vars == <<ir, memo, query, asked, answer>>

-----------------------------------------------------------------------------
(* Literals *)

Literal(kind, n) == [kind |-> kind, n |-> n]

IntKinds == {"i32", "i64", "u32"}

LiteralKinds == IntKinds \cup {"symbol"}

\* The i128 a literal stands for.
Signed(c) ==
    CASE c.kind = "i32" /\ c.n >= Word \div 2 -> c.n - Word
      [] c.kind = "i64" /\ c.n >= (Word * Word) \div 2 -> c.n - Word * Word
      [] OTHER -> c.n

\* decode_u32val: the payload is the upper word.
DecodeU32Val(bits) == IF bits % Tags = U32Tag THEN {bits \div Word} ELSE {}

\* decode_small_symbol, with one character in place of nine.
DecodeSmallSymbol(bits) ==
    LET body == bits \div Tags
    IN  IF bits % Tags = SymbolTag /\ body \in 1 .. Word - 1 THEN {body} ELSE {}

\* u32::try_from
TryU32(c) == IF Signed(c) \in 0 .. Word - 1 THEN {Literal("u32", Signed(c))} ELSE {}

DecodeTerminalLiteral(c, flavor) ==
    CASE flavor = "raw" /\ c.kind \in IntKinds -> {c}
      [] flavor = "u32val" /\ c.kind = "i64" ->
             {Literal("u32", n) : n \in DecodeU32Val(c.n)}
      [] flavor = "u32val" /\ c.kind \in {"i32", "u32"} -> TryU32(c)
      [] flavor = "symbol" /\ c.kind = "i64" ->
             {Literal("symbol", text) : text \in DecodeSmallSymbol(c.n)}
      [] flavor = "symbol" /\ c.kind = "symbol" -> {c}
      [] OTHER -> {}

Moves == {"wrap32", "extend_u32", "extend_s32"}

WidthMove(op, c) ==
    LET low == c.n % Word
    IN  CASE op = "wrap32" -> Literal("i32", low)
          [] op = "extend_u32" -> Literal("i64", low)
          [] op = "extend_s32" ->
                 Literal("i64", IF low < Word \div 2 THEN low
                                ELSE Word * Word - Word + low)

ConversionAgnostic(c) == Signed(c) \in 0 .. (Word \div 2) - 1

Spell(bytes) == FoldLeft(LAMBDA n, b : n * Tags + b, 0, bytes)

\* MemoryImage::read: the last segment that covers the whole range.
ReadImage(image, pos, len) ==
    LET covers == {i \in DOMAIN image :
                      /\ image[i].offset <= pos
                      /\ pos + len <= image[i].offset + Len(image[i].bytes)}
    IN  IF covers = {} THEN {}
        ELSE LET s == image[Max(covers)]
             IN  {Spell(SubSeq(s.bytes, pos - s.offset + 1, pos - s.offset + len))}
-----------------------------------------------------------------------------
(* The call index *)

HasIndirectCalls(m) ==
    \E f \in DOMAIN m.functions : \E v \in ValuesOf(m.functions[f]) :
        m.functions[f].def[v].op = "call_indirect"

\* callers_of: the calls of function f, in the order of the scan.
CallersOf(m, f) ==
    FlattenSeq([g \in DOMAIN m.functions |->
        LET calls(v) == /\ m.functions[g].def[v].op = "call"
                        /\ m.functions[g].def[v].n = f
        IN  Map(SelectSeq([v \in ValuesOf(m.functions[g]) |-> v], calls),
                LAMBDA v : <<g, v>>)])

-----------------------------------------------------------------------------
(* What one binding is resolved from: the values walk_terminal asks for,   *)
(* in order, and what it makes of their results.                           *)

Flavors == {"raw", "u32val", "symbol"}

\* Faulty: the parameters of exported functions are resolved too.
ParamSites_EvenExported(m, f, v) ==
    LET index == CHOOSE i \in DOMAIN m.functions[f].params :
                     m.functions[f].params[i] = v
    IN  IF HasIndirectCalls(m) THEN <<>>
        ELSE Map(CallersOf(m, f),
                 LAMBDA s : <<s[1], m.functions[s[1]].def[s[2]].args[index]>>)

\* The argument every caller passes for parameter v of function f.
ParamSites(m, f, v) ==
    LET fn == m.functions[f]
        index == CHOOSE i \in DOMAIN fn.params : fn.params[i] = v
        callers == CallersOf(m, f)
        args(site) == m.functions[site[1]].def[site[2]].args
    IN  IF \/ fn.exported
           \/ HasIndirectCalls(m)
           \/ \E s \in ToSet(callers) : index \notin DOMAIN args(s)
        THEN <<>>
        ELSE Map(callers, LAMBDA s : <<s[1], args(s)[index]>>)

\* The one value of every return site of function g, if each has just one.
ReturnSites(m, g) ==
    IF \/ g \notin DOMAIN m.functions
       \/ \E values \in ToSet(m.functions[g].returns) : Len(values) # 1
    THEN <<>>
    ELSE Map(m.functions[g].returns, LAMBDA values : <<g, values[1]>>)

IsParam(m, f, v) == v \in ToSet(m.functions[f].params)

\* Values whose result is the meet of what they are resolved from.
Meets(m, f, v) == IsParam(m, f, v) \/ m.functions[f].def[v].op \in {"phi", "call"}

Asks(m, f, v, flavor) ==
    LET e == m.functions[f].def[v]
        as(fl, sites) == Map(sites, LAMBDA s : <<s[1], s[2], fl>>)
        operands == Map(e.args, LAMBDA a : <<f, a>>)
    IN  CASE IsParam(m, f, v) ->
                 IF e.op = "phi" /\ e.args = <<>>
                 THEN as(flavor, ParamSites(m, f, v)) ELSE <<>>
          [] e.op \in Moves /\ flavor = "raw" -> as("raw", operands)
          [] e.op = "conversion" /\ flavor = "raw" /\ Len(e.args) = 1 ->
                 as("raw", operands)
          [] e.op = "symbol_new" /\ flavor = "symbol" -> as("u32val", operands)
          [] e.op = "val_encode_u32" /\ flavor = "u32val" -> as("raw", operands)
          [] e.op = "phi" -> as(flavor, operands)
          [] e.op = "call" -> as(flavor, ReturnSites(m, e.n))
          [] OTHER -> <<>>

\* meet: the literal all results agree on.
Agreed(lits) ==
    IF lits # <<>> /\ \A i \in DOMAIN lits : lits[i] = lits[1] THEN lits[1] ELSE {}

Makes(m, f, v, flavor, lits) ==
    LET e == m.functions[f].def[v]
    IN  CASE Meets(m, f, v) -> Agreed(lits)
          [] e.op \in LiteralKinds ->
                 DecodeTerminalLiteral(Literal(e.op, e.n), flavor)
          [] Len(lits) # Len(e.args) \/ {} \in ToSet(lits) \/ lits = <<>> -> {}
          [] e.op \in Moves -> {WidthMove(e.op, c) : c \in lits[1]}
          [] e.op = "conversion" -> {c \in lits[1] : ConversionAgnostic(c)}
          [] e.op = "val_encode_u32" -> UNION {TryU32(c) : c \in lits[1]}
          [] e.op = "symbol_new" ->
                 {Literal("symbol", text) : text \in
                     UNION {ReadImage(m.image, p.n, l.n) :
                               p \in lits[1], l \in lits[2]}}
          [] OTHER -> {}

-----------------------------------------------------------------------------
(* The walk.  w = [memo, path, depth] is what it threads through, and lit  *)
(* and taint are what the last call of it returned.                        *)

Fresh(mm) == [memo |-> mm, path |-> {}, depth |-> 0, lit |-> {}, taint |-> FALSE]

Result(w, lit, taint) == [w EXCEPT !.lit = lit, !.taint = taint]

Remember(mm, key, lit) ==
    [k \in DOMAIN mm \cup {key} |-> IF k = key THEN lit ELSE mm[k]]

RECURSIVE Walk(_, _, _), WalkAll(_, _, _, _, _)

\* Faulty: a tainted result is remembered as well.
Walk_CachesTainted(m, w, k) ==
    LET v == ResolveUse(m.functions[k[1]], k[2])
        key == <<k[1], v, k[3]>>
    IN  IF w.depth >= ResolveDepth THEN Result(w, {}, TRUE)
        ELSE IF key \in DOMAIN w.memo THEN Result(w, w.memo[key], FALSE)
        ELSE IF key \in w.path THEN Result(w, {}, TRUE)
        ELSE LET r == WalkAll(m, [w EXCEPT !.path = @ \cup {key}, !.depth = @ + 1],
                              key, <<>>, FALSE)
             IN  [r EXCEPT !.path = @ \ {key}, !.depth = @ - 1,
                           !.memo = Remember(@, key, r.lit)]

\* Faulty: a set of visited values, never left, in place of the current path.
Walk_VisitsOnce(m, w, k) ==
    LET v == ResolveUse(m.functions[k[1]], k[2])
        key == <<k[1], v, k[3]>>
    IN  IF w.depth >= ResolveDepth THEN Result(w, {}, TRUE)
        ELSE IF key \in DOMAIN w.memo THEN Result(w, w.memo[key], FALSE)
        ELSE IF key \in w.path THEN Result(w, {}, TRUE)
        ELSE LET r == WalkAll(m, [w EXCEPT !.path = @ \cup {key}, !.depth = @ + 1],
                              key, <<>>, FALSE)
             IN  [r EXCEPT !.depth = @ - 1]

\* walk: resolve the value k[2] of function k[1] in flavor k[3].
Walk(m, w, k) ==
    LET v == ResolveUse(m.functions[k[1]], k[2])
        key == <<k[1], v, k[3]>>
    IN  IF w.depth >= ResolveDepth THEN Result(w, {}, TRUE)
        ELSE IF key \in DOMAIN w.memo THEN Result(w, w.memo[key], FALSE)
        ELSE IF key \in w.path THEN Result(w, {}, TRUE)
        ELSE LET r == WalkAll(m, [w EXCEPT !.path = @ \cup {key}, !.depth = @ + 1],
                              key, <<>>, FALSE)
             IN  [r EXCEPT !.path = @ \ {key}, !.depth = @ - 1,
                           !.memo = IF r.taint THEN @ ELSE Remember(@, key, r.lit)]

\* walk_terminal from the results lits of the first values it asks for; a
\* meet stops at the first result that is missing or differs.
WalkAll(m, w, key, lits, taint) ==
    LET f == key[1]
        v == key[2]
        asks == Asks(m, f, v, key[3])
        lost == Meets(m, f, v) /\ lits # <<>> /\ Agreed(lits) = {}
    IN  IF lost \/ Len(lits) = Len(asks)
        THEN Result(w, Makes(m, f, v, key[3], lits), taint)
        ELSE LET r == Walk(m, w, asks[Len(lits) + 1])
             IN  WalkAll(m, r, key, Append(lits, r.lit), taint \/ r.taint)

-----------------------------------------------------------------------------
(* The resolver *)

AllValues(m) ==
    UNION {{<<f, v>> : v \in ValuesOf(m.functions[f])} : f \in DOMAIN m.functions}

Init ==
    /\ ir \in Modules
    /\ memo = <<>>
    /\ query = <<>>
    /\ asked = 0
    /\ answer = {}

Answer(q, w) ==
    /\ query' = q
    /\ asked' = asked + 1
    /\ memo' = w.memo
    /\ answer' = w.lit
    /\ UNCHANGED ir

\* resolve_int, resolve_u32val and resolve_symbol_text.
Resolve(flavor) ==
    /\ asked < MaxQueries
    /\ \E s \in AllValues(ir) :
           Answer(<<s[1], <<s[2]>>, flavor>>, Walk(ir, Fresh(memo), <<s[1], s[2], flavor>>))

ResolveInt == Resolve("raw")
ResolveU32Val == Resolve("u32val")
ResolveSymbolText == Resolve("symbol")

\* resolve_bytes, asked about the operands of a host operation; the length is
\* looked at only if the position resolves.
ResolveBytes ==
    /\ asked < MaxQueries
    /\ \E s \in AllValues(ir) :
           LET f == s[1]
               e == ir.functions[f].def[s[2]]
               p == Walk(ir, Fresh(memo), <<f, e.args[1], "u32val">>)
               l == Walk(ir, Fresh(p.memo), <<f, e.args[2], "u32val">>)
           IN  /\ e.op \in {"symbol_new", "bytes_new"}
               /\ Answer(<<f, e.args, "bytes">>,
                          IF p.lit = {} THEN p
                          ELSE Result(l, {Literal("bytes", b) : b \in
                                   UNION {ReadImage(ir.image, x.n, y.n) :
                                             x \in p.lit, y \in l.lit}}, FALSE))

Done == asked = MaxQueries /\ UNCHANGED vars

Next == ResolveInt \/ ResolveU32Val \/ ResolveSymbolText \/ ResolveBytes \/ Done

Spec == Init /\ [][Next]_vars
-----------------------------------------------------------------------------
(* What the module can compute: Flows[m][f][v] holds every literal the     *)
(* value v of function f can have in some run, or Anything.  A caller from *)
(* outside and a caller through a table pass anything.                     *)

Anything == Literal("any", 0)

\* The symbol made of the text that x and y, two U32Vals, locate.
TextAt(m, x, y) ==
    LET texts == UNION {ReadImage(m.image, p.n, l.n) :
                           p \in DecodeTerminalLiteral(x, "u32val"),
                           l \in DecodeTerminalLiteral(y, "u32val")}
    IN  IF texts = {} THEN {Anything} ELSE {Literal("symbol", t) : t \in texts}

FlowsIn(m, F, f, v) ==
    LET e == m.functions[f].def[v]
        fn == m.functions[f]
        from(sites) == UNION {F[s[1]][s[2]] : s \in sites}
        operands == from({<<f, a>> : a \in ToSet(e.args)})
        passed(i) == from({<<s[1], m.functions[s[1]].def[s[2]].args[i]>> :
                              s \in ToSet(CallersOf(m, f))})
        each(Op(_)) == UNION {IF x.kind \in IntKinds THEN Op(x) ELSE {Anything} :
                                 x \in operands}
    IN  CASE IsParam(m, f, v) ->
                 UNION {passed(i) : i \in {i \in DOMAIN fn.params : fn.params[i] = v}}
                 \cup operands
                 \cup (IF fn.exported \/ HasIndirectCalls(m) THEN {Anything} ELSE {})
          [] e.op \in LiteralKinds -> {Literal(e.op, e.n)}
          [] e.op \in {"use", "phi"} -> operands
          [] e.op = "call" /\ e.n \in DOMAIN m.functions ->
                 UNION {IF Len(values) = 1 THEN F[e.n][values[1]] ELSE {Anything} :
                           values \in ToSet(m.functions[e.n].returns)}
          [] e.op \in Moves -> each(LAMBDA x : {WidthMove(e.op, x)})
          [] e.op = "conversion" -> each(LAMBDA x : {WidthMove(op, x) : op \in Moves})
          [] e.op = "val_encode_u32" ->
                 each(LAMBDA x : {Literal("i64", (x.n % Word) * Word + U32Tag)})
          [] e.op = "symbol_new" ->
                 UNION {TextAt(m, x, y) : x \in F[f][e.args[1]], y \in F[f][e.args[2]]}
          [] OTHER -> {Anything}

RECURSIVE LeastFlows(_, _)
LeastFlows(m, F) ==
    LET G == [f \in DOMAIN F |-> [v \in DOMAIN F[f] |-> FlowsIn(m, F, f, v)]]
    IN  IF G = F THEN F ELSE LeastFlows(m, G)

Flows == [m \in Modules |->
    LeastFlows(m, [f \in DOMAIN m.functions |->
                     [v \in ValuesOf(m.functions[f]) |-> {}]])]

-----------------------------------------------------------------------------
(* What the rules of Asks and Makes give without an order of work: the     *)
(* least fixpoint over all values that are not uses.                       *)

KeyOf(m, k) == <<k[1], ResolveUse(m.functions[k[1]], k[2]), k[3]>>

AllKeys(m) == {KeyOf(m, <<s[1], s[2], fl>>) : s \in AllValues(m), fl \in Flavors}

AskedBy(m, key) ==
    Map(Asks(m, key[1], key[2], key[3]), LAMBDA k : KeyOf(m, k))

RECURSIVE LeastMeet(_, _)
LeastMeet(m, K) ==
    LET L == [key \in DOMAIN K |->
                 Makes(m, key[1], key[2], key[3],
                       Map(AskedBy(m, key), LAMBDA k : K[k]))]
    IN  IF L = K THEN K ELSE LeastMeet(m, L)

Met == [m \in Modules |-> LeastMeet(m, [key \in AllKeys(m) |-> {}])]

\* More values below the key than the depth cap lets a walk hold.
Deep(m, key) ==
    LET below == Iterate(LAMBDA S : S \cup UNION {ToSet(AskedBy(m, k)) : k \in S},
                         {key}, ResolveDepth)
    IN  Cardinality(below) > ResolveDepth

-----------------------------------------------------------------------------
(* Properties *)

\* The memo is keyed by values that are no uses (const_prop.rs:347-354) and
\* holds results of the key's own flavor.
TypeOK ==
    /\ ir \in DOMAIN Met
    /\ DOMAIN memo \subseteq DOMAIN Met[ir]
    /\ \A key \in DOMAIN memo : \A c \in memo[key] :
           c.kind \in (CASE key[3] = "raw" -> IntKinds
                         [] key[3] = "u32val" -> {"u32"}
                         [] key[3] = "symbol" -> {"symbol"})
    /\ asked \in 0 .. MaxQueries
    /\ Cardinality(answer) <= 1

\* What a literal means to a query.
Means(x, flavor) == {Signed(c) : c \in DecodeTerminalLiteral(x, flavor)}

\* A constant the resolver answers is the only one the value can have in any
\* run of the module, whoever calls its functions (the "Soundness rules" of
\* const_prop.rs:18-40).
Sound ==
    \A c \in answer :
        LET q == query
            values(v) == Flows[ir][q[1]][v]
        IN  IF q[3] = "bytes"
            THEN \A x \in values(q[2][1]), y \in values(q[2][2]) :
                     TextAt(ir, x, y) = {Literal("symbol", c.n)}
            ELSE \A x \in values(q[2][1]) : Means(x, q[3]) = {Signed(c)}

\* The walk finds exactly what meeting over all paths gives, in whatever order
\* it goes, past values two paths share and around cycles; only a walk that
\* may exceed the depth cap finds less.
MeetOverPaths ==
    query # <<>> =>
        LET q == query
            key == KeyOf(ir, <<q[1], q[2][1], q[3]>>)
        IN  q[3] # "bytes" =>
                \/ answer = Met[ir][key]
                \/ answer = {} /\ Deep(ir, key)

\* The memo holds final results only: no result that held on one path, inside
\* a cycle or below the depth cap, outlives its query (const_prop.rs:363-366).
MemoIsFinal == LET met == Met[ir] IN \A key \in DOMAIN memo : memo[key] = met[key]
=============================================================================
