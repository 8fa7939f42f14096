------------------------------- MODULE MCEmitter -------------------------------
(***************************************************************************)
(* Every kind of leaf in every kind of place, and small trees of every     *)
(* shape, under every combination of options that changes what is written. *)
(***************************************************************************)
EXTENDS EmitRoundTrip, TLC

WordOrder == <<"", "#a", "*a", "- a", "---a", "-.inf", "...", ".inf", "7", "<<", "? a", "[a", "a",
               "a #a", "a'a", "a, a", "a:", "a: a", "b", "bell", "null", "tab", "true", "yes", "~">>

(* The order of emitted keys by their first token that has a word.         *)
WordRank(toks) ==
  LET i == SelectInSeq(toks, LAMBDA t : t.tok = "scalar")
      word == toks[i].text[1].word
  IN  IF i = 0 THEN 0
      ELSE (IF toks[i].style = "plain" THEN 100 ELSE 0) + SelectInSeq(WordOrder, LAMBDA w : w = word)

A == Str(Text("a"))
B == Str(Text("b"))
One == Node("int", Text("7"), <<>>)

Line(word) == TextLine(0, word)
Ind(word)  == TextLine(1, word)

Singles == {Text(WordOrder[i]) : i \in DOMAIN WordOrder} \union {<<Ind("a")>>}
Multiples ==
  { <<Line("a"), Line("b")>>,
    <<Line("a"), EmptyLine>>,
    <<Line("a"), Line("b"), EmptyLine>>,
    <<Line("a"), EmptyLine, EmptyLine>>,
    <<Line("a"), EmptyLine, EmptyLine, EmptyLine>>,
    <<EmptyLine, EmptyLine>>,
    <<EmptyLine, EmptyLine, EmptyLine>>,
    <<EmptyLine, Line("a")>>,
    <<EmptyLine, Ind("a"), EmptyLine>>,
    <<Line("a"), Ind("a"), EmptyLine>>,
    <<Line("a"), Ind("a"), Line("b")>>,
    <<Line("a"), Ind("a"), EmptyLine, EmptyLine>>,
    <<Ind("a"), Line("b"), EmptyLine>>,
    <<Ind("a"), Ind("b"), EmptyLine>>,
    <<Line("a"), EmptyLine, Line("b"), EmptyLine>>,
    <<Line("a"), EmptyLine, Ind("b")>>,
    <<Line("a"), Line("tab")>>,
    <<Line("tab"), Line("a")>>,
    <<Line("a"), Line("#a"), EmptyLine>>,
    <<Line("a"), Line("- a"), EmptyLine>>,
    <<Line("..."), Line("a: a"), EmptyLine>>,
    <<Line("a"), Line("bell"), EmptyLine>> }

Leaves ==
  {Str(t) : t \in Singles \union Multiples}
    \union {Null, One, Node("bool", Text("true"), <<>>), Node("float", Text("-.inf"), <<>>),
            List(<<>>), Table(<<>>)}

(* Places for a node.                                                      *)
Around(n) ==
  { n,
    List(<<n>>), List(<<n, A>>), List(<<A, n>>),
    Table(<<Entry(B, n)>>), Table(<<Entry(B, n), Entry(A, One)>>), Table(<<Entry(B, One), Entry(A, n)>>),
    Table(<<Entry(n, One)>>), Table(<<Entry(One, B), Entry(n, n)>>),
    Tag("t", n) }

Twice(n) == UNION {Around(m) : m \in Around(n)}

Small == {A, Null, Str(<<Line("a"), EmptyLine>>), Str(<<Ind("a"), Line("b")>>), List(<<>>), Table(<<>>)}

Chain(n, depth) ==
  LET f[d \in 0..depth] == IF d = 0 THEN n ELSE Table(<<Entry(A, f[d - 1])>>) IN f[depth]

Stack(n, depth) ==
  LET f[d \in 0..depth] == IF d = 0 THEN n ELSE List(<<f[d - 1]>>) IN f[depth]

(* Lists down to the limit of nesting and below it, and mappings below it. *)
(* A block string is left out where the parser counts its tag twice, and   *)
(* so are mappings at the limit (MCEmitterDepth).                          *)
AtTheLimit ==
  {Stack(n, d) : n \in Small \union {Tag("t", A), Tag("t", List(<<A>>)), List(<<A, B>>)},
                 d \in (DepthLimit - 4)..(DepthLimit + 1)}
    \union {Chain(n, d) : n \in Small, d \in DepthLimit..(DepthLimit + 1)}

(* Merge keys, with payloads that can and cannot be merged.                *)
Merge(payload) == Entry(Str(Text("<<")), payload)
SevenAtA == Table(<<Entry(A, One)>>)
Merges ==
  { Table(<<Merge(p)>>) : p \in
      {SevenAtA, List(<<SevenAtA>>), List(<<SevenAtA, Table(<<Entry(A, B)>>)>>), List(<<>>), List(<<One>>),
       List(<<SevenAtA, One>>), Tag("t", SevenAtA), Table(<<Merge(One), Entry(A, One)>>)} }
    \union { Table(<<Merge(One), Merge(Null)>>), Table(<<Merge(SevenAtA), Merge(One)>>),
              Table(<<Merge(SevenAtA), Merge(Table(<<Entry(A, B)>>))>>),
              Table(<<Merge(SevenAtA), Entry(A, B)>>), Table(<<Entry(A, B), Merge(Tag("t", A))>>),
              Table(<<Entry(B, Table(<<Merge(One)>>)), Merge(Table(<<Entry(B, A)>>))>>) }

(* A key twice, but for a tag.                                             *)
Alike == {Table(<<Entry(A, One), Entry(Tag("t", A), One)>>),
          Table(<<Entry(List(<<Tag("t", A)>>), One), Entry(List(<<A>>), One)>>),
          Table(<<Entry(Table(<<Entry(A, One), Entry(B, One)>>), One),
                  Entry(Table(<<Entry(B, One), Entry(A, One)>>), One)>>)}

ChosenTrees ==
  UNION {Twice(n) : n \in Leaves} \union UNION {UNION {Around(m) : m \in Twice(n)} : n \in Small}
    \union UNION {Twice(n) : n \in Merges \union Alike} \union AtTheLimit

Option(compat, flow, sort, folded, quote, safe) ==
  [compat |-> compat, flow |-> flow, sort |-> sort, folded |-> folded, quote |-> quote, safe |-> safe]

(* Quote style and safe strings do not matter to byte-compatible mode, nor *)
(* safe strings to quoted ones, nor the style of blocks to flow.           *)
ChosenOptions ==
  {Option(FALSE, FALSE, FALSE, TRUE, "plain", FALSE), Option(FALSE, FALSE, TRUE, FALSE, "single", FALSE),
   Option(FALSE, TRUE, FALSE, FALSE, "plain", TRUE), Option(FALSE, TRUE, TRUE, FALSE, "double", FALSE),
   Option(FALSE, FALSE, FALSE, FALSE, "plain", TRUE),
   Option(TRUE, FALSE, FALSE, FALSE, "plain", FALSE), Option(TRUE, FALSE, TRUE, TRUE, "plain", FALSE),
   Option(TRUE, TRUE, FALSE, FALSE, "plain", FALSE)}

DeepTrees == {Chain(n, d) : n \in {A, List(<<>>), List(<<A>>)}, d \in 0..8}

SortTrees == UNION {Around(m) : m \in {Table(<<Entry(B, One), Entry(A, One)>>)}}
SortOption == {Option(FALSE, FALSE, TRUE, FALSE, "plain", FALSE)}

OneOption == {Option(FALSE, FALSE, FALSE, FALSE, "plain", FALSE)}
=============================================================================
