-------------------------------- MODULE Tokens --------------------------------
(***************************************************************************)
(* Nodes, strings and tokens, as far as the emitter and the node grammar   *)
(* tell them apart.                                                        *)
(*                                                                         *)
(* A string is the sequence of its lines; a line is the number of spaces   *)
(* it starts with and a word.  The words are examples, one or two for each *)
(* thing a word may look like.  A node is its kind, its text (a string, a  *)
(* tag's name) and its children: items, entries, or what is tagged.        *)
(*                                                                         *)
(* A token is a mark, a scalar in its style, a tag, the header of a block  *)
(* scalar, the end of a line or the spaces at its start; spaces between    *)
(* tokens are left out.                                                    *)
(***************************************************************************)
EXTENDS Integers, Sequences, SequencesExt

TextLine(lead, word) == [lead |-> lead, word |-> word]
EmptyLine  == TextLine(0, "")
Text(word) == <<TextLine(0, word)>>

Node(kind, text, kids) == [kind |-> kind, text |-> text, kids |-> kids]
Null        == Node("null", Text("null"), <<>>)
Str(text)   == Node("str", text, <<>>)
List(items) == Node("seq", <<>>, items)
Table(entries) == Node("map", <<>>, entries)
Entry(k, v)   == Node("entry", <<>>, <<k, v>>)
Tag(name, n)  == Node("tag", Text(name), <<n>>)
Key(entry) == entry.kids[1]
Val(entry) == entry.kids[2]

NonEmpty(n, kind) == n.kind = kind /\ n.kids # <<>>

IsMergeKey(n) == n.kind = "str" /\ n.text = Text("<<")

(* DuplicateKey: what makes two keys the same.  Tags do not count, nor     *)
(* does the order of entries.                                              *)
RECURSIVE Identity(_)
Identity(n) ==
  CASE n.kind = "tag" -> Identity(n.kids[1])
    [] n.kind = "map" ->
         <<"map", <<>>, ToBag([i \in DOMAIN n.kids |-> <<Identity(Key(n.kids[i])), Identity(Val(n.kids[i]))>>])>>
    [] OTHER -> <<n.kind, n.text, [i \in DOMAIN n.kids |-> Identity(n.kids[i])]>>

-----------------------------------------------------------------------------
(* What words look like.                                                   *)

NullWords  == {"null", "~"}
BoolWords  == {"true"}
IntWords   == {"7"}
FloatWords == {".inf", "-.inf"}
Yaml11Bools == {"yes"}
Resolvable == NullWords \union BoolWords \union IntWords \union FloatWords

EndsInColon  == {"a:"}
ColonInside  == {"a: a"}
CommaInside  == {"a, a"}
HashInside   == {"a #a"}
QuoteInside  == {"a'a"}
OpensFlow    == {"[a"}
Comments     == {"#a"}
Aliases      == {"*a"}
Dashes       == {"- a"}
LongDashes   == {"---a"}
Questions    == {"? a"}
Markers      == {"..."}
Controls     == {"bell"}      \* a control character
Indented     == {"tab"}       \* a tab and a letter

(* The scalar a plain word is resolved to (parse_scalar_with_schema).      *)
Resolved(word, yaml11) ==
  CASE word \in NullWords -> Null
    [] word \in BoolWords -> Node("bool", Text(word), <<>>)
    [] word \in IntWords  -> Node("int", Text(word), <<>>)
    [] word \in FloatWords -> Node("float", Text(word), <<>>)
    [] word \in Yaml11Bools /\ yaml11 -> Node("bool", Text("true"), <<>>)
    [] OTHER -> Str(Text(word))

-----------------------------------------------------------------------------
(* Tokens.                                                                 *)

Token(tok, text, style, n) == [tok |-> tok, text |-> text, style |-> style, n |-> n]

Mark(tok)  == Token(tok, <<>>, "", 0)
Newline    == Mark("newline")
Pad(n)     == Token("pad", <<>>, "", n)
Dash       == Mark("-")
Ask        == Mark("?")
Answer     == Mark("answer")   \* the colon that begins an explicit value
Colon      == Mark(":")
Comma      == Mark(",")
Scalar(text, style) == Token("scalar", text, style, 0)
Plain(word) == Scalar(Text(word), "plain")
TagToken(name) == Token("tag", name, "", 0)
(* n is the indentation indicator, zero without one *)
Header(style, chomping, n) == Token("header", <<>>, <<style, chomping>>, n)

(* Lines of text: their indentation and the tokens behind it.              *)
Padding(toks) ==
  LET rest == SelectInSeq(toks, LAMBDA t : t.tok # "pad")
      last == IF rest = 0 THEN Len(toks) ELSE rest - 1
  IN  [ind |-> FoldLeft(LAMBDA sum, t : sum + t.n, 0, SubSeq(toks, 1, last)),
       toks |-> SubSeq(toks, last + 1, Len(toks))]

LinesOf(toks) ==
  LET ends == SelectSeq([i \in 1..(Len(toks) + 1) |-> i],
                        LAMBDA i : i > Len(toks) \/ toks[i].tok = "newline")
  IN  [i \in DOMAIN ends |->
         Padding(SubSeq(toks, IF i = 1 THEN 1 ELSE ends[i - 1] + 1, ends[i] - 1))]
=============================================================================
