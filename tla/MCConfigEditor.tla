--------------------------- MODULE MCConfigEditor ---------------------------
(***************************************************************************)
(* Documents and values for the editor.                                    *)
(***************************************************************************)
EXTENDS ConfigEditor

CONSTANTS a, b, c, x, y

(* # 1       A mapping in a mapping, with comments on lines of their own   *)
(* a: x # 2  and behind values, and a value that is missing.               *)
(* b:                                                                      *)
(*   a: x # 3                                                              *)
(*   # 4                                                                   *)
(*   b:                                                                    *)
Mappings ==
  << Line(0, 0, None, None, 1), Line(0, 0, a, x, 2), Line(0, 0, b, None, 0),
     Line(2, 0, a, x, 3), Line(2, 0, None, None, 4), Line(2, 0, b, None, 0) >>

(* - a: x # 1     Compact mappings in a sequence. *)
(*   b: y                                         *)
(* # 2                                            *)
(* - a: x                                         *)
(*   c:                                           *)
(*     - x # 3                                    *)
CompactMappings ==
  << Line(0, 1, a, x, 1), Line(2, 0, b, y, 0), Line(0, 0, None, None, 2),
     Line(0, 1, a, x, 0), Line(2, 0, c, None, 0), Line(4, 1, None, x, 3) >>

(* a: # 1        A sequence with the indentation of its key, and a scalar *)
(* - x           of two lines.                                            *)
(* - y                                                                    *)
(*   x # 2                                                                *)
(* b: y                                                                   *)
Indentlesses ==
  << Line(0, 0, a, None, 1), Line(0, 1, None, x, 0), Line(0, 1, None, y, 0),
     Line(2, 0, None, x, 2), Line(0, 0, b, y, 0) >>

(* - - x         A sequence behind a dash, and a missing item. *)
(*   - y                                                       *)
(* -                                                           *)
CompactSequences ==
  << Line(0, 2, None, x, 0), Line(2, 1, None, y, 0), Line(0, 1, None, None, 0) >>

(* a:            A mapping of one entry. *)
(*   b: x                                 *)
SingleEntries == << Line(0, 0, a, None, 0), Line(2, 0, b, x, 0) >>

(* b: x          A key that is there twice, and one that is not. *)
(* c:                                                           *)
(*   a: x # 1                                                   *)
(* b:                                                           *)
(*   a: y                                                       *)
RepeatedKeys ==
  << Line(0, 0, b, x, 0), Line(0, 0, c, None, 0), Line(2, 0, a, x, 1),
     Line(0, 0, b, None, 0), Line(2, 0, a, y, 0) >>

ScalarValue   == << Line(0, 0, None, x, 0) >>
MappingValue  == << Line(0, 0, c, x, 0) >>
SequenceValue == << Line(0, 1, None, x, 0), Line(0, 1, None, y, 0) >>

AllSources    ==
  {Mappings, CompactMappings, Indentlesses, CompactSequences, SingleEntries, RepeatedKeys}
OneIndentless == {Indentlesses}
OneSingle     == {SingleEntries}
AllFragments  == {ScalarValue, MappingValue, SequenceValue}
=============================================================================
