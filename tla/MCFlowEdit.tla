----------------------------- MODULE MCFlowEdit -----------------------------
EXTENDS FlowEdit

(* Items plain, tagged, anchored and aliased, pairs, nested collections,   *)
(* trailing commas, missing values, and mappings with a key twice.         *)
MCSources == {
  <<"[", "]">>,
  <<"{", "}">>,
  <<"[", "a", ",", "b", ",", "a", "]">>,
  <<"[", "a", ",", "]">>,
  <<"[", "!t", ",", "a", "]">>,
  <<"[", "a", ",", "!t", "b", ",", "!u", "a", "]">>,
  <<"[", "!t", "a", "]">>,
  <<"[", "&x", "a", ",", "b", ",", "*x", "]">>,
  <<"[", "&x", "[", "a", "]", ",", "{", "b", ":", "*x", "}", "]">>,
  <<"[", "a", ":", "b", ",", "b", "]">>,
  <<"[", "?", "a", ":", "b", ",", "!t", "a", ":", "b", "]">>,
  <<"{", "a", "}">>,
  <<"{", "a", ":", ",", "b", "colon", "}">>,
  <<"{", "?", "a", ":", "b", "}">>,
  <<"{", "a", ":", "b", ",", "?", "b", "}">>,
  <<"{", "a", ":", "!t", "b", ",", "!u", "b", ":", "&x", "!t", ",", "c", ":", "*x", "}">>,
  <<"{", "a", ":", "a", ",", "a", ":", "b", "}">>,
  <<"{", "[", "a", "]", "colon", "a", ",", "b", ":", "{", "a", ":", "[", "a", "]", "}", ",", "}">>}

MCFragments == {<<"n">>, <<"n", ":", "m">>, <<"[", "n", "]">>, <<"n", ",", "m">>, <<"!t", "n">>}
MCEntries == {<<"n", ":", "m">>, <<"n", ":">>, <<"{", "n", ":", "m", "}">>, <<"n", ":", "m", ",", "a">>}
MCNewWords == {<<"n">>}
=============================================================================
