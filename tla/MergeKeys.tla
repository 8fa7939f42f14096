------------------------------ MODULE MergeKeys ------------------------------
(***************************************************************************)
(* Merge keys: a document of mappings is built key by key, then its `<<`   *)
(* keys are expanded.  It is built and read in one of these ways:          *)
(*                                                                         *)
(*   "strict", "yaml11"  a parsed document, loaded under the merge policy  *)
(*                       of its schema (Node::apply_merge_keys_with_policy)*)
(*   "built"             a tree made by the caller, deserialized through   *)
(*                       the owned Node and through &Node or &Value        *)
(*   "events"            the lossless graph with its effective view        *)
(*                                                                         *)
(* A mapping is the sequence of its entries.  The payload of a `<<` key is *)
(* an alias of a mapping, a list, a scalar or a tagged node; the value of  *)
(* an ordinary key is opaque.  Aliases refer to earlier mappings, of which *)
(* the loaders see copies; in the lossless graph they may also refer to    *)
(* mappings that contain them.  An ordinary value that is a mapping is one *)
(* of the mappings of the document in its own right.                       *)
(*                                                                         *)
(* What the functions of the code make of a mapping is a sequence of       *)
(* entries, each a key and the place its value comes from, or an error.    *)
(* They recurse through the payloads: here over the mappings of the        *)
(* document, with a `table` of what is made of the mappings referred to.   *)
(***************************************************************************)
EXTENDS DuplicateKeys, SequencesExt

CONSTANTS
  MergeKey,        (* the key `<<`, plain or with the merge tag             *)
  MaxMergeDepth,   (* MAX_MERGE_DEPTH                                       *)
  MaxMappings,     (* bound on the mappings of a loaded document            *)
  MaxGraph,        (* bound on the mappings of a lossless graph             *)
  MaxEntries       (* bound on the entries of a document                    *)

ASSUME MergeKeysAssumption ==
  /\ MergeKey \in Keys
  /\ MaxMergeDepth \in Nat
  /\ MaxMappings \in Nat /\ MaxGraph \in Nat /\ MaxEntries \in Nat

VARIABLES
  mode,        (* how the document is built and read                        *)
  doc,         (* the mappings so far, each the sequence of its entries     *)
  has_merge,   (* Parser.current_document_has_merge_key                     *)
  at,          (* "building", "read", "failed" or "duplicate"               *)
  read         (* what reading made of each mapping                         *)

vars == <<tracker, mode, doc, has_merge, at, read>>

Modes == {"strict", "yaml11", "built", "events"}

-----------------------------------------------------------------------------
(* Entries and payloads; 0 is an item of a list that is a scalar.          *)

Scalar      == [kind |-> "scalar", refs |-> <<>>]
Tagged      == [kind |-> "tagged", refs |-> <<>>]
AliasOf(i)  == [kind |-> "map", refs |-> <<i>>]
ListOf(is)  == [kind |-> "seq", refs |-> is]

Payloads(ids) ==
  {Scalar, Tagged} \union {AliasOf(i) : i \in ids}
    \union {ListOf(<<i, j>>) : i \in ids, j \in ids} \union {ListOf(<<i, 0>>) : i \in ids}

Own(d, i, p)  == [key |-> d[i][p].key, place |-> <<i, p>>]
Entries(d, i) == [p \in DOMAIN d[i] |-> Own(d, i, p)]
Merges(d, i)  == {p \in DOMAIN d[i] : d[i][p].key = MergeKey}
FirstMerge(d, i) == Min(Merges(d, i))

Ok(es)    == [err |-> "none", entries |-> es]
Err(kind) == [err |-> kind, entries |-> <<>>]
Fails(r)  == r.err # "none"

-----------------------------------------------------------------------------
(* What is done to sequences of entries.                                   *)

HasKey(es, k)   == \E n \in DOMAIN es : es[n].key = k
Position(es, k) == Min({n \in DOMAIN es : es[n].key = k})

(* the entries but those at some places *)
Without(es, drop) ==
  LET upto[n \in 0 .. Len(es)] ==
        IF n = 0 THEN <<>> ELSE IF n \in drop THEN upto[n - 1] ELSE Append(upto[n - 1], es[n])
  IN  upto[Len(es)]

UpsertOne(es, e) ==
  IF HasKey(es, e.key) THEN [es EXCEPT ![Position(es, e.key)] = e] ELSE Append(es, e)

(* Mutant of InsertOne: a merged entry replaces an explicit one.           *)
ReplaceOne(es, e) == UpsertOne(es, e)

InsertOne(es, e) == IF HasKey(es, e.key) THEN es ELSE Append(es, e)

(* insert_missing_node_entries *)
InsertMissing(es, merged) ==
  LET upto[n \in 0 .. Len(merged)] == IF n = 0 THEN es ELSE InsertOne(upto[n - 1], merged[n])
  IN  upto[Len(merged)]

(* upsert_node_entries *)
Upsert(es, merged) ==
  LET upto[n \in 0 .. Len(merged)] == IF n = 0 THEN es ELSE UpsertOne(upto[n - 1], merged[n])
  IN  upto[Len(merged)]

(* The loops over payloads and their items: entries are added to those so  *)
(* far, and the first error ends the loop.                                 *)
Add(how, es, more) ==
  CASE how = "missing" -> InsertMissing(es, more)
    [] how = "upsert"  -> Upsert(es, more)
    [] how = "extend"  -> es \o more

AddResult(how, sofar, r) ==
  IF Fails(sofar) THEN sofar ELSE IF Fails(r) THEN r ELSE Ok(Add(how, sofar.entries, r.entries))

AddAll(how, es, results) ==
  LET upto[n \in 0 .. Len(results)] ==
        IF n = 0 THEN Ok(es) ELSE AddResult(how, upto[n - 1], results[n])
  IN  upto[Len(results)]

-----------------------------------------------------------------------------
(* apply_strict_merge_entries, merge_node_mapping                          *)

(* Mutant of TooDeep: the limit itself is refused.                         *)
TooDeepAtLimit(depth) == depth >= MaxMergeDepth

TooDeep(depth) == depth > MaxMergeDepth

MergeSource(table, ref, depth) == IF ref = 0 THEN Err("payload") ELSE table[<<ref, depth>>]
MergeSources(table, pay, depth) ==
  [n \in DOMAIN pay.refs |-> MergeSource(table, pay.refs[n], depth)]

MergeNodeMapping(table, es, pay, depth) ==
  IF TooDeep(depth) THEN Err("depth")
  ELSE IF pay.kind \notin {"map", "seq"} THEN Err("payload")
  ELSE AddAll("missing", es, MergeSources(table, pay, depth))

StrictEntries(table, d, i, depth) ==
  IF Merges(d, i) = {} THEN Ok(Entries(d, i))
  ELSE LET m == FirstMerge(d, i) IN
       MergeNodeMapping(table, Without(Entries(d, i), {m}), d[i][m].pay, depth + 1)

-----------------------------------------------------------------------------
(* apply_yaml11_merge_entries, yaml11_merge_entries: every `<<` key whose  *)
(* payload can be merged is, the later ones over the earlier ones; the     *)
(* others are kept as they are.                                            *)

Mergeable(pay) == pay.kind \in {"map", "seq"} /\ \A n \in DOMAIN pay.refs : pay.refs[n] # 0
MergesIn(e)    == e.key = MergeKey /\ Mergeable(e.pay)

Yaml11MergeEntries(table, pay, depth) ==
  IF TooDeep(depth) THEN Err("depth")
  ELSE IF pay.kind = "map" THEN table[<<pay.refs[1], depth>>]
  ELSE AddAll("missing", <<>>, [n \in DOMAIN pay.refs |-> table[<<pay.refs[n], depth>>]])

Yaml11Merged(table, e, depth) ==
  IF MergesIn(e) THEN Yaml11MergeEntries(table, e.pay, depth) ELSE Ok(<<>>)

Yaml11Entries(table, d, i, depth) ==
  LET merged   == AddAll("upsert", <<>>, [p \in DOMAIN d[i] |-> Yaml11Merged(table, d[i][p], depth + 1)])
      explicit == Without(Entries(d, i), {p \in DOMAIN d[i] : MergesIn(d[i][p])})
  IN  IF Fails(merged) THEN merged ELSE Ok(InsertMissing(explicit, merged.entries))

-----------------------------------------------------------------------------
(* node_ref_merge_entries and value_ref_merge_entries: the same expansion  *)
(* by reference; a payload is expanded apart and inserted afterwards.      *)

(* Mutant of BorrowedSource: the item's own merges are not expanded.       *)
BorrowedItem(table, d, ref, depth) == IF ref = 0 THEN Err("payload") ELSE Ok(Entries(d, ref))

BorrowedSource(table, d, ref, depth) == IF ref = 0 THEN Err("payload") ELSE table[<<ref, depth>>]

RefMergeEntries(table, d, pay, depth) ==
  IF TooDeep(depth) THEN Err("depth")
  ELSE CASE pay.kind = "map" -> BorrowedSource(table, d, pay.refs[1], depth)
         [] pay.kind = "seq" ->
              AddAll("missing", <<>>,
                     [n \in DOMAIN pay.refs |-> BorrowedSource(table, d, pay.refs[n], depth)])
         [] OTHER -> Err("payload")

BorrowedEntries(table, d, i, depth) ==
  IF Merges(d, i) = {} THEN Ok(Entries(d, i))
  ELSE LET m     == FirstMerge(d, i)
           merge == RefMergeEntries(table, d, d[i][m].pay, depth + 1)
       IN  IF Fails(merge) THEN merge
           ELSE Ok(InsertMissing(Without(Entries(d, i), {m}), merge.entries))

(* What each way makes of the mappings of a document, from every depth.    *)
ExpandedEntries(way, table, d, i, depth) ==
  CASE way = "strict"   -> StrictEntries(table, d, i, depth)
    [] way = "yaml11"   -> Yaml11Entries(table, d, i, depth)
    [] way = "borrowed" -> BorrowedEntries(table, d, i, depth)

Expanded(way, d) ==
  LET table[x \in (DOMAIN d) \X (0 .. MaxMergeDepth)] ==
        ExpandedEntries(way, table, d, x[1], x[2])
  IN  [i \in DOMAIN d |-> table[<<i, 0>>]]

-----------------------------------------------------------------------------
(* collect_effective_mapping_entries: own entries first, then the entries  *)
(* of every payload in order, on the graph itself; `open` holds what is on *)
(* the stack.                                                              *)

ViewedItem(table, ref, open) == IF ref = 0 THEN Err("scalar") ELSE table[<<open, ref>>]

(* collect_lossless_merge_value *)
ViewedMerge(table, e, open) ==
  IF e.key # MergeKey THEN Ok(<<>>)
  ELSE IF e.pay.kind = "scalar" THEN Err("scalar")
  ELSE AddAll("extend", <<>>, [n \in DOMAIN e.pay.refs |-> ViewedItem(table, e.pay.refs[n], open)])

ViewedEntries(table, d, i, open) ==
  IF i \in open THEN Err("recursive")
  ELSE LET merged == AddAll("extend", <<>>,
                       [p \in DOMAIN d[i] |-> ViewedMerge(table, d[i][p], open \union {i})])
       IN  IF Fails(merged) THEN merged
           ELSE Ok(Without(Entries(d, i), Merges(d, i)) \o merged.entries)

Effective(d) ==
  LET table[x \in (SUBSET DOMAIN d) \X (DOMAIN d)] == ViewedEntries(table, d, x[2], x[1])
  IN  [i \in DOMAIN d |-> table[<<{}, i>>]]

(* mark_effective_mapping_overrides                                        *)
(* Mutant of Overridden: a later entry overrides.                          *)
OverriddenLater(es, n) == \E m \in n + 1 .. Len(es) : es[m].key = es[n].key

Overridden(es, n) == \E m \in 1 .. n - 1 : es[m].key = es[n].key
Shown(es) == Without(es, {n \in DOMAIN es : Overridden(es, n)})

-----------------------------------------------------------------------------
(* Building a document.                                                    *)

Init ==
  /\ InitTracker
  /\ mode \in Modes
  /\ doc = <<>> /\ has_merge = FALSE /\ at = "building" /\ read = <<>>

(* Only the last mapping may be left empty.                                *)
StartMapping ==
  /\ at = "building"
  /\ Len(doc) < IF mode = "events" THEN MaxGraph ELSE MaxMappings
  /\ doc # <<>> => doc[Len(doc)] # <<>>
  /\ doc' = Append(doc, <<>>)
  /\ Fresh
  /\ UNCHANGED <<mode, has_merge, at, read>>

EntriesSoFar == FoldLeft(LAMBDA n, es : n + Len(es), 0, doc)

(* A loaded mapping refers to mappings before it.                          *)
Sites  == IF mode = "events" THEN DOMAIN doc ELSE DOMAIN doc \cap {Len(doc)}
Ids(i) == IF mode = "events" THEN DOMAIN doc ELSE 1 .. i - 1

Entry(k, pay) == [key |-> k, pay |-> pay]
PayloadsOf(i, k) == IF k = MergeKey THEN Payloads(Ids(i)) ELSE {Scalar}

(* record_merge_key: the flag is set before the key is checked.            *)
Recorded(k) == has_merge \/ k = MergeKey

(* check_duplicate_for_schema: keys the tracker is not told of             *)
Unchecked(k) == mode = "events" \/ (mode = "yaml11" /\ k = MergeKey)

Append1(i, e) == doc' = [doc EXCEPT ![i] = Append(@, e)]

AddChecked(i, k, pay) ==
  /\ mode \in {"strict", "yaml11"} /\ ~Unchecked(k)
  /\ Insert(k)
  /\ has_merge' = Recorded(k)
  /\ IF verdict' # 0
     THEN at' = "duplicate" /\ UNCHANGED doc
     ELSE Append1(i, Entry(k, pay)) /\ UNCHANGED at

AddUnchecked(i, k, pay) ==
  /\ Unchecked(k)
  /\ Append1(i, Entry(k, pay))
  /\ has_merge' = Recorded(k)
  /\ UNCHANGED <<tracker, at>>

(* Mapping::insert by the caller: no key twice, nothing to record          *)
AddBuilt(i, k, pay) ==
  /\ mode = "built" /\ \A p \in DOMAIN doc[i] : doc[i][p].key # k
  /\ Append1(i, Entry(k, pay))
  /\ UNCHANGED <<tracker, has_merge, at>>

AddEntry ==
  /\ at = "building" /\ EntriesSoFar < MaxEntries
  /\ \E i \in Sites, k \in Keys : \E pay \in PayloadsOf(i, k) :
       AddChecked(i, k, pay) \/ AddUnchecked(i, k, pay) \/ AddBuilt(i, k, pay)
  /\ UNCHANGED <<mode, read>>

-----------------------------------------------------------------------------
(* Reading it: what every way through the code makes of every mapping.     *)

(* last_document_has_merge_key: a document without merge keys is left as   *)
(* it is.                                                                  *)
Loaded(way, d, expands) ==
  LET table == Expanded(way, d)
  IN  [i \in DOMAIN d |-> IF expands THEN table[i] ELSE Ok(Entries(d, i))]

StrictReading(d, expands) ==
  LET loaded == Loaded("strict", d, expands)
      viewed == Effective(d)
  IN  [i \in DOMAIN d |-> [load |-> loaded[i], view |-> viewed[i]]]

Yaml11Reading(d, expands) ==
  LET loaded == Loaded("yaml11", d, expands) IN [i \in DOMAIN d |-> [load |-> loaded[i]]]

(* Node, and &Node or &Value; each mapping as the root                     *)
BuiltReading(d) ==
  LET owned    == Expanded("strict", d)
      borrowed == Expanded("borrowed", d)
  IN  [i \in DOMAIN d |-> [node |-> owned[i], borrowed |-> borrowed[i]]]

ViewReading(d) ==
  LET viewed == Effective(d) IN [i \in DOMAIN d |-> [view |-> viewed[i]]]

Outcome(results) == IF \E i \in DOMAIN results : Fails(results[i].load) THEN "failed" ELSE "read"

Complete(results) ==
  /\ at = "building" /\ doc # <<>>
  /\ read' = results
  /\ UNCHANGED <<tracker, mode, doc, has_merge>>

LoadStrict ==
  /\ mode = "strict"
  /\ Complete(StrictReading(doc, has_merge))
  /\ at' = Outcome(read')

LoadYaml11 ==
  /\ mode = "yaml11"
  /\ Complete(Yaml11Reading(doc, has_merge))
  /\ at' = Outcome(read')

Deserialize == mode = "built" /\ Complete(BuiltReading(doc)) /\ at' = "read"

View == mode = "events" /\ Complete(ViewReading(doc)) /\ at' = "read"

Next == StartMapping \/ AddEntry \/ LoadStrict \/ LoadYaml11 \/ Deserialize \/ View

Spec == Init /\ [][Next]_vars

-----------------------------------------------------------------------------
(* Properties.                                                             *)

(* Where a key of a mapping comes from: its own entry, or else the first   *)
(* mapping of the first payload that has it; under YAML 1.1 of the last.   *)
NoPlace == <<>>
Merging(policy, e) == IF policy = "yaml11" THEN MergesIn(e) ELSE e.key = MergeKey

OriginIn(table, pay, k) ==
  LET having == {n \in DOMAIN pay.refs : pay.refs[n] # 0 /\ table[<<pay.refs[n], k>>] # NoPlace}
  IN  IF having = {} THEN NoPlace ELSE table[<<pay.refs[Min(having)], k>>]

OriginOf(table, policy, d, i, k) ==
  LET own    == {p \in DOMAIN d[i] : d[i][p].key = k /\ ~Merging(policy, d[i][p])}
      merged == {p \in DOMAIN d[i] : Merging(policy, d[i][p]) /\ OriginIn(table, d[i][p].pay, k) # NoPlace}
  IN  IF own # {} THEN <<i, Min(own)>>
      ELSE IF merged = {} THEN NoPlace
      ELSE OriginIn(table, d[i][IF policy = "yaml11" THEN Max(merged) ELSE Min(merged)].pay, k)

Origin(policy, d) ==
  LET table[x \in (DOMAIN d) \X Keys] == OriginOf(table, policy, d, x[1], x[2]) IN table

Places(es, k) == {es[n].place : n \in {m \in DOMAIN es : es[m].key = k}}
Literals(es)  == Without(es, {n \in DOMAIN es : es[n].key # MergeKey})

(* Loading a document leaves every ordinary key once, with the value that  *)
(* precedence gives it, and of `<<` keys the mapping's own that cannot be  *)
(* merged, in their order.                                                 *)
MergePrecedence ==
  mode \in {"strict", "yaml11"} /\ at = "read" =>
    LET origin == Origin(mode, doc) IN
    \A i \in DOMAIN doc :
      LET es       == read[i].load.entries
          literals == Literals(Without(Entries(doc, i), {p \in DOMAIN doc[i] : Merging(mode, doc[i][p])}))
      IN  /\ \A k \in Keys \ {MergeKey} : Places(es, k) = {origin[<<i, k>>]} \ {NoPlace}
          /\ \A n, m \in DOMAIN es : es[n].key = es[m].key /\ es[n].key # MergeKey => n = m
          /\ literals # <<>> \/ mode = "strict" => Literals(es) = literals

(* A mapping merges another.                                               *)
Refers(pay, j) == \E n \in DOMAIN pay.refs : pay.refs[n] = j

Links(policy, d) ==
  {l \in (DOMAIN d) \X (DOMAIN d) :
     \E p \in DOMAIN d[l[1]] : Merging(policy, d[l[1]][p]) /\ Refers(d[l[1]][p].pay, l[2])}

(* The merges on the longest chain that begins at a mapping.               *)
LongestOf(table, links, i) ==
  LET next == {l \in links : l[1] = i}
  IN  IF next = {} THEN 0 ELSE 1 + Max({table[l[2]] : l \in next})

Longest(policy, d) ==
  LET links == Links(policy, d)
      table[i \in DOMAIN d] == LongestOf(table, links, i)
  IN  table

BadPayload(d, i) == \E p \in Merges(d, i) : ~Mergeable(d[i][p].pay)

(* Loading fails exactly on a chain of merges longer than the limit, and   *)
(* under the strict policy on a payload that is no mapping; YAML 1.1 keeps *)
(* such a payload and charges it to no chain.                              *)
RefusedExactly ==
  mode \in {"strict", "yaml11"} /\ at \in {"read", "failed"} =>
    (at = "failed" <=> \E i \in DOMAIN doc : \/ Longest(mode, doc)[i] > MaxMergeDepth
                                             \/ mode = "strict" /\ BadPayload(doc, i))

(* A caller's tree deserializes the same, entry for entry and error for    *)
(* error, whether it is given away or borrowed.                            *)
NodesAgree ==
  mode = "built" /\ at = "read" => \A i \in DOMAIN doc : read[i].node = read[i].borrowed

(* The mappings that chains of merges lead to, from some of them.          *)
Further(links, ids) == ids \union {l[2] : l \in {x \in links : x[1] \in ids}}

Reached(d, links, ids) ==
  LET upto[n \in 0 .. Len(d)] == IF n = 0 THEN ids ELSE Further(links, upto[n - 1])
  IN  upto[Len(d)]

(* A mapping merges itself, by way of others or not; or it merges a scalar.*)
Cyclic(d, links, i) == i \in Reached(d, links, {l[2] : l \in {x \in links : x[1] = i}})
MergesScalar(d, i) ==
  \E p \in Merges(d, i) : d[i][p].pay.kind = "scalar" \/ Refers(d[i][p].pay, 0)

Unviewable(d, links) == {i \in DOMAIN d : Cyclic(d, links, i) \/ MergesScalar(d, i)}

(* The effective view of the lossless graph, its overridden entries left   *)
(* out, is the mapping the strict loader makes of the same text; and it is *)
(* refused exactly when the merges from the mapping lead to a scalar or    *)
(* back to a mapping on the way (one that is merged twice is none).        *)
ViewMatchesLoad ==
  /\ mode = "strict" /\ at = "read" =>
       \A i \in DOMAIN doc : /\ ~Fails(read[i].view)
                             /\ Shown(read[i].view.entries) = read[i].load.entries
  /\ mode = "events" /\ at = "read" =>
       LET links      == Links("events", doc)
           unviewable == Unviewable(doc, links)
       IN  \A i \in DOMAIN doc :
             Fails(read[i].view) <=> Reached(doc, links, {i}) \cap unviewable # {}
=============================================================================
