---------------------------- MODULE SingletonMaps ----------------------------
(***************************************************************************)
(* The reading side of src/with.rs: a deserializer put around another one, *)
(* by which enums are read from mappings of one entry instead of tags.     *)
(* singleton_map ("once") is around the deserializer of one field, and of  *)
(* what is in an option; singleton_map_recursive ("recursive") is put      *)
(* around every deserializer that is handed over.                          *)
(***************************************************************************)
EXTENDS TreeReaders

Wrap(kind, part) == [part EXCEPT !.wrap = kind]
WrapAll(kind, v) == [v EXCEPT !.parts = [i \in DOMAIN @ |-> Wrap(kind, @[i])]]

(* SingletonMapAsEnum, the visitor: the entry of a mapping is a variant    *)
(* and its content, a string a variant without content; a variant in a tag *)
(* is not taken.  What is in a variant is read around only recursively.    *)
AsEnum(kind, v) ==
  CASE v.call = "str" -> NameVariant(v.text)
    [] v.call = "map" /\ v.parts # <<>> ->
         Visit("entry_enum", "",
               [i \in DOMAIN v.parts |->
                  IF i = 2 /\ kind = "recursive" THEN Wrap(kind, v.parts[i]) ELSE v.parts[i]])
    [] OTHER -> Fails

AsOption(kind, v) == IF v.call = "some" THEN WrapAll(kind, v) ELSE v

(* SingletonMap, the deserializer, with what the one inside has answered   *)
SingletonMap(method, v) ==
  CASE method = "enum"   -> AsEnum("once", v)
    [] method = "option" -> AsOption("once", v)
    [] OTHER -> v

(* SingletonMapRecursive: as a visitor it forwards every call but          *)
(* visit_enum, with the deserializers in it wrapped.                       *)
SingletonMapRecursive(method, v) ==
  CASE method = "enum"   -> AsEnum("recursive", v)
    [] method = "option" -> AsOption("recursive", v)
    [] OTHER -> IF v.call = "enum" THEN Fails ELSE WrapAll("recursive", v)

Surrounded(kind, method, v) ==
  CASE kind = "none"      -> v
    [] kind = "once"      -> SingletonMap(method, v)
    [] kind = "recursive" -> SingletonMapRecursive(method, v)

(* An enum is asked for as anything, unless there is nothing around.       *)
Answer(part, method) ==
  Surrounded(part.wrap, method,
            Direct(Wrap("none", part),
                   IF method = "enum" /\ part.wrap # "none" THEN "any" ELSE method))
=============================================================================
