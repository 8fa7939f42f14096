------------------------------ MODULE Serialize ------------------------------
(***************************************************************************)
(* A datum is turned into a Value and into text, by to_value, to_string    *)
(* and to_string_with_options; and data are written one after the other by *)
(* one Serializer to a writer that may fail.  Text is the tree it stands   *)
(* for: what the emitter (src/emit.rs) makes of a tree is taken to be      *)
(* parsed as that tree.                                                    *)
(***************************************************************************)
EXTENDS Serializers, FiniteSets, TLC

CONSTANTS Data,          \* what is serialized
          Streamed,      \* what is written to the writer, of these data
          MaxWrites      \* how many documents are tried on one writer

VARIABLES compat, rep,   \* the EmitOptions: byte-compatible or structural; enums
          datum, answers,
          wire,          \* what the writer has taken
          document_written,
          writes,        \* how many documents were tried
          reported       \* the documents whose writing was reported to succeed

vars == <<compat, rep, datum, answers, wire, document_written, writes, reported>>
stream == <<wire, document_written, writes, reported>>

Init ==
  /\ compat \in BOOLEAN /\ rep \in Representations /\ datum \in Data
  /\ answers = <<>>
  /\ wire = <<>> /\ document_written = FALSE /\ writes = 0 /\ reported = <<>>

Answers(way, tree) ==
  /\ way \notin DOMAIN answers
  /\ answers' = answers @@ (way :> tree)
  /\ UNCHANGED <<compat, rep, datum, stream>>

(* Each way is tried once, in this order.                                  *)
ToValue  == Answers("to_value", AsValue(datum))
ToText == "to_value" \in DOMAIN answers /\ Answers("to_string", AsNested(datum, TRUE, "tag"))

(* serialized_node_with_options *)
ToStringWithOptions ==
  /\ "to_string" \in DOMAIN answers
  /\ Answers("with_options", IF compat THEN AsRoot(datum, rep) ELSE AsNested(datum, TRUE, rep))

Done == "with_options" \in DOMAIN answers

-----------------------------------------------------------------------------
(* One document of a stream.                                               *)

Separator == Tree("separator", "", NoSource, <<>>)
Cut       == Tree("cut", "", NoSource, <<>>)

Output(tree) == (IF document_written THEN <<Separator>> ELSE <<>>) \o <<tree>>

(* What is left of an output whose writing failed: some of its lines and   *)
(* possibly a part of the next.                                            *)
Remnants(output) ==
  {SubSeq(output, 1, n) \o rest : n \in 0..(Len(output) - 1), rest \in {<<>>, <<Cut>>}}

(* Nothing is written of a document that cannot be serialized.             *)
Refuse(tree) ==
  /\ tree = Failed
  /\ UNCHANGED <<wire, document_written, reported>>

(* Mutant of Write: the serializer forgets that it has written.            *)
WriteForgotten(tree) ==
  /\ tree # Failed
  /\ wire' = wire \o Output(tree)
  /\ document_written' = FALSE
  /\ reported' = Append(reported, tree)

Write(tree) ==
  /\ tree # Failed
  /\ wire' = wire \o Output(tree)
  /\ document_written' = TRUE
  /\ reported' = Append(reported, tree)

(* write_all gives up: a document written before stays written.            *)
FailToWrite(tree) ==
  /\ tree # Failed
  /\ \E remnant \in Remnants(Output(tree)) : wire' = wire \o remnant
  /\ UNCHANGED <<document_written, reported>>

WriteDocument ==
  /\ Done /\ datum \in Streamed /\ writes < MaxWrites
  /\ writes' = writes + 1
  /\ \E d \in Streamed :
       \E tree \in {AsDocument(d, compat, rep)} : Refuse(tree) \/ Write(tree) \/ FailToWrite(tree)
  /\ UNCHANGED <<compat, rep, datum, answers>>

Over == Done /\ (writes = MaxWrites \/ datum \notin Streamed) /\ UNCHANGED vars

Next == ToValue \/ ToText \/ ToStringWithOptions \/ WriteDocument \/ Over

Spec == Init /\ [][Next]_vars
=============================================================================
