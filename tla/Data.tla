--------------------------------- MODULE Data ---------------------------------
(***************************************************************************)
(* The values that are serialized, searched and masked.  An object is the  *)
(* sequence of its entries, <<name, value>>, in their order.               *)
(***************************************************************************)
EXTENDS Integers, Sequences, SequencesExt

Null == [kind |-> "null"]
Date == [kind |-> "date"]
Scalar(v) == [kind |-> "scalar", v |-> v]
List(items) == [kind |-> "list", items |-> items]
Object(entries) == [kind |-> "object", entries |-> entries]
Entry(name, value) == <<name, value>>
=============================================================================
