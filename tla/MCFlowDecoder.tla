---------------------------- MODULE MCFlowDecoder ----------------------------
EXTENDS FlowDecoder

(***************************************************************************)
(* A router of each version, and a second IPFIX router with the domain id  *)
(* of the first.  The layouts differ in order and in width; Wide has a     *)
(* vendor's field with the number of a destination address after that      *)
(* address, and one with the number of the bytes before those, and its     *)
(* record of 25 bytes needs padding.  A ring slot of 90 bytes cuts the     *)
(* larger datagrams.                                                       *)
(***************************************************************************)
CONSTANTS r5, r9, r10, s10

Routers == {r5, r9, r10, s10}
MCVersion == [e \in Routers |-> CASE e = r5 -> 5 [] e = r9 -> 9 [] OTHER -> 10]
MCDomain == [e \in Routers |-> CASE e = r5 -> 0 [] e = r9 -> 1 [] OTHER -> 2]

Field(type, len) == [type |-> type, len |-> len, vendor |-> FALSE]
Vendor(type, len) == [type |-> type, len |-> len, vendor |-> TRUE]
Narrow == <<Field(8, 4), Field(12, 4), Field(1, 4)>>
Wide == <<Field(12, 4), Field(8, 4), Vendor(12, 3), Vendor(1, 2), Field(1, 8), Field(2, 4)>>

MCLayouts == [e \in Routers |-> CASE e = r5 -> {} [] e = r9 -> {Wide}
                                  [] e = r10 -> {Narrow, Wide} [] e = s10 -> {Narrow}]
MCAtStart == [e \in Routers |->
               [t \in {256} |-> CASE e = r9 -> Wide [] e = s10 -> Narrow [] OTHER -> <<>>]]
=============================================================================
