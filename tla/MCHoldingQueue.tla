--------------------------- MODULE MCHoldingQueue ---------------------------
(* Instances of HoldingQueue for TLC. The aspects:                         *)
(*   base     the content of entry "b"                                     *)
(*   base2    the same content committed by another author: same entry and *)
(*            workflow, another header                                     *)
(*   link     a link whose base is "b": it depends on "b" and its workflow *)
(*            also holds the content aspect of the link entry              *)
(*   content  that content aspect of the link entry "l"                    *)
(*   update   an update of "b" to the entry "u": it depends on "b"         *)
(*   back     an update of "u" back to "b": it depends on "u", so that the *)
(*            two wait for each other when both are queued                 *)
(*   same     an update of "b" to the same content, which waits for itself *)
EXTENDS HoldingQueue

MCEntryOf ==
  [a \in Aspects |-> CASE a \in {"link", "content"} -> "l"
                       [] a = "update" -> "u"
                       [] OTHER -> "b"]
MCWorkflowOf ==
  [a \in Aspects |-> CASE a = "link" -> "HoldLink"
                       [] a \in {"update", "back", "same"} -> "UpdateEntry"
                       [] OTHER -> "HoldEntry"]
MCDependenciesOf ==
  [a \in Aspects |-> CASE a \in {"link", "content", "update", "same"} -> {"b"}
                       [] a = "back" -> {"u"}
                       [] OTHER -> {}]
MCHoldsOf ==
  [a \in Aspects |-> IF a = "link" THEN <<"link", "content">> ELSE <<a>>]
=============================================================================
