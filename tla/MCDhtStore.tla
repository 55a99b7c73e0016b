------------------------------ MODULE MCDhtStore ------------------------------
(***************************************************************************)
(* An author x that holds nothing itself and two holders, y and z. x       *)
(* commits an entry b, an update of b to b2, a link l from b to b2 and the *)
(* removal r of that link; y deletes b by the deletion entry d. Only z is  *)
(* to hold b2, so y must ask for the target of the link.                   *)
(***************************************************************************)
EXTENDS DhtStore, TLC

MCKindOf == "b" :> "app" @@ "b2" :> "app" @@ "l" :> "linkAdd" @@
            "r" :> "linkRemove" @@ "d" :> "deletion"
MCBaseOf == [e \in Entries |-> "b"]
MCTargetOf == [e \in Entries |-> "b2"]
MCRemovedBy == [e \in Entries |-> IF e = "r" THEN {"l"} ELSE {}]
MCEntryOf == "hb" :> "b" @@ "hu" :> "b2" @@ "hl" :> "l" @@ "hr" :> "r" @@ "hd" :> "d"
MCAuthorOf == [h \in Headers |-> IF h = "hd" THEN "y" ELSE "x"]
MCReplaced == [h \in Headers |-> IF h \in {"hu", "hd"} THEN {"b"} ELSE {}]
MCInArc == ({"y", "z"} \X {"b"}) \cup {<<"z", "b2">>}
==============================================================================
