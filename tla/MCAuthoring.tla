----------------------------- MODULE MCAuthoring -----------------------------
(***************************************************************************)
(* Two authors, one of a private entry and one of its removal, and a call  *)
(* that commits nothing. The third may call the first, and the first the   *)
(* second: with the two of them the pool is full.                          *)
(***************************************************************************)
EXTENDS Authoring

CONSTANTS c1, c2, c3, secret, removal

MCEntryOf == [c \in Authors |-> IF c = c1 THEN secret ELSE removal]
MCInner == [c \in Calls |-> CASE c = c3 -> {c1} [] c = c1 -> {c2} [] OTHER -> {}]
MCBaseOf == [e \in HasMeta |-> secret]
==============================================================================
