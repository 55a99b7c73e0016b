--------------------------- MODULE RequestPromise ---------------------------
(***************************************************************************)
(* What the network module promises to a caller that waits for a query, a  *)
(* direct message or a validation package, whatever the tables, timers and *)
(* actions behind it do: a request is given one outcome; a timeout or an   *)
(* error may still give way to the answer while the caller has not looked, *)
(* an answer never gives way to anything; and the outcome the caller sees  *)
(* is the one that stands when it looks, unless the network was shut down. *)
(***************************************************************************)
CONSTANT Requests

VARIABLES
  phase,  \* of each request: idle, open or ended
  value   \* of each request: its outcome so far

vars == <<phase, value>>

Failure == {"timeout", "error"}

Init ==
  /\ phase = [r \in Requests |-> "idle"]
  /\ value = [r \in Requests |-> "none"]

Submit(r) ==
  /\ phase[r] = "idle"
  /\ phase' = [phase EXCEPT ![r] = "open"]
  /\ UNCHANGED value

Answer(r) ==
  /\ phase[r] = "open"
  /\ value' = [value EXCEPT ![r] = "answer"]
  /\ UNCHANGED phase

Fail(r) ==
  /\ phase[r] = "open"
  /\ value[r] = "none"
  /\ \E f \in Failure : value' = [value EXCEPT ![r] = f]
  /\ UNCHANGED phase

End(r) ==
  /\ phase[r] = "open"
  /\ value[r] # "none"
  /\ phase' = [phase EXCEPT ![r] = "ended"]
  /\ UNCHANGED value

\* The network is gone: the caller is told so whatever has come in.
Abandon(r) ==
  /\ phase[r] = "open"
  /\ phase' = [phase EXCEPT ![r] = "ended"]
  /\ value' = [value EXCEPT ![r] = "offline"]

Next == \E r \in Requests : Submit(r) \/ Answer(r) \/ Fail(r) \/ End(r) \/ Abandon(r)

Spec == Init /\ [][Next]_vars
=============================================================================
