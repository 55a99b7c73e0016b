----------------------------- MODULE MCConductor -----------------------------
(***************************************************************************)
(* An app that requires a bridge, two libraries that implement its trait,  *)
(* an instance of each, one interface and one UI. The conductor is first   *)
(* started with the app a bridged to the library c, and with an unused e   *)
(* that belongs to another agent.                                          *)
(***************************************************************************)
EXTENDS Conductor, TLC

CONSTANTS app, lib, ext, a, c, e, g, k, h, i, u, v

MCDefines == app :> {h} @@ lib :> {} @@ ext :> {}

MCRequires == app :> {h} @@ lib :> {} @@ ext :> {}

MCAccepts == {<<h, lib>>, <<h, ext>>}

MCBootConfig ==
  [dnas |-> {app, lib, ext}, agents |-> {g, k},
   instances |-> <<[id |-> c, dna |-> lib, agent |-> g],
                   [id |-> a, dna |-> app, agent |-> g],
                   [id |-> e, dna |-> ext, agent |-> k]>>,
   interfaces |-> i :> {a},
   bridges |-> <<[caller |-> a, callee |-> c, handle |-> h]>>,
   bundles |-> {u}, uis |-> {[id |-> v, bundle |-> u, dna |-> {}]}]
==============================================================================
