------------------------------- MODULE MCSim2h -------------------------------
(* Instances of Sim2h for TLC: agent "a" has the sockets a1 and a2 (a worker *)
(* that reconnects), agent "b" has b1; they are all in one space, and there  *)
(* is one entry with one aspect, which both should hold (full sync).         *)
EXTENDS Sim2h

MCAgentOf == [u \in Uris |-> IF u \in {"a1", "a2"} THEN "a" ELSE "b"]
MCSpaceOf == [u \in Uris |-> "s"]
MCEntryOf == [x \in Aspects |-> "e"]
MCAgentLoc == [a \in Agents |-> 0]
MCEntryLoc == [e \in Entries |-> 0]
=============================================================================
