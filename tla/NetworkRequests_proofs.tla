------------------------ MODULE NetworkRequests_proofs ------------------------
(***************************************************************************)
(* Theorems about NetworkRequests, for any number of requests of each kind *)
(* and any bounds: no caller waits for nothing, every connection has its   *)
(* timeout, and the tables implement RequestPromise.                       *)
(***************************************************************************)
EXTENDS NetworkRequests, SequenceFacts, SequenceTheorems, TLAPS

-----------------------------------------------------------------------------
(* The inductive invariant.                                                *)

\* An action about the request.
About(a, r) == a.type # "ShutdownNetwork" /\ a.req = r

\* Nothing in the tables, the network thread or the job is about the request.
Untouched(r) ==
  /\ r \notin sent \cup timeouts \cup connections \cup messageTimeouts
  /\ \A i \in DOMAIN handler : ~About(handler[i], r)
  /\ \A a \in scan : ~About(a, r)
  /\ Row(r) = "absent"

\* Nothing is about a request that was not made.
IdleUntouched ==
  \A r \in Requests : future[r] = "idle" =>
    Untouched(r) /\ \A i \in DOMAIN channel : ~About(channel[i], r)

\* Nothing but the action that starts it is about a request that is not reduced.
StartUntouched ==
  \A r \in Requests, i \in DOMAIN channel : channel[i] = Start(r) =>
    /\ future[r] # "idle"
    /\ Untouched(r)
    /\ \A j \in DOMAIN channel : j # i => ~About(channel[j], r)

\* A row is cleared only when its future has ended.
ClearAfterEnd ==
  \A r \in Requests, i \in DOMAIN channel : channel[i] = Clear(r) =>
    future[r] \notin {"idle", "polling"}

Resolve(r) == Act("ResolveDirectConnection", r)

\* What the network thread has still to dispatch for an answer.
HandlerOrder ==
  \/ handler = << >>
  \/ \E r \in Queries : handler = <<Answer(r)>>
  \/ \E r \in Messages \cup Packages :
       handler = <<Answer(r), Resolve(r)>> \/ handler = <<Resolve(r)>>

\* The answer to a message comes before the action that drops its timeout.
AnswerFirst ==
  \A r \in Messages : future[r] = "polling" /\ replies[r] \notin Outcome =>
    /\ \A i \in DOMAIN channel : channel[i] = Resolve(r) =>
         \E j \in DOMAIN channel : j < i /\ channel[j] = Answer(r)
    /\ handler = <<Resolve(r)>> => InChannel(Answer(r))

\* The job dispatches nothing but timeouts.
ScanTimeouts ==
  \A a \in scan : a.type \in {"QueryTimeout", "SendDirectMessageTimeout",
                              "GetValidationPackageTimeout"}

\* What a caller finds in the tables once its request was reduced. The row of a
\* query is there: its timeout does not insert one.
Attended(r) ==
  \/ Row(r) \in Outcome
  \/ HasTimeout(r) /\ (r \in Queries => Row(r) = "waiting")

AllAttended ==
  \A r \in Requests :
    future[r] = "polling" /\ ~InChannel(Start(r)) => Attended(r)

IInv ==
  /\ TypeOK
  /\ IdleUntouched
  /\ StartUntouched
  /\ ClearAfterEnd
  /\ HandlerOrder
  /\ AnswerFirst
  /\ ScanTimeouts
  /\ AllAttended
  /\ ConnectionsTimeOut

-----------------------------------------------------------------------------
(* Actions.                                                                *)

\* The actions that start, answer and clear a request, by its kind.
LEMMA StartIs ==
  /\ \A r \in Queries : Start(r) = Act("Query", r)
  /\ \A r \in Messages : Start(r) = Act("SendDirectMessage", r)
  /\ \A r \in Packages : Start(r) = Act("GetValidationPackage", r)
<1>1. ASSUME NEW r \in Queries PROVE Start(r) = Act("Query", r)
  <2>1. r \notin Messages
    BY KindAssumption
  <2> QED BY <2>1, Zenon DEF Start
<1>2. ASSUME NEW r \in Messages PROVE Start(r) = Act("SendDirectMessage", r)
  <2>1. r \notin Queries
    BY KindAssumption
  <2> QED BY <2>1, Zenon DEF Start
<1>3. ASSUME NEW r \in Packages PROVE Start(r) = Act("GetValidationPackage", r)
  <2>1. r \notin Queries /\ r \notin Messages
    BY KindAssumption
  <2> QED BY <2>1, Zenon DEF Start
<1> QED BY <1>1, <1>2, <1>3

\* The action that carries the answer to a request, by its kind.
LEMMA AnswerIs ==
  /\ \A r \in Queries : Answer(r) = Act("HandleQuery", r)
  /\ \A r \in Messages : Answer(r) = Act("HandleCustomSendResponse", r)
  /\ \A r \in Packages : Answer(r) = Act("HandleGetValidationPackage", r)
<1>1. ASSUME NEW r \in Queries PROVE Answer(r) = Act("HandleQuery", r)
  <2>1. r \notin Messages
    BY KindAssumption
  <2> QED BY <2>1, Zenon DEF Answer
<1>2. ASSUME NEW r \in Messages PROVE Answer(r) = Act("HandleCustomSendResponse", r)
  <2>1. r \notin Queries
    BY KindAssumption
  <2> QED BY <2>1, Zenon DEF Answer
<1>3. ASSUME NEW r \in Packages PROVE Answer(r) = Act("HandleGetValidationPackage", r)
  <2>1. r \notin Queries /\ r \notin Messages
    BY KindAssumption
  <2> QED BY <2>1, Zenon DEF Answer
<1> QED BY <1>1, <1>2, <1>3

\* The action that clears the row of a request, by its kind.
LEMMA ClearIs ==
  /\ \A r \in Queries : Clear(r) = Act("ClearQueryResult", r)
  /\ \A r \in Messages : Clear(r) = Act("ClearCustomSendResponse", r)
  /\ \A r \in Packages : Clear(r) = Act("ClearValidationPackageResult", r)
<1>1. ASSUME NEW r \in Queries PROVE Clear(r) = Act("ClearQueryResult", r)
  <2>1. r \notin Messages
    BY KindAssumption
  <2> QED BY <2>1, Zenon DEF Clear
<1>2. ASSUME NEW r \in Messages PROVE Clear(r) = Act("ClearCustomSendResponse", r)
  <2>1. r \notin Queries
    BY KindAssumption
  <2> QED BY <2>1, Zenon DEF Clear
<1>3. ASSUME NEW r \in Packages PROVE Clear(r) = Act("ClearValidationPackageResult", r)
  <2>1. r \notin Queries /\ r \notin Messages
    BY KindAssumption
  <2> QED BY <2>1, Zenon DEF Clear
<1> QED BY <1>1, <1>2, <1>3

\* Actions of a type are about requests of its kind.
LEMMA ActIsAction ==
  /\ \A ty \in QueryActions, r \in Queries : Act(ty, r) \in Actions
  /\ \A ty \in MessageActions, r \in Messages : Act(ty, r) \in Actions
  /\ \A ty \in PackageActions, r \in Packages : Act(ty, r) \in Actions
  /\ \A ty \in ConnectionActions, r \in Messages \cup Packages : Act(ty, r) \in Actions
  /\ [type |-> "ShutdownNetwork"] \in Actions
BY DEF Actions, Act

StartTypes == {"Query", "SendDirectMessage", "GetValidationPackage"}
AnswerTypes == {"HandleQuery", "HandleCustomSendResponse", "HandleGetValidationPackage"}
ClearTypes == {"ClearQueryResult", "ClearCustomSendResponse", "ClearValidationPackageResult"}

\* The same, in the form in which it is used.
LEMMA RequestActions ==
  ASSUME NEW r \in Requests
  PROVE  /\ Start(r) \in Actions /\ Start(r).type \in StartTypes /\ Start(r).req = r
         /\ Answer(r) \in Actions /\ Answer(r).type \in AnswerTypes /\ Answer(r).req = r
         /\ Clear(r) \in Actions /\ Clear(r).type \in ClearTypes /\ Clear(r).req = r
         /\ r \in Messages \cup Packages => Resolve(r) \in Actions
         /\ Resolve(r).type = "ResolveDirectConnection" /\ Resolve(r).req = r
<1> USE ActIsAction DEF Act, Resolve, StartTypes, AnswerTypes, ClearTypes,
        QueryActions, MessageActions, PackageActions, ConnectionActions
<1>1. CASE r \in Queries
  BY <1>1, StartIs, AnswerIs, ClearIs
<1>2. CASE r \in Messages
  BY <1>2, StartIs, AnswerIs, ClearIs
<1>3. CASE r \in Packages
  BY <1>3, StartIs, AnswerIs, ClearIs
<1> QED BY <1>1, <1>2, <1>3 DEF Requests

\* Empty tables: the invariant holds.
LEMMA InitIInv == Init => IInv
BY BoundAssumption DEF Init, IInv, TypeOK, IdleUntouched, StartUntouched, ClearAfterEnd, HandlerOrder,
       AnswerFirst, ScanTimeouts, AllAttended, ConnectionsTimeOut, Untouched, Row,
       Requests, Result, Future, Outcome

-----------------------------------------------------------------------------
(* Reductions. Each takes an action about one request off the channel and  *)
(* changes what the tables have of that request alone (Reduces). What it   *)
(* may do to a request that somebody waits for is Settles.                 *)

Reduces(r) ==
  /\ channel # << >>
  /\ About(Head(channel), r)
  /\ channel' = Tail(channel)
  /\ UNCHANGED <<future, handler, scan, online>>
  /\ \A q \in Requests \ {r} :
       /\ Row(q)' = Row(q)
       /\ q \in sent' <=> q \in sent
       /\ q \in timeouts' <=> q \in timeouts
       /\ q \in connections' <=> q \in connections
       /\ q \in messageTimeouts' <=> q \in messageTimeouts

Settles(r) ==
  future[r] = "polling" =>
    /\ Attended(r)'
    /\ Row(r)' \in {"answer", Row(r)} \/ Row(r) \notin Outcome
    /\ r \in Messages /\ Head(channel) = Answer(r) => Row(r)' \in Outcome

\* The head of the channel is about a request that was made, and if it does not
\* start it, it was started before.
LEMMA HeadIsAboutMade ==
  ASSUME IInv, NEW r \in Requests, channel # << >>, About(Head(channel), r)
  PROVE  /\ future[r] # "idle"
         /\ Head(channel) # Start(r) => ~InChannel(Start(r))
<1>1. 1 \in DOMAIN channel /\ Head(channel) = channel[1]
  BY Consumed DEF IInv, TypeOK
<1>2. future[r] # "idle"
  BY <1>1 DEF IInv, IdleUntouched
<1>3. ASSUME NEW i \in DOMAIN channel, channel[i] = Start(r)
      PROVE  i = 1
  BY <1>1, <1>3 DEF IInv, StartUntouched
<1> QED BY <1>1, <1>2, <1>3 DEF InChannel

\* A reduction keeps the invariant.
LEMMA ReductionKeeps ==
  ASSUME IInv, TypeOK', ConnectionsTimeOut', NEW r \in Requests, Reduces(r), Settles(r)
  PROVE  IInv'
<1>1. /\ 1 \in DOMAIN channel /\ Head(channel) = channel[1]
      /\ DOMAIN channel' \subseteq Nat
      /\ \A k \in DOMAIN channel' :
           k + 1 \in DOMAIN channel /\ k + 1 # 1 /\ channel'[k] = channel[k + 1]
  BY Consumed DEF IInv, TypeOK, Reduces
<1>2. \A k \in DOMAIN channel : k # 1 =>
        k - 1 \in DOMAIN channel' /\ channel'[k - 1] = channel[k]
  BY StillThere DEF IInv, TypeOK, Reduces
<1>3. future' = future /\ handler' = handler /\ scan' = scan
  BY DEF Reduces
<1>4. future[r] # "idle"
  BY HeadIsAboutMade DEF Reduces
<1>5. \A k \in DOMAIN channel' : channel'[k] # Start(r)
  BY <1>1 DEF IInv, StartUntouched, Reduces
<1>6. \A q \in Requests \ {r} : Untouched(q) => Untouched(q)'
  BY <1>3 DEF Reduces, Untouched
<1>7. IdleUntouched'
  BY <1>1, <1>3, <1>4, <1>6 DEF IInv, IdleUntouched
<1>8. StartUntouched'
  <2> SUFFICES ASSUME NEW q \in Requests, NEW i \in DOMAIN channel', channel'[i] = Start(q)
               PROVE  /\ future[q] # "idle"
                      /\ Untouched(q)'
                      /\ \A j \in DOMAIN channel' : j # i => ~About(channel'[j], q)
    BY <1>3 DEF StartUntouched
  <2>1. q # r
    BY <1>5
  <2>2. i + 1 \in DOMAIN channel /\ channel[i + 1] = Start(q) /\ i \in Nat
    BY <1>1
  <2>3. \A j \in DOMAIN channel' : j # i => j + 1 # i + 1
    BY <1>1
  <2> QED BY <1>1, <1>6, <2>1, <2>2, <2>3 DEF IInv, StartUntouched
<1>9. ClearAfterEnd'
  BY <1>1, <1>3 DEF IInv, ClearAfterEnd
<1>10. HandlerOrder' /\ ScanTimeouts'
  BY <1>3 DEF IInv, HandlerOrder, ScanTimeouts
<1>11. AnswerFirst'
  <2> SUFFICES ASSUME NEW q \in Messages, future[q] = "polling", replies'[q] \notin Outcome
               PROVE  /\ \A i \in DOMAIN channel' : channel'[i] = Resolve(q) =>
                           \E j \in DOMAIN channel' : j < i /\ channel'[j] = Answer(q)
                      /\ handler = <<Resolve(q)>> => InChannel(Answer(q))'
    BY <1>3 DEF AnswerFirst
  <2>1. q \in Requests /\ Row(q) = replies[q] /\ Row(q)' = replies'[q]
    BY DEF Requests, Row
  <2>2. replies[q] \notin Outcome /\ Head(channel) # Answer(q)
    <3>1. CASE q = r
      BY <2>1, <3>1 DEF Settles, Outcome
    <3>2. CASE q # r
      BY <2>1, <3>2, RequestActions DEF Reduces, About
    <3> QED BY <3>1, <3>2
  <2>3. ASSUME NEW j \in DOMAIN channel, channel[j] = Answer(q)
        PROVE  j # 1 /\ j - 1 \in DOMAIN channel' /\ channel'[j - 1] = Answer(q)
    BY <1>1, <1>2, <2>2, <2>3
  <2>4. ASSUME NEW i \in DOMAIN channel', channel'[i] = Resolve(q)
        PROVE  \E j \in DOMAIN channel' : j < i /\ channel'[j] = Answer(q)
    <3>1. PICK j \in DOMAIN channel : j < i + 1 /\ channel[j] = Answer(q)
      BY <1>1, <2>2, <2>4 DEF IInv, AnswerFirst
    <3>2. j - 1 \in DOMAIN channel' /\ channel'[j - 1] = Answer(q)
      BY <2>3, <3>1
    <3>3. j \in Nat /\ i \in Nat
      BY <1>1, LenProperties DEF IInv, TypeOK
    <3> QED BY <3>1, <3>2, <3>3
  <2>5. handler = <<Resolve(q)>> => InChannel(Answer(q))'
    BY <2>2, <2>3 DEF IInv, AnswerFirst, InChannel
  <2> QED BY <2>4, <2>5
<1>12. AllAttended'
  <2> SUFFICES ASSUME NEW q \in Requests, future[q] = "polling", ~InChannel(Start(q))'
               PROVE  Attended(q)'
    BY <1>3 DEF AllAttended
  <2>1. CASE q = r
    BY <2>1 DEF Settles
  <2>2. CASE q # r
    <3>1. ~InChannel(Start(q))
      <4>1. channel[1] # Start(q)
        BY <1>1, <2>2, RequestActions DEF Reduces, About
      <4> QED BY <1>2, <4>1 DEF InChannel
    <3>2. Attended(q)
      BY <3>1 DEF IInv, AllAttended
    <3> QED BY <2>2, <3>2 DEF Reduces, Attended, HasTimeout
  <2> QED BY <2>1, <2>2
<1> QED BY <1>7, <1>8, <1>9, <1>10, <1>11, <1>12 DEF IInv

\* What all reductions have in common.
LEMMA ReduceFacts ==
  ASSUME IInv, NEW ty, ty # "ShutdownNetwork", NEW r \in Requests, Reduce(ty, r)
  PROVE  /\ channel # << >>
         /\ Head(channel) = Act(ty, r)
         /\ About(Head(channel), r)
         /\ channel' = Tail(channel) /\ channel' \in Seq(Actions)
         /\ UNCHANGED <<future, answers, handler, expired, scan, calls>>
         /\ \A i \in DOMAIN channel : channel[i] = Clear(r) => future[r] # "polling"
         /\ 1 \in DOMAIN channel /\ channel[1] = Head(channel)
<1>1. /\ channel # << >> /\ Head(channel) = Act(ty, r) /\ channel' = Tail(channel)
      /\ UNCHANGED <<future, answers, handler, expired, scan, calls>>
  BY DEF Reduce, job
<1>2. channel' \in Seq(Actions) /\ 1 \in DOMAIN channel /\ channel[1] = Head(channel)
  BY <1>1, Consumed DEF IInv, TypeOK
<1>3. About(Head(channel), r)
  BY <1>1 DEF About, Act
<1> QED BY <1>1, <1>2, <1>3 DEF IInv, ClearAfterEnd

\* Sending a request keeps the type of what was sent.
LEMMA SendsType ==
  ASSUME IInv, NEW ok, NEW r \in Requests, Sends(ok, r)
  PROVE  sent' \subseteq Requests /\ \A q \in Requests \ {r} : q \in sent' <=> q \in sent
BY DEF IInv, TypeOK, Sends

\* A request that is polled and whose start is not at the head is attended to.
LEMMA PolledIsAttended ==
  ASSUME IInv, NEW r \in Requests, channel # << >>, About(Head(channel), r),
         Head(channel) # Start(r), future[r] = "polling"
  PROVE  Attended(r)
BY HeadIsAboutMade DEF IInv, AllAttended

Good(r) == TypeOK' /\ ConnectionsTimeOut' /\ Reduces(r) /\ Settles(r)

\* The reducers of queries.
LEMMA QueryReduced ==
  ASSUME IInv, NEW r \in Queries, ReduceQueryAction(r)
  PROVE  Good(r)
<1>0. r \in Requests /\ r \notin Messages /\ r \notin Packages
  BY KindAssumption DEF Requests
<1>1. CASE ReduceQuery(r)
  <2>1. PICK ok \in BOOLEAN :
          /\ Sends(ok, r)
          /\ results' = [results EXCEPT ![r] = IF ok THEN "waiting" ELSE "error"]
    BY <1>1 DEF ReduceQuery
  <2>2. /\ Reduce("Query", r) /\ timeouts' = timeouts \cup {r}
        /\ UNCHANGED <<replies, connections, messageTimeouts, online>>
    BY <1>1 DEF ReduceQuery
  <2>3. TypeOK'
    BY <1>0, <2>1, <2>2, ReduceFacts, SendsType DEF IInv, TypeOK, Result, Outcome
  <2>4. Reduces(r)
    BY <1>0, <2>1, <2>2, ReduceFacts, SendsType DEF IInv, TypeOK, Reduces, Row, Requests
  <2>5. Settles(r)
    <3>1. Row(r)' \in {"waiting", "error"} /\ HasTimeout(r)'
      BY <1>0, <2>1, <2>2 DEF IInv, TypeOK, Row, HasTimeout
    <3>2. Row(r) = "absent"
      BY <1>0, <2>2, ReduceFacts, StartIs DEF IInv, StartUntouched, Untouched
    <3> QED BY <1>0, <3>1, <3>2 DEF Settles, Attended, Outcome
  <2> QED BY <2>2, <2>3, <2>4, <2>5 DEF Good, IInv, ConnectionsTimeOut
<1>2. CASE ReduceQueryTimeout(r)
  <2>1. /\ Reduce("QueryTimeout", r) /\ timeouts' = timeouts \ {r}
        /\ results' = [results EXCEPT ![r] = IF @ = "waiting" THEN "timeout" ELSE @]
        /\ UNCHANGED <<replies, connections, messageTimeouts, online, sent>>
    BY <1>2 DEF ReduceQueryTimeout
  <2>2. TypeOK'
    BY <1>0, <2>1, ReduceFacts DEF IInv, TypeOK, Result, Outcome
  <2>3. Reduces(r)
    BY <1>0, <2>1, ReduceFacts DEF IInv, TypeOK, Reduces, Row, Requests
  <2>4. Settles(r)
    <3> SUFFICES ASSUME future[r] = "polling" PROVE Settles(r)
      BY DEF Settles
    <3>head. /\ channel # << >> /\ About(Head(channel), r)
          /\ Head(channel) = Act("QueryTimeout", r)
      BY <1>0, <2>1, ReduceFacts
    <3>begun. Head(channel) # Start(r)
      BY <1>0, <3>head, RequestActions DEF Act, StartTypes
    <3>1. Attended(r)
      BY <1>0, <3>head, <3>begun, PolledIsAttended
    <3>2. Row(r)' = IF Row(r) = "waiting" THEN "timeout" ELSE Row(r)
      BY <1>0, <2>1 DEF IInv, TypeOK, Row
    <3> QED BY <1>0, <3>1, <3>2 DEF Settles, Attended, Outcome
  <2> QED BY <2>1, <2>2, <2>3, <2>4 DEF Good, IInv, ConnectionsTimeOut
<1>3. CASE ReduceHandleQuery(r)
  <2>1. /\ Reduce("HandleQuery", r) /\ timeouts' = timeouts \ {r}
        /\ results' = [results EXCEPT ![r] = "answer"]
        /\ UNCHANGED <<replies, connections, messageTimeouts, online, sent>>
    BY <1>3 DEF ReduceHandleQuery
  <2>2. TypeOK'
    BY <1>0, <2>1, ReduceFacts DEF IInv, TypeOK, Result, Outcome
  <2>3. Reduces(r)
    BY <1>0, <2>1, ReduceFacts DEF IInv, TypeOK, Reduces, Row, Requests
  <2>4. Settles(r)
    BY <1>0, <2>1 DEF IInv, TypeOK, Row, Settles, Attended, Outcome
  <2> QED BY <2>1, <2>2, <2>3, <2>4 DEF Good, IInv, ConnectionsTimeOut
<1>4. CASE ReduceClearQueryResult(r)
  <2>1. /\ Reduce("ClearQueryResult", r)
        /\ results' = [results EXCEPT ![r] = "absent"]
        /\ UNCHANGED <<timeouts, replies, connections, messageTimeouts, online, sent>>
    BY <1>4 DEF ReduceClearQueryResult
  <2>2. TypeOK'
    BY <1>0, <2>1, ReduceFacts DEF IInv, TypeOK, Result, Outcome
  <2>3. Reduces(r)
    BY <1>0, <2>1, ReduceFacts DEF IInv, TypeOK, Reduces, Row, Requests
  <2>4. Settles(r)
    BY <1>0, <2>1, ReduceFacts, ClearIs DEF Settles
  <2> QED BY <2>1, <2>2, <2>3, <2>4 DEF Good, IInv, ConnectionsTimeOut
<1> QED BY <1>1, <1>2, <1>3, <1>4 DEF ReduceQueryAction

\* The reducers of direct messages.
LEMMA MessageReduced ==
  ASSUME IInv, NEW r \in Messages, ReduceMessageAction(r)
  PROVE  Good(r)
<1>0. r \in Requests /\ r \notin Queries /\ r \notin Packages
  BY KindAssumption DEF Requests
<1>1. CASE ReduceSendDirectMessage(r)
  <2>1. PICK ok \in BOOLEAN : Sends(ok, r)
    BY <1>1 DEF ReduceSendDirectMessage
  <2>2. /\ Reduce("SendDirectMessage", r) /\ messageTimeouts' = messageTimeouts \cup {r}
        /\ connections' = IF online THEN connections \cup {r} ELSE connections
        /\ UNCHANGED <<results, timeouts, replies, online>>
    BY <1>1 DEF ReduceSendDirectMessage
  <2>3. TypeOK' /\ ConnectionsTimeOut'
    BY <1>0, <2>1, <2>2, ReduceFacts, SendsType DEF IInv, TypeOK, ConnectionsTimeOut
  <2>4. Reduces(r)
    BY <1>0, <2>1, <2>2, ReduceFacts, SendsType DEF IInv, TypeOK, Reduces, Row, Requests
  <2>5. Settles(r)
    <3>1. Row(r)' = Row(r) /\ HasTimeout(r)'
      BY <1>0, <2>2 DEF Row, HasTimeout
    <3>2. Head(channel) # Answer(r)
      BY <1>0, <2>2, ReduceFacts, AnswerIs DEF Act
    <3> QED BY <1>0, <3>1, <3>2 DEF Settles, Attended
  <2> QED BY <2>3, <2>4, <2>5 DEF Good
<1>2. CASE ReduceHandleCustomSendResponse(r)
  <2>1. /\ Reduce("HandleCustomSendResponse", r)
        /\ replies' = [replies EXCEPT ![r] = "answer"]
        /\ UNCHANGED <<results, timeouts, connections, messageTimeouts, online, sent>>
    BY <1>2 DEF ReduceHandleCustomSendResponse
  <2>2. TypeOK'
    BY <1>0, <2>1, ReduceFacts DEF IInv, TypeOK, Result, Outcome
  <2>3. Reduces(r)
    BY <1>0, <2>1, ReduceFacts DEF IInv, TypeOK, Reduces, Row, Requests
  <2>4. Settles(r)
    BY <1>0, <2>1 DEF IInv, TypeOK, Row, Settles, Attended, Outcome
  <2> QED BY <2>1, <2>2, <2>3, <2>4 DEF Good, IInv, ConnectionsTimeOut
<1>3. CASE ReduceClearCustomSendResponse(r)
  <2>1. /\ Reduce("ClearCustomSendResponse", r)
        /\ replies' = [replies EXCEPT ![r] = "absent"]
        /\ UNCHANGED <<results, timeouts, connections, messageTimeouts, online, sent>>
    BY <1>3 DEF ReduceClearCustomSendResponse
  <2>2. TypeOK'
    BY <1>0, <2>1, ReduceFacts DEF IInv, TypeOK, Result, Outcome
  <2>3. Reduces(r)
    BY <1>0, <2>1, ReduceFacts DEF IInv, TypeOK, Reduces, Row, Requests
  <2>4. Settles(r)
    BY <1>0, <2>1, ReduceFacts, ClearIs DEF Settles
  <2> QED BY <2>1, <2>2, <2>3, <2>4 DEF Good, IInv, ConnectionsTimeOut
<1> QED BY <1>1, <1>2, <1>3 DEF ReduceMessageAction

\* The reducers of validation packages.
LEMMA PackageReduced ==
  ASSUME IInv, NEW r \in Packages, ReducePackageAction(r)
  PROVE  Good(r)
<1>0. r \in Requests /\ r \notin Messages /\ r \notin Queries
  BY KindAssumption DEF Requests
<1>1. CASE ReduceGetValidationPackage(r)
  <2>1. PICK ok \in BOOLEAN :
          /\ Sends(ok, r)
          /\ results' = [results EXCEPT ![r] = IF ok THEN "waiting" ELSE "error"]
          /\ connections' = IF ok THEN connections \cup {r} ELSE connections
          /\ messageTimeouts' = IF ok THEN messageTimeouts \cup {r} ELSE messageTimeouts
    BY <1>1 DEF ReduceGetValidationPackage
  <2>2. /\ Reduce("GetValidationPackage", r) /\ timeouts' = timeouts \cup {r}
        /\ UNCHANGED <<replies, online>>
    BY <1>1 DEF ReduceGetValidationPackage
  <2>3. TypeOK' /\ ConnectionsTimeOut'
    BY <1>0, <2>1, <2>2, ReduceFacts, SendsType
       DEF IInv, TypeOK, Result, Outcome, ConnectionsTimeOut
  <2>4. Reduces(r)
    BY <1>0, <2>1, <2>2, ReduceFacts, SendsType DEF IInv, TypeOK, Reduces, Row, Requests
  <2>5. Settles(r)
    <3>1. HasTimeout(r)'
      BY <1>0, <2>2 DEF HasTimeout
    <3>2. Row(r) = "absent"
      BY <1>0, <2>2, ReduceFacts, StartIs DEF IInv, StartUntouched, Untouched
    <3> QED BY <1>0, <3>1, <3>2 DEF Settles, Attended, Outcome
  <2> QED BY <2>3, <2>4, <2>5 DEF Good
<1>2. CASE ReduceGetValidationPackageTimeout(r)
  <2>1. /\ Reduce("GetValidationPackageTimeout", r) /\ timeouts' = timeouts \ {r}
        /\ results' = [results EXCEPT ![r] = IF @ \in Outcome THEN @ ELSE "timeout"]
        /\ UNCHANGED <<replies, connections, messageTimeouts, online, sent>>
    BY <1>2 DEF ReduceGetValidationPackageTimeout
  <2>2. TypeOK'
    BY <1>0, <2>1, ReduceFacts DEF IInv, TypeOK, Result, Outcome
  <2>3. Reduces(r)
    BY <1>0, <2>1, ReduceFacts DEF IInv, TypeOK, Reduces, Row, Requests
  <2>4. Row(r)' = IF Row(r) \in Outcome THEN Row(r) ELSE "timeout"
    BY <1>0, <2>1 DEF IInv, TypeOK, Row
  <2>5. Settles(r)
    BY <1>0, <2>4 DEF Settles, Attended, Outcome
  <2> QED BY <2>1, <2>2, <2>3, <2>5 DEF Good, IInv, ConnectionsTimeOut
<1>3. CASE ReduceHandleGetValidationPackage(r)
  <2>1. /\ Reduce("HandleGetValidationPackage", r)
        /\ results' = [results EXCEPT ![r] = "answer"]
        /\ UNCHANGED <<timeouts, replies, connections, messageTimeouts, online, sent>>
    BY <1>3 DEF ReduceHandleGetValidationPackage
  <2>2. TypeOK'
    BY <1>0, <2>1, ReduceFacts DEF IInv, TypeOK, Result, Outcome
  <2>3. Reduces(r)
    BY <1>0, <2>1, ReduceFacts DEF IInv, TypeOK, Reduces, Row, Requests
  <2>4. Settles(r)
    BY <1>0, <2>1 DEF IInv, TypeOK, Row, Settles, Attended, Outcome
  <2> QED BY <2>1, <2>2, <2>3, <2>4 DEF Good, IInv, ConnectionsTimeOut
<1>4. CASE ReduceClearValidationPackageResult(r)
  <2>1. /\ Reduce("ClearValidationPackageResult", r)
        /\ results' = [results EXCEPT ![r] = "absent"]
        /\ timeouts' = timeouts \ {r}
        /\ UNCHANGED <<replies, connections, messageTimeouts, online, sent>>
    BY <1>4 DEF ReduceClearValidationPackageResult
  <2>2. TypeOK'
    BY <1>0, <2>1, ReduceFacts DEF IInv, TypeOK, Result, Outcome
  <2>3. Reduces(r)
    BY <1>0, <2>1, ReduceFacts DEF IInv, TypeOK, Reduces, Row, Requests
  <2>4. Settles(r)
    BY <1>0, <2>1, ReduceFacts, ClearIs DEF Settles
  <2> QED BY <2>1, <2>2, <2>3, <2>4 DEF Good, IInv, ConnectionsTimeOut
<1> QED BY <1>1, <1>2, <1>3, <1>4 DEF ReducePackageAction

\* The reducers of connections, which belong to a message or to a package.
LEMMA ConnectionReduced ==
  ASSUME IInv, NEW r \in Messages \cup Packages, ReduceConnectionAction(r)
  PROVE  Good(r)
<1>0. r \in Requests /\ r \notin Queries /\ (r \in Packages => r \notin Messages)
  BY KindAssumption DEF Requests
<1>1. CASE ReduceSendDirectMessageTimeout(r)
  <2>1. /\ Reduce("SendDirectMessageTimeout", r)
        /\ messageTimeouts' = messageTimeouts \ {r}
        /\ connections' = connections \ {r}
        /\ replies' = [replies EXCEPT ![r] = IF @ = "absent" THEN "timeout" ELSE @]
        /\ UNCHANGED <<results, timeouts, online, sent>>
    BY <1>1 DEF ReduceSendDirectMessageTimeout
  <2>2. TypeOK' /\ ConnectionsTimeOut'
    BY <1>0, <2>1, ReduceFacts DEF IInv, TypeOK, Result, Outcome, ConnectionsTimeOut
  <2>3. Reduces(r)
    BY <1>0, <2>1, ReduceFacts DEF IInv, TypeOK, Reduces, Row, Requests
  <2>4. Settles(r)
    <3> SUFFICES ASSUME future[r] = "polling" PROVE Settles(r)
      BY DEF Settles
    <3>head. /\ channel # << >> /\ About(Head(channel), r)
          /\ Head(channel) = Act("SendDirectMessageTimeout", r)
      BY <1>0, <2>1, ReduceFacts
    <3>begun. Head(channel) # Start(r)
      BY <1>0, <3>head, RequestActions DEF Act, StartTypes
    <3>1. Attended(r)
      BY <1>0, <3>head, <3>begun, PolledIsAttended
    <3>2. CASE r \in Messages
      <4>1. Row(r)' = IF Row(r) = "absent" THEN "timeout" ELSE Row(r)
        BY <2>1, <3>2 DEF IInv, TypeOK, Row
      <4>2. Row(r) \in Result \ {"waiting", "error"}
        BY <3>2 DEF IInv, TypeOK, Row
      <4> QED BY <1>0, <4>1, <4>2 DEF Settles, Attended, Outcome, Result
    <3>3. CASE r \in Packages
      <4>1. Row(r)' = Row(r) /\ (HasTimeout(r)' <=> HasTimeout(r))
        BY <1>0, <2>1, <3>3 DEF Row, HasTimeout
      <4> QED BY <1>0, <3>1, <3>3, <4>1 DEF Settles, Attended
    <3> QED BY <3>2, <3>3
  <2> QED BY <2>2, <2>3, <2>4 DEF Good
<1>2. CASE ReduceResolveDirectConnection(r)
  <2>1. /\ Reduce("ResolveDirectConnection", r)
        /\ messageTimeouts' = messageTimeouts \ {r}
        /\ connections' = connections \ {r}
        /\ UNCHANGED <<results, timeouts, replies, online, sent>>
    BY <1>2 DEF ReduceResolveDirectConnection
  <2>2. TypeOK' /\ ConnectionsTimeOut'
    BY <1>0, <2>1, ReduceFacts DEF IInv, TypeOK, ConnectionsTimeOut
  <2>3. Reduces(r)
    BY <1>0, <2>1, ReduceFacts DEF IInv, TypeOK, Reduces, Row, Requests
  <2>4. Settles(r)
    <3> SUFFICES ASSUME future[r] = "polling" PROVE Settles(r)
      BY DEF Settles
    <3>head. /\ channel # << >> /\ About(Head(channel), r)
          /\ Head(channel) = Act("ResolveDirectConnection", r)
      BY <1>0, <2>1, ReduceFacts
    <3>begun. Head(channel) # Start(r)
      BY <1>0, <3>head, RequestActions DEF Act, StartTypes
    <3>1. Attended(r) /\ Row(r)' = Row(r)
      BY <1>0, <2>1, <3>head, <3>begun, PolledIsAttended DEF Row
    <3>2. CASE r \in Messages
      <4>1. channel[1] = Resolve(r) /\ 1 \in DOMAIN channel
        BY <1>0, <2>1, ReduceFacts DEF Resolve
      <4>2. \A j \in DOMAIN channel : ~(j < 1)
        BY LenProperties DEF IInv, TypeOK
      <4>3. Row(r) \in Outcome
        BY <3>2, <4>1, <4>2 DEF IInv, AnswerFirst, Row
      <4> QED BY <3>1, <4>3 DEF Settles, Attended
    <3>3. CASE r \in Packages
      <4>1. HasTimeout(r)' <=> HasTimeout(r)
        BY <1>0, <2>1, <3>3 DEF HasTimeout
      <4> QED BY <1>0, <3>1, <3>3, <4>1 DEF Settles, Attended
    <3> QED BY <3>2, <3>3
  <2> QED BY <2>2, <2>3, <2>4 DEF Good
<1> QED BY <1>1, <1>2 DEF ReduceConnectionAction

-----------------------------------------------------------------------------
(* The other steps. They leave the tables alone.                           *)

\* Nothing about an untouched request is in the channel, or only its start.
LEMMA TouchedIsStarted ==
  ASSUME IInv, NEW q \in Requests, ~Untouched(q)
  PROVE  future[q] # "idle" /\ ~InChannel(Start(q))
BY DEF IInv, IdleUntouched, StartUntouched, InChannel

\* A step that neither dispatches nor ends a future and leaves the channel alone.
LEMMA QuietKeeps ==
  ASSUME IInv, TypeOK', UNCHANGED <<tables, sent, future, channel>>,
         \A q \in Requests : Untouched(q) => Untouched(q)',
         HandlerOrder', ScanTimeouts',
         \A q \in Messages : handler' = <<Resolve(q)>> => handler = <<Resolve(q)>>
  PROVE  IInv'
<1>1. /\ results' = results /\ replies' = replies /\ timeouts' = timeouts
      /\ connections' = connections /\ messageTimeouts' = messageTimeouts
      /\ future' = future /\ channel' = channel
  BY DEF tables
<1>2. IdleUntouched' /\ StartUntouched'
  BY <1>1 DEF IInv, IdleUntouched, StartUntouched
<1>3. ClearAfterEnd' /\ ConnectionsTimeOut'
  BY <1>1 DEF IInv, ClearAfterEnd, ConnectionsTimeOut
<1>4. AnswerFirst'
  BY <1>1 DEF IInv, AnswerFirst, InChannel
<1>5. AllAttended'
  BY <1>1 DEF IInv, AllAttended, Attended, HasTimeout, Row, InChannel
<1> QED BY <1>2, <1>3, <1>4, <1>5 DEF IInv

\* A step that dispatches something about a request that was started.
LEMMA AppendKeeps ==
  ASSUME IInv, TypeOK', NEW b \in Actions, channel' = Append(channel, b),
         UNCHANGED <<tables, sent, future>>,
         b.type \notin StartTypes \cup ClearTypes,
         \A q \in Requests : About(b, q) => ~Untouched(q),
         \A q \in Requests : Untouched(q) => Untouched(q)',
         HandlerOrder', ScanTimeouts',
         \A q \in Messages : b = Resolve(q) => handler = <<Resolve(q)>>,
         \A q \in Messages : handler' = <<Resolve(q)>> =>
           handler = <<Resolve(q)>> \/ b = Answer(q)
  PROVE  IInv'
<1>1. /\ results' = results /\ replies' = replies /\ timeouts' = timeouts
      /\ connections' = connections /\ messageTimeouts' = messageTimeouts
      /\ future' = future
  BY DEF tables
<1>2. /\ DOMAIN channel' = 1..(Len(channel) + 1) /\ Len(channel) \in Nat
      /\ DOMAIN channel = 1..Len(channel)
      /\ \A i \in DOMAIN channel : i \in DOMAIN channel' /\ channel'[i] = channel[i]
      /\ Len(channel) + 1 \in DOMAIN channel' /\ channel'[Len(channel) + 1] = b
      /\ \A k \in DOMAIN channel' :
           \/ k \in DOMAIN channel /\ channel'[k] = channel[k]
           \/ k = Len(channel) + 1 /\ channel'[k] = b
  BY AppendFacts DEF IInv, TypeOK
<1>3. \A q \in Requests : b # Start(q) /\ b # Clear(q)
  BY RequestActions
<1>4. \A a : InChannel(a) => InChannel(a)'
  BY <1>2 DEF InChannel
<1>5. IdleUntouched'
  <2> SUFFICES ASSUME NEW q \in Requests, future[q] = "idle"
               PROVE  Untouched(q)' /\ \A i \in DOMAIN channel' : ~About(channel'[i], q)
    BY <1>1 DEF IdleUntouched
  <2>1. Untouched(q) /\ \A i \in DOMAIN channel : ~About(channel[i], q)
    BY DEF IInv, IdleUntouched
  <2> QED BY <1>2, <2>1
<1>6. StartUntouched'
  <2> SUFFICES ASSUME NEW q \in Requests, NEW i \in DOMAIN channel', channel'[i] = Start(q)
               PROVE  /\ future[q] # "idle"
                      /\ Untouched(q)'
                      /\ \A j \in DOMAIN channel' : j # i => ~About(channel'[j], q)
    BY <1>1 DEF StartUntouched
  <2>1. i \in DOMAIN channel /\ channel[i] = Start(q)
    BY <1>2, <1>3
  <2>2. /\ future[q] # "idle" /\ Untouched(q)
        /\ \A j \in DOMAIN channel : j # i => ~About(channel[j], q)
    BY <2>1 DEF IInv, StartUntouched
  <2> QED BY <1>2, <2>2
<1>7. ClearAfterEnd' /\ ConnectionsTimeOut'
  BY <1>1, <1>2, <1>3 DEF IInv, ClearAfterEnd, ConnectionsTimeOut
<1>8. AnswerFirst'
  <2> SUFFICES ASSUME NEW q \in Messages, future[q] = "polling", replies[q] \notin Outcome
               PROVE  /\ \A i \in DOMAIN channel' : channel'[i] = Resolve(q) =>
                           \E j \in DOMAIN channel' : j < i /\ channel'[j] = Answer(q)
                      /\ handler' = <<Resolve(q)>> => InChannel(Answer(q))'
    BY <1>1 DEF AnswerFirst
  <2>1. /\ \A i \in DOMAIN channel : channel[i] = Resolve(q) =>
             \E j \in DOMAIN channel : j < i /\ channel[j] = Answer(q)
        /\ handler = <<Resolve(q)>> => InChannel(Answer(q))
    BY DEF IInv, AnswerFirst
  <2>2. ASSUME NEW i \in DOMAIN channel', channel'[i] = Resolve(q)
        PROVE  \E j \in DOMAIN channel' : j < i /\ channel'[j] = Answer(q)
    <3>1. CASE i \in DOMAIN channel
      BY <1>2, <2>1, <2>2, <3>1
    <3>2. CASE i = Len(channel) + 1
      <4>1. PICK j \in DOMAIN channel : channel[j] = Answer(q)
        BY <1>2, <2>1, <2>2, <3>2 DEF InChannel
      <4> QED BY <1>2, <3>2, <4>1
    <3> QED BY <1>2, <3>1, <3>2
  <2>3. handler' = <<Resolve(q)>> => InChannel(Answer(q))'
    BY <1>2, <1>4, <2>1 DEF InChannel
  <2> QED BY <2>2, <2>3
<1>9. AllAttended'
  BY <1>1, <1>4 DEF IInv, AllAttended, Attended, HasTimeout, Row
<1> QED BY <1>5, <1>6, <1>7, <1>8, <1>9 DEF IInv

\* query, custom_send and get_validation_package make a request.
LEMMA DispatchKeeps ==
  ASSUME IInv, NEW r \in Requests, Dispatch(r)
  PROVE  IInv'
<1>1. /\ future[r] = "idle" /\ future' = [future EXCEPT ![r] = "polling"]
      /\ channel' = Append(channel, Start(r)) /\ calls' = calls + 1
      /\ results' = results /\ replies' = replies /\ timeouts' = timeouts
      /\ connections' = connections /\ messageTimeouts' = messageTimeouts
      /\ UNCHANGED <<online, sent, answers, handler, expired, scan>>
  BY DEF Dispatch, tables, network, job
<1>2. Start(r) \in Actions /\ Start(r).type \in StartTypes /\ Start(r).req = r
  BY RequestActions
<1>3. /\ channel' \in Seq(Actions)
      /\ DOMAIN channel' = 1..(Len(channel) + 1) /\ Len(channel) \in Nat
      /\ DOMAIN channel = 1..Len(channel)
      /\ \A i \in DOMAIN channel : i \in DOMAIN channel' /\ channel'[i] = channel[i]
      /\ Len(channel) + 1 \in DOMAIN channel' /\ channel'[Len(channel) + 1] = Start(r)
      /\ \A k \in DOMAIN channel' :
           \/ k \in DOMAIN channel /\ channel'[k] = channel[k]
           \/ k = Len(channel) + 1 /\ channel'[k] = Start(r)
  BY <1>1, <1>2, AppendFacts DEF IInv, TypeOK
<1>4. TypeOK'
  BY <1>1, <1>3 DEF IInv, TypeOK, Future
<1>5. Untouched(r) /\ \A i \in DOMAIN channel : ~About(channel[i], r)
  BY <1>1 DEF IInv, IdleUntouched
<1>6. \A q \in Requests : Untouched(q)' <=> Untouched(q)
  BY <1>1 DEF Untouched, Row
<1>7. \A q \in Requests : future'[q] = IF q = r THEN "polling" ELSE future[q]
  BY <1>1 DEF IInv, TypeOK
<1>8. \A q \in Requests \ {r} : ~About(Start(r), q) /\ Start(r) # Start(q)
  BY <1>2, RequestActions DEF About
<1>9. \A q \in Requests : Start(r) # Clear(q) /\ Start(r) # Resolve(q) /\ Start(r) # Answer(q)
  BY <1>2, RequestActions DEF StartTypes, ClearTypes, AnswerTypes
<1>10. IdleUntouched'
  BY <1>3, <1>6, <1>7, <1>8 DEF IInv, IdleUntouched
<1>11. StartUntouched'
  <2> SUFFICES ASSUME NEW q \in Requests, NEW i \in DOMAIN channel', channel'[i] = Start(q)
               PROVE  /\ future'[q] # "idle"
                      /\ Untouched(q)'
                      /\ \A j \in DOMAIN channel' : j # i => ~About(channel'[j], q)
    BY DEF StartUntouched
  <2>1. CASE q = r
    <3>1. About(Start(r), r)
      BY <1>2 DEF About, StartTypes
    <3>2. i = Len(channel) + 1
      BY <1>3, <1>5, <2>1, <3>1
    <3> QED BY <1>3, <1>5, <1>6, <1>7, <2>1, <3>2
  <2>2. CASE q # r
    <3>1. i \in DOMAIN channel /\ channel[i] = Start(q)
      BY <1>3, <1>8, <2>2
    <3>2. /\ future[q] # "idle" /\ Untouched(q)
          /\ \A j \in DOMAIN channel : j # i => ~About(channel[j], q)
      BY <3>1 DEF IInv, StartUntouched
    <3> QED BY <1>3, <1>6, <1>7, <1>8, <2>2, <3>2
  <2> QED BY <2>1, <2>2
<1>12. ClearAfterEnd'
  <2> SUFFICES ASSUME NEW q \in Requests, NEW i \in DOMAIN channel', channel'[i] = Clear(q)
               PROVE  future'[q] \notin {"idle", "polling"}
    BY DEF ClearAfterEnd
  <2>1. i \in DOMAIN channel /\ channel[i] = Clear(q)
    BY <1>3, <1>9
  <2>2. future[q] \notin {"idle", "polling"}
    BY <2>1 DEF IInv, ClearAfterEnd
  <2> QED BY <1>1, <1>7, <2>2
<1>13. HandlerOrder' /\ ScanTimeouts' /\ ConnectionsTimeOut'
  BY <1>1 DEF IInv, HandlerOrder, ScanTimeouts, ConnectionsTimeOut
<1>14. AnswerFirst'
  <2> SUFFICES ASSUME NEW q \in Messages, future'[q] = "polling", replies[q] \notin Outcome
               PROVE  /\ \A i \in DOMAIN channel' : channel'[i] = Resolve(q) =>
                           \E j \in DOMAIN channel' : j < i /\ channel'[j] = Answer(q)
                      /\ handler = <<Resolve(q)>> => InChannel(Answer(q))'
    BY <1>1 DEF AnswerFirst
  <2>0. q \in Requests
    BY DEF Requests
  <2>1. CASE q = r
    <3>1. About(Resolve(r), r) /\ About(Start(r), r)
      BY <1>2, RequestActions DEF About, StartTypes
    <3>2. \A i \in DOMAIN channel' : channel'[i] # Resolve(r)
      BY <1>3, <1>5, <1>9, <3>1
    <3>3. handler # <<Resolve(r)>>
      <4> SUFFICES ASSUME handler = <<Resolve(r)>> PROVE FALSE
        OBVIOUS
      <4>1. 1 \in DOMAIN handler /\ handler[1] = Resolve(r)
        OBVIOUS
      <4> QED BY <1>5, <3>1, <4>1 DEF Untouched
    <3> QED BY <2>1, <3>2, <3>3
  <2>2. CASE q # r
    <3>1. /\ \A i \in DOMAIN channel : channel[i] = Resolve(q) =>
               \E j \in DOMAIN channel : j < i /\ channel[j] = Answer(q)
          /\ handler = <<Resolve(q)>> => InChannel(Answer(q))
      BY <1>7, <2>0, <2>2 DEF IInv, AnswerFirst
    <3>2. \A i \in DOMAIN channel' : channel'[i] = Resolve(q) =>
            \E j \in DOMAIN channel' : j < i /\ channel'[j] = Answer(q)
      BY <1>3, <1>9, <2>0, <3>1
    <3>3. handler = <<Resolve(q)>> => InChannel(Answer(q))'
      BY <1>3, <3>1 DEF InChannel
    <3> QED BY <3>2, <3>3
  <2> QED BY <2>1, <2>2
<1>15. AllAttended'
  <2> SUFFICES ASSUME NEW q \in Requests, future'[q] = "polling", ~InChannel(Start(q))'
               PROVE  Attended(q)'
    BY DEF AllAttended
  <2>1. q # r
    BY <1>3 DEF InChannel
  <2>2. future[q] = "polling" /\ ~InChannel(Start(q))
    BY <1>3, <1>7, <2>1 DEF InChannel
  <2>3. Attended(q)
    BY <2>2 DEF IInv, AllAttended
  <2> QED BY <1>1, <2>3 DEF Attended, HasTimeout, Row
<1> QED BY <1>4, <1>10, <1>11, <1>12, <1>13, <1>14, <1>15 DEF IInv

\* A future ends: with its row, whose clearing is dispatched, or off-line.
LEMMA PollKeeps ==
  ASSUME IInv, NEW r \in Requests, Poll(r)
  PROVE  IInv'
<1>1. /\ future[r] = "polling"
      /\ results' = results /\ replies' = replies /\ timeouts' = timeouts
      /\ connections' = connections /\ messageTimeouts' = messageTimeouts
      /\ UNCHANGED <<online, sent, answers, handler, expired, scan, calls>>
  BY DEF Poll, tables, network, job
<1>2. \/ future' = [future EXCEPT ![r] = "offline"] /\ channel' = channel
      \/ /\ Row(r) \in Outcome
         /\ future' = [future EXCEPT ![r] = Row(r)]
         /\ channel' = Append(channel, Clear(r))
  BY DEF Poll
<1>3. /\ \A q \in Requests \ {r} : future'[q] = future[q]
      /\ future'[r] \in {"offline"} \cup Outcome
      /\ future' \in [Requests -> Future]
  BY <1>2 DEF IInv, TypeOK, Future
<1>4. Clear(r) \in Actions /\ Clear(r).type \in ClearTypes /\ Clear(r).req = r
  BY RequestActions
<1>5. /\ channel' \in Seq(Actions)
      /\ DOMAIN channel \subseteq Nat
      /\ \A i \in DOMAIN channel : i \in DOMAIN channel' /\ channel'[i] = channel[i]
      /\ \A k \in DOMAIN channel' :
           \/ k \in DOMAIN channel /\ channel'[k] = channel[k]
           \/ k \notin DOMAIN channel /\ channel'[k] = Clear(r) /\ Row(r) \in Outcome
  <2>1. CASE channel' = channel
    BY <2>1, LenProperties DEF IInv, TypeOK
  <2>2. CASE channel' = Append(channel, Clear(r)) /\ Row(r) \in Outcome
    <3>1. channel \in Seq(Actions)
      BY DEF IInv, TypeOK
    <3> QED BY <1>4, <2>2, <3>1, AppendFacts
  <2> QED BY <1>2, <2>1, <2>2
<1>6. TypeOK'
  BY <1>1, <1>3, <1>5 DEF IInv, TypeOK
<1>7. \A q \in Requests : Untouched(q)' <=> Untouched(q)
  BY <1>1 DEF Untouched, Row
<1>8. \A q \in Requests \ {r} : ~About(Clear(r), q) /\ Clear(r) # Clear(q)
  BY <1>4, RequestActions DEF About
<1>9. \A q \in Requests : Clear(r) # Start(q) /\ Clear(r) # Resolve(q) /\ Clear(r) # Answer(q)
  BY <1>4, RequestActions DEF StartTypes, ClearTypes, AnswerTypes
<1>10. IdleUntouched'
  BY <1>3, <1>5, <1>7, <1>8 DEF IInv, IdleUntouched, Outcome
<1>11. StartUntouched'
  <2> SUFFICES ASSUME NEW q \in Requests, NEW i \in DOMAIN channel', channel'[i] = Start(q)
               PROVE  /\ future'[q] # "idle"
                      /\ Untouched(q)'
                      /\ \A j \in DOMAIN channel' : j # i => ~About(channel'[j], q)
    BY DEF StartUntouched
  <2>1. i \in DOMAIN channel /\ channel[i] = Start(q)
    BY <1>5, <1>9
  <2>2. /\ future[q] # "idle" /\ Untouched(q)
        /\ \A j \in DOMAIN channel : j # i => ~About(channel[j], q)
    BY <2>1 DEF IInv, StartUntouched
  <2>3. q = r => Row(r) \notin Outcome
    BY <2>2 DEF Untouched, Outcome
  <2> QED BY <1>3, <1>5, <1>7, <1>8, <2>1, <2>2, <2>3 DEF Outcome
<1>12. ClearAfterEnd'
  <2> SUFFICES ASSUME NEW q \in Requests, NEW i \in DOMAIN channel', channel'[i] = Clear(q)
               PROVE  future'[q] \notin {"idle", "polling"}
    BY DEF ClearAfterEnd
  <2>1. CASE q = r
    BY <1>3, <2>1 DEF Outcome
  <2>2. CASE q # r
    <3>1. i \in DOMAIN channel /\ channel[i] = Clear(q)
      BY <1>5, <1>8, <2>2
    <3> QED BY <1>3, <2>2, <3>1 DEF IInv, ClearAfterEnd
  <2> QED BY <2>1, <2>2
<1>13. HandlerOrder' /\ ScanTimeouts' /\ ConnectionsTimeOut'
  BY <1>1 DEF IInv, HandlerOrder, ScanTimeouts, ConnectionsTimeOut
<1>14. AnswerFirst'
  <2> SUFFICES ASSUME NEW q \in Messages, future'[q] = "polling", replies[q] \notin Outcome
               PROVE  /\ \A i \in DOMAIN channel' : channel'[i] = Resolve(q) =>
                           \E j \in DOMAIN channel' : j < i /\ channel'[j] = Answer(q)
                      /\ handler = <<Resolve(q)>> => InChannel(Answer(q))'
    BY <1>1 DEF AnswerFirst
  <2>1. q \in Requests /\ q # r
    BY <1>3 DEF Requests, Outcome
  <2>2. /\ \A i \in DOMAIN channel : channel[i] = Resolve(q) =>
             \E j \in DOMAIN channel : j < i /\ channel[j] = Answer(q)
        /\ handler = <<Resolve(q)>> => InChannel(Answer(q))
    BY <1>3, <2>1 DEF IInv, AnswerFirst
  <2>3. \A i \in DOMAIN channel' : channel'[i] = Resolve(q) =>
          \E j \in DOMAIN channel' : j < i /\ channel'[j] = Answer(q)
    BY <1>5, <1>9, <2>1, <2>2
  <2>4. handler = <<Resolve(q)>> => InChannel(Answer(q))'
    BY <1>5, <2>2 DEF InChannel
  <2> QED BY <2>3, <2>4
<1>15. AllAttended'
  <2> SUFFICES ASSUME NEW q \in Requests, future'[q] = "polling", ~InChannel(Start(q))'
               PROVE  Attended(q)'
    BY DEF AllAttended
  <2>1. q # r
    BY <1>3 DEF Outcome
  <2>2. Attended(q)
    BY <1>3, <1>5, <2>1 DEF IInv, AllAttended, InChannel
  <2> QED BY <1>1, <2>2 DEF Attended, HasTimeout, Row
<1> QED BY <1>6, <1>10, <1>11, <1>12, <1>13, <1>14, <1>15 DEF IInv

\* The network thread looks at an answer.
LEMMA HandleResultKeeps ==
  ASSUME IInv, NEW r \in Requests, HandleResult(r)
  PROVE  IInv'
<1>1. /\ r \in sent /\ handler = << >>
      /\ answers' = [answers EXCEPT ![r] = @ + 1]
      /\ UNCHANGED <<tables, online, channel, future, sent, expired, scan, calls>>
  BY DEF HandleResult, job
<1>2. \/ handler' = << >>
      \/ r \in Queries /\ handler' = <<Answer(r)>>
      \/ r \in Messages \cup Packages /\ handler' = <<Answer(r), Resolve(r)>>
  BY DEF HandleResult, Resolve, Requests
<1>3. /\ Answer(r) \in Actions /\ (r \in Messages \cup Packages => Resolve(r) \in Actions)
      /\ Answer(r).req = r /\ Resolve(r).req = r
  BY RequestActions
<1>4. handler' \in Seq(Actions)
  <2>1. CASE handler' = << >>
    BY <2>1
  <2>2. CASE handler' = <<Answer(r)>>
    BY <1>3, <2>2
  <2>3. CASE r \in Messages \cup Packages /\ handler' = <<Answer(r), Resolve(r)>>
    BY <1>3, <2>3
  <2> QED BY <1>2, <2>1, <2>2, <2>3
<1>5. TypeOK'
  BY <1>1, <1>4 DEF IInv, TypeOK, tables
<1>6. ASSUME NEW q \in Requests, Untouched(q)
      PROVE  Untouched(q)'
  <2>1. q # r
    BY <1>1, <1>6 DEF Untouched
  <2>2. \A i \in DOMAIN handler' : handler'[i] \in {Answer(r), Resolve(r)}
    BY <1>2
  <2>3. \A i \in DOMAIN handler' : ~About(handler'[i], q)
    BY <1>3, <2>1, <2>2 DEF About
  <2> QED BY <1>1, <1>6, <2>3 DEF Untouched, Row, tables
<1>7. HandlerOrder'
  BY <1>2 DEF HandlerOrder
<1>8. \A q \in Messages : handler' # <<Resolve(q)>>
  <2> SUFFICES ASSUME NEW q \in Messages, handler' = <<Resolve(q)>> PROVE FALSE
    OBVIOUS
  <2>1. r \in Queries /\ Answer(r) = Resolve(q)
    BY <1>2
  <2> QED BY <2>1, RequestActions DEF AnswerTypes, Requests
<1>9. ScanTimeouts'
  BY <1>1 DEF IInv, ScanTimeouts
<1> QED BY <1>1, <1>5, <1>6, <1>7, <1>8, <1>9, QuietKeeps

\* It dispatches what it has found.
LEMMA HandlerDispatchKeeps ==
  ASSUME IInv, HandlerDispatch
  PROVE  IInv'
<1>1. /\ handler # << >> /\ channel' = Append(channel, Head(handler))
      /\ handler' = Tail(handler)
      /\ UNCHANGED <<tables, online, future, sent, answers, expired, scan, calls>>
  BY DEF HandlerDispatch, job
<1> DEFINE b == Head(handler)
<1>2. /\ b \in Actions /\ handler' \in Seq(Actions)
      /\ 1 \in DOMAIN handler /\ b = handler[1]
      /\ \A k \in DOMAIN handler' : k + 1 \in DOMAIN handler /\ handler'[k] = handler[k + 1]
  BY <1>1, Consumed DEF IInv, TypeOK
<1>3. channel' \in Seq(Actions)
  BY <1>1, <1>2, AppendFacts DEF IInv, TypeOK
<1>4. TypeOK'
  BY <1>1, <1>2, <1>3 DEF IInv, TypeOK, tables
<1>5. \E r \in Requests :
        \/ b = Answer(r) /\ handler' = << >>
        \/ r \in Messages \cup Packages /\ b = Answer(r) /\ handler' = <<Resolve(r)>>
        \/ r \in Messages \cup Packages /\ b = Resolve(r) /\ handler = <<Resolve(r)>>
             /\ handler' = << >>
  <2>1. CASE \E r \in Queries : handler = <<Answer(r)>>
    <3>1. PICK r \in Queries : handler = <<Answer(r)>>
      BY <2>1
    <3>2. Head(handler) = Answer(r) /\ Tail(handler) = << >>
      BY <3>1
    <3> QED BY <1>1, <3>2 DEF Requests
  <2>2. CASE \E r \in Messages \cup Packages : handler = <<Answer(r), Resolve(r)>>
    <3>1. PICK r \in Messages \cup Packages : handler = <<Answer(r), Resolve(r)>>
      BY <2>2
    <3>2. Head(handler) = Answer(r) /\ Tail(handler) = <<Resolve(r)>>
      BY <3>1
    <3> QED BY <1>1, <3>2 DEF Requests
  <2>3. CASE \E r \in Messages \cup Packages : handler = <<Resolve(r)>>
    <3>1. PICK r \in Messages \cup Packages : handler = <<Resolve(r)>>
      BY <2>3
    <3>2. Head(handler) = Resolve(r) /\ Tail(handler) = << >>
      BY <3>1
    <3> QED BY <1>1, <3>1, <3>2 DEF Requests
  <2> QED BY <1>1, <2>1, <2>2, <2>3 DEF IInv, HandlerOrder
<1>6. \A q \in Requests : About(b, q) => ~Untouched(q)
  BY <1>2 DEF Untouched
<1>7. \A q \in Requests : Untouched(q) => Untouched(q)'
  BY <1>1, <1>2 DEF Untouched, Row, tables
<1>8. PICK r \in Requests :
        \/ b = Answer(r) /\ handler' = << >>
        \/ r \in Messages \cup Packages /\ b = Answer(r) /\ handler' = <<Resolve(r)>>
        \/ r \in Messages \cup Packages /\ b = Resolve(r) /\ handler = <<Resolve(r)>>
             /\ handler' = << >>
  BY <1>5
<1>9. b.type \notin StartTypes \cup ClearTypes
  BY <1>8, RequestActions DEF StartTypes, ClearTypes, AnswerTypes
<1>10. HandlerOrder' /\ ScanTimeouts'
  BY <1>1, <1>8 DEF IInv, HandlerOrder, ScanTimeouts
<1>11. ASSUME NEW q \in Messages, b = Resolve(q)
       PROVE  handler = <<Resolve(q)>>
  <2>1. q \in Requests
    BY DEF Requests
  <2>2. Answer(r) # Resolve(q)
    BY <2>1, RequestActions DEF AnswerTypes
  <2> QED BY <1>8, <1>11, <2>2
<1>12. ASSUME NEW q \in Messages, handler' = <<Resolve(q)>>
       PROVE  b = Answer(q)
  <2>1. q \in Requests
    BY DEF Requests
  <2>2. b = Answer(r) /\ Resolve(r) = Resolve(q)
    BY <1>8, <1>12
  <2>3. r = q
    BY <2>1, <2>2, RequestActions
  <2> QED BY <2>2, <2>3
<1> HIDE DEF b
<1>13. channel' = Append(channel, b)
  BY <1>1 DEF b
<1> QED BY <1>1, <1>2, <1>4, <1>6, <1>7, <1>9, <1>10, <1>11, <1>12, <1>13, AppendKeeps

\* A timeout elapses.
LEMMA ElapseKeeps ==
  ASSUME IInv, NEW r \in Requests, Elapse(r)
  PROVE  IInv'
<1>1. /\ expired' = expired \cup {r}
      /\ UNCHANGED <<tables, online, channel, future, sent, answers, handler, scan, calls>>
  BY DEF Elapse, network
<1>2. TypeOK'
  BY <1>1 DEF IInv, TypeOK, tables
<1>3. \A q \in Requests : Untouched(q) => Untouched(q)'
  BY <1>1 DEF Untouched, Row, tables
<1>4. HandlerOrder' /\ ScanTimeouts'
  BY <1>1 DEF IInv, HandlerOrder, ScanTimeouts
<1> QED BY <1>1, <1>2, <1>3, <1>4, QuietKeeps

\* The job starts with what the tables have.
LEMMA ScanStartKeeps ==
  ASSUME IInv, ScanStart
  PROVE  IInv'
<1>1. /\ scan' = {Act("QueryTimeout", r) : r \in timeouts \cap Queries}
                 \cup {Act("SendDirectMessageTimeout", r) : r \in messageTimeouts}
                 \cup {Act("GetValidationPackageTimeout", r) : r \in timeouts \cap Packages}
      /\ UNCHANGED <<tables, online, channel, future, sent, answers, handler, expired, calls>>
  BY DEF ScanStart, network
<1>2. ASSUME NEW a \in scan'
      PROVE  /\ a \in Actions
             /\ a.type \in {"QueryTimeout", "SendDirectMessageTimeout", "GetValidationPackageTimeout"}
             /\ a.req \in timeouts \cup messageTimeouts
  <2>1. CASE \E r \in timeouts \cap Queries : a = Act("QueryTimeout", r)
    BY <2>1, ActIsAction DEF Act, QueryActions
  <2>2. CASE \E r \in messageTimeouts : a = Act("SendDirectMessageTimeout", r)
    <3>1. messageTimeouts \subseteq Messages \cup Packages
      BY DEF IInv, TypeOK
    <3> QED BY <2>2, <3>1, ActIsAction DEF Act, ConnectionActions
  <2>3. CASE \E r \in timeouts \cap Packages : a = Act("GetValidationPackageTimeout", r)
    BY <2>3, ActIsAction DEF Act, PackageActions
  <2> QED BY <1>1, <2>1, <2>2, <2>3
<1>3. TypeOK'
  BY <1>1, <1>2 DEF IInv, TypeOK, tables
<1>4. \A q \in Requests : Untouched(q) => Untouched(q)'
  BY <1>1, <1>2 DEF Untouched, Row, tables, About
<1>5. HandlerOrder' /\ ScanTimeouts'
  BY <1>1, <1>2 DEF IInv, HandlerOrder, ScanTimeouts
<1> QED BY <1>1, <1>3, <1>4, <1>5, QuietKeeps

\* The job dispatches a timeout, or finds that it is not overdue.
LEMMA ScanStepKeeps ==
  ASSUME IInv, ScanStep
  PROVE  IInv'
<1>1. PICK a \in scan :
        /\ scan' = scan \ {a}
        /\ channel' = IF a.req \in expired THEN Append(channel, a) ELSE channel
  BY DEF ScanStep
<1>2. UNCHANGED <<tables, online, future, sent, answers, handler, expired, calls>>
  BY DEF ScanStep, network
<1>3. /\ a \in Actions
      /\ a.type \in {"QueryTimeout", "SendDirectMessageTimeout", "GetValidationPackageTimeout"}
  BY DEF IInv, TypeOK, ScanTimeouts
<1>4. channel' \in Seq(Actions)
  BY <1>1, <1>3, AppendFacts DEF IInv, TypeOK
<1>5. TypeOK'
  BY <1>1, <1>2, <1>4 DEF IInv, TypeOK, tables
<1>6. \A q \in Requests : Untouched(q) => Untouched(q)'
  BY <1>1, <1>2 DEF Untouched, Row, tables
<1>7. HandlerOrder' /\ ScanTimeouts'
  BY <1>1, <1>2 DEF IInv, HandlerOrder, ScanTimeouts
<1>8. CASE channel' = channel
  BY <1>2, <1>5, <1>6, <1>7, <1>8, QuietKeeps
<1>9. CASE channel' = Append(channel, a)
  <2>1. \A q \in Requests : About(a, q) => ~Untouched(q)
    BY DEF Untouched
  <2>2. a.type \notin StartTypes \cup ClearTypes
    BY <1>3 DEF StartTypes, ClearTypes
  <2>3. \A q \in Messages : a # Resolve(q)
    BY <1>3 DEF Resolve, Act
  <2> QED BY <1>2, <1>3, <1>5, <1>6, <1>7, <1>9, <2>1, <2>2, <2>3, AppendKeeps
<1> QED BY <1>1, <1>8, <1>9

\* The instance shuts the network down.
LEMMA ShutdownKeeps ==
  ASSUME IInv, Shutdown
  PROVE  IInv'
<1> DEFINE b == [type |-> "ShutdownNetwork"]
<1>1. /\ channel' = Append(channel, b) /\ calls' = calls + 1
      /\ UNCHANGED <<tables, online, future, sent, answers, handler, expired, scan>>
  BY DEF Shutdown, network, job
<1>2. b \in Actions /\ b.type = "ShutdownNetwork"
  BY ActIsAction
<1> HIDE DEF b
<1>3. channel' \in Seq(Actions)
  BY <1>1, <1>2, AppendFacts DEF IInv, TypeOK
<1>4. TypeOK'
  BY <1>1, <1>3 DEF IInv, TypeOK, tables
<1>5. \A q \in Requests : (Untouched(q) => Untouched(q)') /\ ~About(b, q)
  BY <1>1, <1>2 DEF Untouched, Row, tables, About
<1>6. HandlerOrder' /\ ScanTimeouts'
  BY <1>1 DEF IInv, HandlerOrder, ScanTimeouts
<1>7. b.type \notin StartTypes \cup ClearTypes
  BY <1>2 DEF StartTypes, ClearTypes
<1>8. \A q \in Messages : b # Resolve(q)
  BY <1>2 DEF Resolve, Act
<1> QED BY <1>1, <1>2, <1>4, <1>5, <1>6, <1>7, <1>8, AppendKeeps

\* reduce_shutdown takes the network away and leaves every request as it is.
LEMMA ReduceShutdownKeeps ==
  ASSUME IInv, ReduceShutdown
  PROVE  IInv'
<1>1. /\ channel # << >> /\ Head(channel) = [type |-> "ShutdownNetwork"]
      /\ channel' = Tail(channel) /\ online' = FALSE
      /\ results' = results /\ replies' = replies /\ timeouts' = timeouts
      /\ connections' = connections /\ messageTimeouts' = messageTimeouts
      /\ UNCHANGED <<future, sent, answers, handler, expired, scan, calls>>
  BY DEF ReduceShutdown, tables, network, job
<1>2. /\ channel' \in Seq(Actions)
      /\ 1 \in DOMAIN channel /\ Head(channel) = channel[1]
      /\ DOMAIN channel \subseteq Nat /\ DOMAIN channel' \subseteq Nat
      /\ \A k \in DOMAIN channel' :
           k + 1 \in DOMAIN channel /\ k + 1 # 1 /\ channel'[k] = channel[k + 1]
  BY <1>1, Consumed, LenProperties DEF IInv, TypeOK
<1>3. \A k \in DOMAIN channel : k # 1 =>
        k - 1 \in DOMAIN channel' /\ channel'[k - 1] = channel[k]
  BY <1>1, StillThere DEF IInv, TypeOK
<1>4. TypeOK'
  BY <1>1, <1>2 DEF IInv, TypeOK
<1>5. \A q \in Requests : Untouched(q)' <=> Untouched(q)
  BY <1>1 DEF Untouched, Row
<1>6. IdleUntouched'
  BY <1>1, <1>2, <1>5 DEF IInv, IdleUntouched
<1>7. StartUntouched'
  <2> SUFFICES ASSUME NEW q \in Requests, NEW i \in DOMAIN channel', channel'[i] = Start(q)
               PROVE  /\ future[q] # "idle"
                      /\ Untouched(q)
                      /\ \A j \in DOMAIN channel' : j # i => ~About(channel'[j], q)
    BY <1>1, <1>5 DEF StartUntouched
  <2>1. i + 1 \in DOMAIN channel /\ channel[i + 1] = Start(q) /\ i \in Nat
    BY <1>2
  <2>2. \A j \in DOMAIN channel' : j # i => j + 1 # i + 1
    BY <1>2
  <2> QED BY <1>2, <2>1, <2>2 DEF IInv, StartUntouched
<1>8. ClearAfterEnd' /\ HandlerOrder' /\ ScanTimeouts' /\ ConnectionsTimeOut'
  BY <1>1, <1>2 DEF IInv, ClearAfterEnd, HandlerOrder, ScanTimeouts, ConnectionsTimeOut
<1>9. \A q \in Requests : channel[1] # Start(q) /\ channel[1] # Answer(q)
  BY <1>1, <1>2, RequestActions DEF StartTypes, AnswerTypes
<1>10. AnswerFirst'
  <2> SUFFICES ASSUME NEW q \in Messages, future[q] = "polling", replies[q] \notin Outcome
               PROVE  /\ \A i \in DOMAIN channel' : channel'[i] = Resolve(q) =>
                           \E j \in DOMAIN channel' : j < i /\ channel'[j] = Answer(q)
                      /\ handler = <<Resolve(q)>> => InChannel(Answer(q))'
    BY <1>1 DEF AnswerFirst
  <2>0. q \in Requests
    BY DEF Requests
  <2>1. ASSUME NEW i \in DOMAIN channel', channel'[i] = Resolve(q)
        PROVE  \E j \in DOMAIN channel' : j < i /\ channel'[j] = Answer(q)
    <3>1. PICK j \in DOMAIN channel : j < i + 1 /\ channel[j] = Answer(q)
      BY <1>2, <2>1 DEF IInv, AnswerFirst
    <3>2. j # 1 /\ j - 1 \in DOMAIN channel' /\ channel'[j - 1] = Answer(q)
      BY <1>3, <1>9, <2>0, <3>1
    <3> QED BY <1>2, <3>1, <3>2
  <2>2. handler = <<Resolve(q)>> => InChannel(Answer(q))'
    BY <1>3, <1>9, <2>0 DEF IInv, AnswerFirst, InChannel
  <2> QED BY <2>1, <2>2
<1>11. AllAttended'
  <2> SUFFICES ASSUME NEW q \in Requests, future[q] = "polling", ~InChannel(Start(q))'
               PROVE  Attended(q)'
    BY <1>1 DEF AllAttended
  <2>1. ~InChannel(Start(q))
    BY <1>3, <1>9 DEF InChannel
  <2>2. Attended(q)
    BY <2>1 DEF IInv, AllAttended
  <2> QED BY <1>1, <2>2 DEF Attended, HasTimeout, Row
<1> QED BY <1>4, <1>6, <1>7, <1>8, <1>10, <1>11 DEF IInv

\* The reductions that are about a request.
LEMMA LoopReduces ==
  ASSUME IInv, ActionLoop
  PROVE  ReduceShutdown \/ \E r \in Requests : Good(r)
<1>1. ASSUME NEW r \in Queries, ReduceQueryAction(r)
      PROVE  r \in Requests /\ Good(r)
  BY <1>1, QueryReduced DEF Requests
<1>2. ASSUME NEW r \in Messages, ReduceMessageAction(r)
      PROVE  r \in Requests /\ Good(r)
  BY <1>2, MessageReduced DEF Requests
<1>3. ASSUME NEW r \in Packages, ReducePackageAction(r)
      PROVE  r \in Requests /\ Good(r)
  BY <1>3, PackageReduced DEF Requests
<1>4. ASSUME NEW r \in Messages \cup Packages, ReduceConnectionAction(r)
      PROVE  r \in Requests /\ Good(r)
  BY <1>4, ConnectionReduced DEF Requests
<1> QED BY <1>1, <1>2, <1>3, <1>4 DEF ActionLoop

\* Every step keeps the invariant.
LEMMA NextIInv ==
  ASSUME IInv, [Next]_vars
  PROVE  IInv'
<1>1. ASSUME NEW r \in Requests, Dispatch(r) PROVE IInv'
  BY <1>1, DispatchKeeps
<1>2. ASSUME NEW r \in Requests, Poll(r) PROVE IInv'
  BY <1>2, PollKeeps
<1>3. ASSUME NEW r \in Requests, HandleResult(r) PROVE IInv'
  BY <1>3, HandleResultKeeps
<1>4. ASSUME NEW r \in Requests, Elapse(r) PROVE IInv'
  BY <1>4, ElapseKeeps
<1>5. CASE Shutdown
  BY <1>5, ShutdownKeeps
<1>6. CASE HandlerDispatch
  BY <1>6, HandlerDispatchKeeps
<1>7. CASE ScanStart
  BY <1>7, ScanStartKeeps
<1>8. CASE ScanStep
  BY <1>8, ScanStepKeeps
<1>9. CASE ActionLoop
  <2>1. ASSUME NEW r \in Requests, Good(r) PROVE IInv'
    BY <2>1, ReductionKeeps DEF Good
  <2> QED BY <1>9, <2>1, LoopReduces, ReduceShutdownKeeps
<1>10. CASE UNCHANGED vars
  BY <1>10 DEF vars, IInv, TypeOK, IdleUntouched, StartUntouched, Untouched, Row,
     ClearAfterEnd, HandlerOrder, AnswerFirst, InChannel, ScanTimeouts, AllAttended,
     Attended, HasTimeout, ConnectionsTimeOut
<1> QED BY <1>1, <1>2, <1>3, <1>4, <1>5, <1>6, <1>7, <1>8, <1>9, <1>10 DEF Next

-----------------------------------------------------------------------------
(* What the invariant says to a caller.                                    *)

\* The inductive invariant holds of every behaviour of the tables, the action
\* loop, the network thread and the timeout job.
THEOREM RequestsInvariance == Spec => []IInv
<1>1. Init => IInv
  BY InitIInv
<1>2. IInv /\ [Next]_vars => IInv'
  BY NextIInv
<1> QED BY <1>1, <1>2, PTL DEF Spec

\* The tables of NetworkState, the channel, the futures, the network thread and
\* the timeout job keep their types.
THEOREM RequestsTypeCorrect == Spec => []TypeOK
<1>1. IInv => TypeOK
  BY DEF IInv
<1> QED BY <1>1, RequestsInvariance, PTL

\* Nobody waits for nothing: a caller whose request was reduced finds an outcome
\* or has a timeout entry, whatever late answers, timeouts and clears do.
THEOREM NobodyStranded == Spec => []NeverStranded
<1>1. IInv => NeverStranded
  BY DEF IInv, AllAttended, Attended, NeverStranded
<1> QED BY <1>1, RequestsInvariance, PTL

\* Every open direct-message connection has its timeout.
THEOREM ConnectionsEnd == Spec => []ConnectionsTimeOut
<1>1. IInv => ConnectionsTimeOut
  BY DEF IInv
<1> QED BY <1>1, RequestsInvariance, PTL

-----------------------------------------------------------------------------
(* The refinement. What a caller observes is its future and its row.       *)

PhaseOf(f) == IF f = "idle" THEN "idle" ELSE IF f = "polling" THEN "open" ELSE "ended"

ValueOf(f, row) ==
  IF f \notin {"idle", "polling"} THEN f
  ELSE IF row \in Outcome THEN row ELSE "none"

\* The phase of a future, without a CASE.
LEMMA PhaseCase ==
  ASSUME NEW f
  PROVE  (CASE f = "idle" -> "idle" [] f = "polling" -> "open" [] OTHER -> "ended")
           = PhaseOf(f)
<1>0. "idle" # "polling"
  OBVIOUS
<1>1. CASE f = "idle"
  BY <1>0, <1>1, Zenon DEF PhaseOf
<1>2. CASE f = "polling"
  BY <1>0, <1>2, Zenon DEF PhaseOf
<1>3. CASE f # "idle" /\ f # "polling"
  BY <1>3, Zenon DEF PhaseOf
<1> QED BY <1>1, <1>2, <1>3, Zenon

\* The refinement mapping, before and after a step.
LEMMA Mapped ==
  /\ phase = [q \in Requests |-> PhaseOf(future[q])]
  /\ phase' = [q \in Requests |-> PhaseOf(future'[q])]
  /\ value = [q \in Requests |-> ValueOf(future[q], Row(q))]
  /\ value' = [q \in Requests |-> ValueOf(future'[q], Row(q)')]
<1>1. phase = [q \in Requests |-> PhaseOf(future[q])]
  BY PhaseCase, Zenon DEF phase
<1>2. phase' = [q \in Requests |-> PhaseOf(future'[q])]
  BY PhaseCase, Zenon DEF phase
<1>3. value = [q \in Requests |-> ValueOf(future[q], Row(q))]
  BY Zenon DEF value, ValueOf
<1>4. value' = [q \in Requests |-> ValueOf(future'[q], Row(q)')]
  BY Zenon DEF value, ValueOf
<1> QED BY <1>1, <1>2, <1>3, <1>4

\* A reduction answers, fails or leaves alone.
LEMMA ReductionPromised ==
  ASSUME IInv, NEW r \in Requests, Good(r)
  PROVE  Promise!Next \/ UNCHANGED <<phase, value>>
<1>1. /\ future' = future /\ future[r] # "idle"
      /\ \A q \in Requests \ {r} : Row(q)' = Row(q)
  BY HeadIsAboutMade DEF Good, Reduces
<1>2. phase' = phase
  BY <1>1, Mapped
<1>3. ASSUME ValueOf(future[r], Row(r)') = ValueOf(future[r], Row(r))
      PROVE  value' = value
  BY <1>1, <1>3, Mapped
<1>4. ASSUME NEW x, ValueOf(future[r], Row(r)') = x
      PROVE  value' = [value EXCEPT ![r] = x]
  BY <1>1, <1>4, Mapped
<1>5. CASE future[r] # "polling"
  BY <1>1, <1>2, <1>3, <1>5 DEF ValueOf
<1>6. CASE future[r] = "polling"
  <2>1. Row(r)' \in {"answer", Row(r)} \/ Row(r) \notin Outcome
    BY <1>6 DEF Good, Settles
  <2>2. phase[r] = "open"
    BY <1>6, Mapped DEF PhaseOf
  <2>3. CASE Row(r)' = "answer"
    <3>1. Promise!Answer(r)
      BY <1>2, <1>4, <1>6, <2>2, <2>3 DEF Promise!Answer, ValueOf, Outcome
    <3> QED BY <3>1 DEF Promise!Next
  <2>4. CASE Row(r)' = Row(r)
    BY <1>2, <1>3, <2>4
  <2>5. CASE Row(r) \notin Outcome /\ Row(r)' \notin Outcome
    BY <1>2, <1>3, <1>6, <2>5 DEF ValueOf
  <2>6. CASE Row(r) \notin Outcome /\ Row(r)' \in {"timeout", "error"}
    <3>1. value[r] = "none"
      BY <1>6, <2>6, Mapped DEF ValueOf
    <3>2. value' = [value EXCEPT ![r] = Row(r)']
      BY <1>4, <1>6, <2>6 DEF ValueOf, Outcome
    <3>3. Promise!Fail(r)
      BY <1>2, <2>2, <2>6, <3>1, <3>2 DEF Promise!Fail, Promise!Failure
    <3> QED BY <3>3 DEF Promise!Next
  <2> QED BY <2>1, <2>3, <2>4, <2>5, <2>6 DEF Outcome
<1> QED BY <1>5, <1>6

\* A request is submitted.
LEMMA DispatchPromised ==
  ASSUME IInv, NEW r \in Requests, Dispatch(r)
  PROVE  Promise!Next
<1>1. /\ future[r] = "idle" /\ future' = [future EXCEPT ![r] = "polling"]
      /\ results' = results /\ replies' = replies
  BY DEF Dispatch, tables
<1>2. /\ \A q \in Requests : future'[q] = IF q = r THEN "polling" ELSE future[q]
      /\ \A q \in Requests : Row(q)' = Row(q)
  BY <1>1 DEF IInv, TypeOK, Row
<1>3. phase[r] = "idle" /\ phase' = [phase EXCEPT ![r] = "open"]
  BY <1>1, <1>2, Mapped DEF PhaseOf
<1>4. value' = value
  BY <1>1, <1>2, Mapped DEF ValueOf
<1> QED BY <1>3, <1>4 DEF Promise!Next, Promise!Submit

\* A caller looks: at the outcome that stands, or at a network that is gone.
LEMMA PollPromised ==
  ASSUME IInv, NEW r \in Requests, Poll(r)
  PROVE  Promise!Next
<1>1. /\ future[r] = "polling" /\ results' = results /\ replies' = replies
  BY DEF Poll, tables
<1>2. \A q \in Requests : Row(q)' = Row(q)
  BY <1>1 DEF Row
<1>3. phase[r] = "open"
  BY <1>1, Mapped DEF PhaseOf
<1>4. CASE future' = [future EXCEPT ![r] = "offline"]
  <2>1. \A q \in Requests : future'[q] = IF q = r THEN "offline" ELSE future[q]
    BY <1>4 DEF IInv, TypeOK
  <2>2. phase' = [phase EXCEPT ![r] = "ended"]
    BY <2>1, Mapped DEF PhaseOf
  <2>3. value' = [value EXCEPT ![r] = "offline"]
    BY <1>2, <2>1, Mapped DEF ValueOf
  <2> QED BY <1>3, <2>2, <2>3 DEF Promise!Next, Promise!Abandon
<1>5. CASE Row(r) \in Outcome /\ future' = [future EXCEPT ![r] = Row(r)]
  <2>1. \A q \in Requests : future'[q] = IF q = r THEN Row(r) ELSE future[q]
    BY <1>5 DEF IInv, TypeOK
  <2>2. phase' = [phase EXCEPT ![r] = "ended"]
    BY <1>5, <2>1, Mapped DEF PhaseOf, Outcome
  <2>3. value[r] = Row(r) /\ value[r] # "none"
    BY <1>1, <1>5, Mapped DEF ValueOf, Outcome
  <2>4. value' = value
    BY <1>1, <1>2, <1>5, <2>1, Mapped DEF ValueOf, Outcome
  <2> QED BY <1>3, <2>2, <2>3, <2>4 DEF Promise!Next, Promise!End
<1> QED BY <1>4, <1>5 DEF Poll

\* A step that leaves the futures and the rows alone is not observed.
LEMMA UnseenPromised ==
  ASSUME UNCHANGED <<future, results, replies>>
  PROVE  UNCHANGED <<phase, value>>
<1>1. \A q \in Requests : Row(q)' = Row(q)
  BY DEF Row
<1> QED BY <1>1, Mapped

\* Every step is a step of RequestPromise or not observed.
LEMMA NextPromised ==
  ASSUME IInv, [Next]_vars
  PROVE  [Promise!Next]_(Promise!vars)
<1> SUFFICES Promise!Next \/ UNCHANGED <<phase, value>>
  BY DEF Promise!vars
<1>1. ASSUME NEW r \in Requests, Dispatch(r) PROVE Promise!Next
  BY <1>1, DispatchPromised
<1>2. ASSUME NEW r \in Requests, Poll(r) PROVE Promise!Next
  BY <1>2, PollPromised
<1>3. ASSUME NEW r \in Requests, HandleResult(r) \/ Elapse(r)
      PROVE  UNCHANGED <<future, results, replies>>
  BY <1>3 DEF HandleResult, Elapse, tables
<1>4. ASSUME Shutdown \/ HandlerDispatch \/ ScanStart \/ ScanStep \/ ReduceShutdown
      PROVE  UNCHANGED <<future, results, replies>>
  BY <1>4 DEF Shutdown, HandlerDispatch, ScanStart, ScanStep, ReduceShutdown, tables
<1>5. ASSUME ActionLoop, ~ReduceShutdown
      PROVE  Promise!Next \/ UNCHANGED <<phase, value>>
  BY <1>5, LoopReduces, ReductionPromised
<1>6. CASE UNCHANGED vars
  BY <1>6, UnseenPromised DEF vars
<1> QED BY <1>1, <1>2, <1>3, <1>4, <1>5, <1>6, UnseenPromised DEF Next

\* The tables implement RequestPromise: an answer that was reduced is what the
\* caller gets even when a timeout of the same request is under way, and no
\* outcome is taken back before the caller has seen it.
THEOREM RequestsKeepPromise == Spec => KeepsPromise
<1>1. Init => Promise!Init
  <2> SUFFICES ASSUME Init PROVE Promise!Init
    OBVIOUS
  <2>1. \A q \in Requests : future[q] = "idle" /\ Row(q) = "absent"
    BY DEF Init, Row, Requests
  <2> QED BY <2>1, Mapped DEF Promise!Init, PhaseOf, ValueOf, Outcome
<1>2. IInv /\ [Next]_vars => [Promise!Next]_(Promise!vars)
  BY NextPromised
<1> QED BY <1>1, <1>2, RequestsInvariance, PTL DEF Spec, KeepsPromise, Promise!Spec
=============================================================================
