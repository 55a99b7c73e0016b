--------------------------- MODULE NetworkRequests ---------------------------
(***************************************************************************)
(* The requests a holochain instance makes of the network: DHT queries     *)
(* (get entry, get links), custom direct messages and requests for a       *)
(* validation package. Each is an action, a row in a table of NetworkState *)
(* and a future that polls that row. Four kinds of actors work on it:      *)
(*   - the callers: a zome call or workflow that dispatches the request    *)
(*     and polls its future until it is ready, then dispatches a Clear;    *)
(*   - the action loop, which reduces one action of the channel at a time; *)
(*   - the network thread, which turns what comes in into actions, after a *)
(*     look at the state; the network loses, delays and repeats answers;   *)
(*   - the timeout job, which walks a clone of the state once a second and *)
(*     dispatches a timeout for every overdue row.                         *)
(* A package request sends a direct message of its own; the id of that     *)
(* message is identified with the request.                                 *)
(* NetworkState::validation_cache, which is written and never read, is     *)
(* left out.                                                               *)
(***************************************************************************)
EXTENDS Naturals, Sequences

CONSTANTS
  Queries,       \* QueryKey: each query has a fresh id
  Messages,      \* message ids of custom direct messages
  Packages,      \* ValidationKey: each package request has a fresh id
  MaxCalls,      \* bound: requests and shutdowns called for
  MaxAnswers,    \* bound: answers the network delivers for one request
  MaxChannel     \* bound: the timeout job starts only below this channel length

ASSUME KindAssumption ==
  /\ Queries \cap Messages = {}
  /\ Queries \cap Packages = {}
  /\ Messages \cap Packages = {}

ASSUME BoundAssumption == {MaxCalls, MaxAnswers, MaxChannel} \subseteq Nat

VARIABLES
  results,          \* get_query_results, get_validation_package_results
  timeouts,         \* query_timeouts, get_validation_package_timeouts
  replies,          \* custom_direct_message_replys
  connections,      \* direct_message_connections
  messageTimeouts,  \* direct_message_timeouts
  online,           \* NetworkState::initialized()
  channel,          \* the redux action channel
  future,           \* of each request: not made, polled, or its outcome
  sent,             \* requests that were handed to the network
  answers,          \* of each request: how many answers were delivered
  handler,          \* what the network thread is about to dispatch
  expired,          \* requests whose timeout has elapsed
  scan,             \* timeout actions the job still has to consider
  calls             \* counter for the bound

tables == <<results, timeouts, replies, connections, messageTimeouts>>
network == <<sent, answers, handler>>
job == <<expired, scan>>
vars == <<results, timeouts, replies, connections, messageTimeouts, online,
          channel, future, sent, answers, handler, expired, scan, calls>>

-----------------------------------------------------------------------------
Requests == Queries \cup Messages \cup Packages

Outcome == {"answer", "timeout", "error"}

\* "absent" is a missing key, "waiting" a key with value None.
Result == {"absent", "waiting"} \cup Outcome

\* A future ends with the outcome it found, or "offline" when the network is
\* no longer initialized.
Future == {"idle", "polling", "offline"} \cup Outcome

QueryActions == {"Query", "QueryTimeout", "HandleQuery", "ClearQueryResult"}
MessageActions == {"SendDirectMessage", "HandleCustomSendResponse",
                   "ClearCustomSendResponse"}
PackageActions == {"GetValidationPackage", "GetValidationPackageTimeout",
                   "HandleGetValidationPackage", "ClearValidationPackageResult"}
ConnectionActions == {"SendDirectMessageTimeout", "ResolveDirectConnection"}

Actions ==
  [type : QueryActions, req : Queries]
  \cup [type : MessageActions, req : Messages]
  \cup [type : PackageActions, req : Packages]
  \cup [type : ConnectionActions, req : Messages \cup Packages]
  \cup [type : {"ShutdownNetwork"}]

Act(type, r) == [type |-> type, req |-> r]

\* The three of everything: what starts, answers, times out and clears a request.
Start(r) == Act(CASE r \in Queries -> "Query"
                  [] r \in Messages -> "SendDirectMessage"
                  [] OTHER -> "GetValidationPackage", r)
Answer(r) == Act(CASE r \in Queries -> "HandleQuery"
                   [] r \in Messages -> "HandleCustomSendResponse"
                   [] OTHER -> "HandleGetValidationPackage", r)
\* Mutant: the package future clears a query result.
ClearOther(r) == Act(IF r \in Messages THEN "ClearCustomSendResponse"
                     ELSE "ClearQueryResult", r)

Clear(r) == Act(CASE r \in Queries -> "ClearQueryResult"
                  [] r \in Messages -> "ClearCustomSendResponse"
                  [] OTHER -> "ClearValidationPackageResult", r)

\* The row a future looks at.
Row(r) == IF r \in Messages THEN replies[r] ELSE results[r]

-----------------------------------------------------------------------------
(* The callers: query, custom_send and get_validation_package.             *)

Dispatch(r) ==
  /\ calls < MaxCalls
  /\ calls' = calls + 1
  /\ future[r] = "idle"
  /\ future' = [future EXCEPT ![r] = "polling"]
  /\ channel' = Append(channel, Start(r))
  /\ UNCHANGED <<tables, online, network, job>>

\* poll of QueryFuture, SendResponseFuture, GetValidationPackageFuture: an
\* uninitialized network ends the future before the row is looked at.
Poll(r) ==
  /\ future[r] = "polling"
  /\ \/ /\ ~online
        /\ future' = [future EXCEPT ![r] = "offline"]
        /\ UNCHANGED channel
     \/ /\ online
        /\ Row(r) \in Outcome
        /\ future' = [future EXCEPT ![r] = Row(r)]
        /\ channel' = Append(channel, Clear(r))
  /\ UNCHANGED <<tables, online, network, job, calls>>

\* shutdown of the instance
Shutdown ==
  /\ calls < MaxCalls
  /\ calls' = calls + 1
  /\ online
  /\ channel' = Append(channel, [type |-> "ShutdownNetwork"])
  /\ UNCHANGED <<tables, online, future, network, job>>

-----------------------------------------------------------------------------
(* The network thread. What answers a message or a package request is      *)
(* looked up among the open connections; what answers a query is not.      *)

HandleResult(r) ==
  /\ online
  /\ r \in sent
  /\ handler = << >>
  /\ answers[r] < MaxAnswers
  /\ answers' = [answers EXCEPT ![r] = @ + 1]
  /\ handler' = IF r \in Queries THEN <<Answer(r)>>
                ELSE IF r \in connections
                     THEN <<Answer(r), Act("ResolveDirectConnection", r)>>
                     ELSE << >>
  /\ UNCHANGED <<tables, online, channel, future, sent, job, calls>>

HandlerDispatch ==
  /\ handler # << >>
  /\ channel' = Append(channel, Head(handler))
  /\ handler' = Tail(handler)
  /\ UNCHANGED <<tables, online, future, sent, answers, job, calls>>

-----------------------------------------------------------------------------
(* The timeout job: check_network_processes_for_timeouts walks three maps  *)
(* of a clone of the state in turn and dispatches for the overdue keys.    *)

\* Time is only looked at for the rows of a timeout table or of a running job.
Elapse(r) ==
  /\ r \in timeouts \cup messageTimeouts \cup {a.req : a \in scan}
  /\ r \notin expired
  /\ expired' = expired \cup {r}
  /\ UNCHANGED <<tables, online, channel, future, network, scan, calls>>

\* Mutant: the job forgets the package requests.
ScanStartNoPackages ==
  /\ scan = {}
  /\ Len(channel) < MaxChannel
  /\ scan' = {Act("QueryTimeout", r) : r \in timeouts \cap Queries}
             \cup {Act("SendDirectMessageTimeout", r) : r \in messageTimeouts}
  /\ scan' # {}
  /\ UNCHANGED <<tables, online, channel, future, network, expired, calls>>

ScanStart ==
  /\ scan = {}
  /\ Len(channel) < MaxChannel
  /\ scan' = {Act("QueryTimeout", r) : r \in timeouts \cap Queries}
             \cup {Act("SendDirectMessageTimeout", r) : r \in messageTimeouts}
             \cup {Act("GetValidationPackageTimeout", r) :
                     r \in timeouts \cap Packages}
  /\ scan' # {}
  /\ UNCHANGED <<tables, online, channel, future, network, expired, calls>>

ScanOrder(a) ==
  CASE a.type = "QueryTimeout" -> 1
    [] a.type = "SendDirectMessageTimeout" -> 2
    [] OTHER -> 3

ScanStep ==
  /\ \E a \in scan :
       /\ \A b \in scan : ScanOrder(a) =< ScanOrder(b)
       /\ scan' = scan \ {a}
       /\ channel' = IF a.req \in expired THEN Append(channel, a) ELSE channel
  /\ UNCHANGED <<tables, online, future, network, expired, calls>>

-----------------------------------------------------------------------------
(* The action loop: one reducer per action. ok tells whether the worker    *)
(* took the message.                                                       *)

Reduce(type, r) ==
  /\ channel # << >>
  /\ Head(channel) = Act(type, r)
  /\ channel' = Tail(channel)
  /\ UNCHANGED <<future, answers, handler, job, calls>>

\* send: needs an initialized network and may fail.
Sends(ok, r) ==
  /\ ok => online
  /\ sent' = IF ok THEN sent \cup {r} ELSE sent

ReduceQuery(r) ==
  /\ Reduce("Query", r)
  /\ \E ok \in BOOLEAN :
       /\ Sends(ok, r)
       /\ results' = [results EXCEPT ![r] = IF ok THEN "waiting" ELSE "error"]
  /\ timeouts' = timeouts \cup {r}
  /\ UNCHANGED <<replies, connections, messageTimeouts, online>>

\* Mutant: the timeout of a query does not look whether it was answered.
ReduceQueryTimeoutBlind(r) ==
  /\ Reduce("QueryTimeout", r)
  /\ timeouts' = timeouts \ {r}
  /\ results' = [results EXCEPT ![r] = "timeout"]
  /\ UNCHANGED <<replies, connections, messageTimeouts, online, sent>>

ReduceQueryTimeout(r) ==
  /\ Reduce("QueryTimeout", r)
  /\ timeouts' = timeouts \ {r}
  /\ results' = [results EXCEPT ![r] = IF @ = "waiting" THEN "timeout" ELSE @]
  /\ UNCHANGED <<replies, connections, messageTimeouts, online, sent>>

ReduceHandleQuery(r) ==
  /\ Reduce("HandleQuery", r)
  /\ results' = [results EXCEPT ![r] = "answer"]
  /\ timeouts' = timeouts \ {r}
  /\ UNCHANGED <<replies, connections, messageTimeouts, online, sent>>

ReduceClearQueryResult(r) ==
  /\ Reduce("ClearQueryResult", r)
  /\ results' = [results EXCEPT ![r] = "absent"]
  /\ UNCHANGED <<timeouts, replies, connections, messageTimeouts, online, sent>>

\* Mutant: the timeout is set only if the message could be sent.
ReduceSendDirectMessageIfSent(r) ==
  /\ Reduce("SendDirectMessage", r)
  /\ \E ok \in BOOLEAN :
       /\ Sends(ok, r)
       /\ messageTimeouts' = IF ok THEN messageTimeouts \cup {r}
                                   ELSE messageTimeouts
  /\ connections' = IF online THEN connections \cup {r} ELSE connections
  /\ UNCHANGED <<results, timeouts, replies, online>>

\* The connection is opened before the send, whose failure is only logged.
ReduceSendDirectMessage(r) ==
  /\ Reduce("SendDirectMessage", r)
  /\ messageTimeouts' = messageTimeouts \cup {r}
  /\ connections' = IF online THEN connections \cup {r} ELSE connections
  /\ \E ok \in BOOLEAN : Sends(ok, r)
  /\ UNCHANGED <<results, timeouts, replies, online>>

\* Mutant: a timeout forgets the open connection.
ReduceSendDirectMessageTimeoutOnly(r) ==
  /\ Reduce("SendDirectMessageTimeout", r)
  /\ messageTimeouts' = messageTimeouts \ {r}
  /\ replies' = [replies EXCEPT ![r] = IF @ = "absent" THEN "timeout" ELSE @]
  /\ UNCHANGED <<results, timeouts, connections, online, sent>>

ReduceSendDirectMessageTimeout(r) ==
  /\ Reduce("SendDirectMessageTimeout", r)
  /\ messageTimeouts' = messageTimeouts \ {r}
  /\ connections' = connections \ {r}
  /\ replies' = [replies EXCEPT ![r] = IF @ = "absent" THEN "timeout" ELSE @]
  /\ UNCHANGED <<results, timeouts, online, sent>>

ReduceHandleCustomSendResponse(r) ==
  /\ Reduce("HandleCustomSendResponse", r)
  /\ replies' = [replies EXCEPT ![r] = "answer"]
  /\ UNCHANGED <<results, timeouts, connections, messageTimeouts, online, sent>>

ReduceResolveDirectConnection(r) ==
  /\ Reduce("ResolveDirectConnection", r)
  /\ connections' = connections \ {r}
  /\ messageTimeouts' = messageTimeouts \ {r}
  /\ UNCHANGED <<results, timeouts, replies, online, sent>>

ReduceClearCustomSendResponse(r) ==
  /\ Reduce("ClearCustomSendResponse", r)
  /\ replies' = [replies EXCEPT ![r] = "absent"]
  /\ UNCHANGED <<results, timeouts, connections, messageTimeouts, online, sent>>

\* send_message records the connection and its timeout only after the send.
ReduceGetValidationPackage(r) ==
  /\ Reduce("GetValidationPackage", r)
  /\ \E ok \in BOOLEAN :
       /\ Sends(ok, r)
       /\ results' = [results EXCEPT ![r] = IF ok THEN "waiting" ELSE "error"]
       /\ connections' = IF ok THEN connections \cup {r} ELSE connections
       /\ messageTimeouts' = IF ok THEN messageTimeouts \cup {r}
                                   ELSE messageTimeouts
  /\ timeouts' = timeouts \cup {r}
  /\ UNCHANGED <<replies, online>>

\* Unlike a query's, this timeout inserts a result when there is none.
ReduceGetValidationPackageTimeout(r) ==
  /\ Reduce("GetValidationPackageTimeout", r)
  /\ timeouts' = timeouts \ {r}
  /\ results' = [results EXCEPT ![r] = IF @ \in Outcome THEN @ ELSE "timeout"]
  /\ UNCHANGED <<replies, connections, messageTimeouts, online, sent>>

ReduceHandleGetValidationPackage(r) ==
  /\ Reduce("HandleGetValidationPackage", r)
  /\ results' = [results EXCEPT ![r] = "answer"]
  /\ UNCHANGED <<timeouts, replies, connections, messageTimeouts, online, sent>>

ReduceClearValidationPackageResult(r) ==
  /\ Reduce("ClearValidationPackageResult", r)
  /\ results' = [results EXCEPT ![r] = "absent"]
  /\ timeouts' = timeouts \ {r}
  /\ UNCHANGED <<replies, connections, messageTimeouts, online, sent>>

\* reduce_shutdown takes the network out of the state.
ReduceShutdown ==
  /\ channel # << >>
  /\ Head(channel) = [type |-> "ShutdownNetwork"]
  /\ channel' = Tail(channel)
  /\ online' = FALSE
  /\ UNCHANGED <<tables, future, network, job, calls>>

ReduceQueryAction(r) ==
  \/ ReduceQuery(r)
  \/ ReduceQueryTimeout(r)
  \/ ReduceHandleQuery(r)
  \/ ReduceClearQueryResult(r)

ReduceMessageAction(r) ==
  \/ ReduceSendDirectMessage(r)
  \/ ReduceHandleCustomSendResponse(r)
  \/ ReduceClearCustomSendResponse(r)

ReducePackageAction(r) ==
  \/ ReduceGetValidationPackage(r)
  \/ ReduceGetValidationPackageTimeout(r)
  \/ ReduceHandleGetValidationPackage(r)
  \/ ReduceClearValidationPackageResult(r)

ReduceConnectionAction(r) ==
  \/ ReduceSendDirectMessageTimeout(r)
  \/ ReduceResolveDirectConnection(r)

ActionLoop ==
  \/ \E r \in Queries : ReduceQueryAction(r)
  \/ \E r \in Messages : ReduceMessageAction(r)
  \/ \E r \in Packages : ReducePackageAction(r)
  \/ \E r \in Messages \cup Packages : ReduceConnectionAction(r)
  \/ ReduceShutdown

-----------------------------------------------------------------------------
\* NetworkState::new, then initialized by InitNetwork.
Init ==
  /\ results = [r \in Queries \cup Packages |-> "absent"]
  /\ timeouts = {}
  /\ replies = [r \in Messages \cup Packages |-> "absent"]
  /\ connections = {}
  /\ messageTimeouts = {}
  /\ online = TRUE
  /\ channel = << >>
  /\ future = [r \in Requests |-> "idle"]
  /\ sent = {}
  /\ answers = [r \in Requests |-> 0]
  /\ handler = << >>
  /\ expired = {}
  /\ scan = {}
  /\ calls = 0

Next ==
  \/ \E r \in Requests : Dispatch(r) \/ Poll(r) \/ HandleResult(r) \/ Elapse(r)
  \/ Shutdown
  \/ HandlerDispatch
  \/ ScanStart
  \/ ScanStep
  \/ ActionLoop

Spec == Init /\ [][Next]_vars

\* The action loop, the network thread and the scheduler run on threads of
\* their own; time passes; and a pending future is polled again after every
\* action and at least every 10 ms by block_on. The network owes no answer.
Fairness ==
  /\ WF_vars(ActionLoop)
  /\ WF_vars(HandlerDispatch)
  /\ WF_vars(ScanStart)
  /\ WF_vars(ScanStep)
  /\ \A r \in Requests : WF_vars(Elapse(r)) /\ WF_vars(Poll(r))

FairSpec == Spec /\ Fairness

-----------------------------------------------------------------------------
\* The tables of NetworkState, the channel and the futures have their types: a
\* reply is never left waiting, and what is in a table was asked for as such.
TypeOK ==
  /\ results \in [Queries \cup Packages -> Result]
  /\ timeouts \subseteq Queries \cup Packages
  /\ replies \in [Messages \cup Packages -> Result \ {"waiting", "error"}]
  /\ connections \subseteq Messages \cup Packages
  /\ messageTimeouts \subseteq Messages \cup Packages
  /\ online \in BOOLEAN
  /\ channel \in Seq(Actions)
  /\ future \in [Requests -> Future]
  /\ sent \subseteq Requests
  /\ answers \in [Requests -> Nat]
  /\ handler \in Seq(Actions)
  /\ expired \subseteq Requests
  /\ scan \subseteq Actions
  /\ calls \in Nat

InChannel(a) == \E i \in DOMAIN channel : channel[i] = a

\* The timeout that ends the wait for a request: of its row, or of its message.
HasTimeout(r) == r \in (IF r \in Messages THEN messageTimeouts ELSE timeouts)

\* Nobody waits for nothing: a caller that polls a request which the action
\* loop has taken either finds an outcome or has a timeout entry for the job to
\* find, whatever the network thread, the job and late actions did to the
\* tables in between.
NeverStranded ==
  \A r \in Requests :
    future[r] = "polling" /\ ~InChannel(Start(r))
      => Row(r) \in Outcome \/ HasTimeout(r)

\* An open connection has its timeout: what opens, resolves and times out a
\* direct message keeps direct_message_connections within
\* direct_message_timeouts, so the job closes every connection that gets no
\* answer.
ConnectionsTimeOut == connections \subseteq messageTimeouts

\* What a caller observes of the tables is RequestPromise.
phase ==
  [r \in Requests |-> CASE future[r] = "idle" -> "idle"
                        [] future[r] = "polling" -> "open"
                        [] OTHER -> "ended"]
value ==
  [r \in Requests |-> IF future[r] \notin {"idle", "polling"} THEN future[r]
                      ELSE IF Row(r) \in Outcome THEN Row(r) ELSE "none"]

Promise == INSTANCE RequestPromise WITH phase <- phase, value <- value

\* The tables implement RequestPromise: an answer that was reduced is what the
\* caller gets even when a timeout of the same request is already under way
\* (reduce_query_timeout and its siblings leave it alone), and no outcome is
\* taken back before the caller has seen it.
KeepsPromise == Promise!Spec

\* Every future ends: with an answer, an error or a timeout, also when the
\* network never answers, when the send fails and when the network goes down.
EveryFutureEnds ==
  \A r \in Requests : future[r] = "polling" ~> future[r] # "polling"
=============================================================================
