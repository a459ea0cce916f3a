---------------------------- MODULE OracleChannel ----------------------------
(***************************************************************************)
(* The read channel between the update-control Worker and the Oracle host: *)
(* UpdateControlOracleChannel (update-control-worker/src/oracle-channel.ts)*)
(* holds the server end of a WebSocket and the calls waiting for an answer *)
(* on it; OracleChannelConnector (oracle-release-orchestrator/src/         *)
(* oracle-channel-connector.ts) dials it, reads the local API for every    *)
(* request and answers.                                                    *)
(*                                                                         *)
(* The network delivers in order on one connection.  It may lose the       *)
(* connection at any time, the two ends learn of it separately, and a      *)
(* handshake may arrive after the connector stopped waiting for it.  An    *)
(* identifier in Rpcs or Sockets is used again once nothing of its last    *)
(* use is left.                                                            *)
(***************************************************************************)
EXTENDS Naturals, Sequences, FiniteSets

CONSTANTS
    Rpcs,           \* the request ids of the calls under way at one time
    Sockets,        \* the connections that exist at one time
    NoSocket,
    MaxInFlight     \* ORACLE_CHANNEL_MAX_IN_FLIGHT, one limit for both ends

ASSUME ChannelAssumption ==
    /\ NoSocket \notin Sockets
    /\ IsFiniteSet(Rpcs)
    /\ MaxInFlight \in Nat \ {0}

VARIABLES
    pending,    \* Worker: the socket each waiting call was sent on
    answer,     \* the response the caller of each request got
    server,     \* Worker: the state of its end of each socket
    client,     \* connector: the readyState of its end of each socket
    active,     \* connector: activeSocket
    inFlight,   \* connector: the socket each read in progress came from
    running,    \* connector: run() is in its loop
    down, up    \* the frames on their way to the connector, to the Worker

workerVars == <<pending, answer, server>>
connectorVars == <<client, active, inFlight, running>>
vars == <<workerVars, connectorVars, down, up>>

\* The outcomes of a response frame.
Outcomes == {"success", "RUN_NOT_FOUND", "UPDATE_ORCHESTRATOR_UNAVAILABLE"}
Responses == Outcomes \cup {"transport_timeout", "oracle_unavailable", "oracle_channel_busy"}

Frame == [rpc : Rpcs, outcome : Outcomes]

Init ==
    /\ pending = [r \in Rpcs |-> NoSocket]
    /\ answer = [r \in Rpcs |-> "none"]
    /\ server = [s \in Sockets |-> "closed"]
    /\ client = [s \in Sockets |-> "closed"]
    /\ active = NoSocket
    /\ inFlight = [r \in Rpcs |-> NoSocket]
    /\ running = TRUE
    /\ down = [s \in Sockets |-> <<>>]
    /\ up = [s \in Sockets |-> <<>>]
-----------------------------------------------------------------------------
(* The deadlines, in milliseconds, of a wait_events for some seconds.      *)

Smaller(a, b) == IF a <= b THEN a ELSE b
Larger(a, b) == IF a >= b THEN a ELSE b

RpcTimeoutFor(seconds) == Smaller(20000, seconds * 1000 + 5000)

OracleReadApiDeadlineMs(seconds) == Smaller(18000, Larger(4000, seconds * 1000 + 3000))
-----------------------------------------------------------------------------
(* The Worker.                                                             *)

\* The sockets getWebSockets returns that are in readyState OPEN.
OpenSockets == {s \in Sockets : server[s] = "open"}

Waiting == {r \in Rpcs : pending[r] # NoSocket}

\* finish: the caller gets its response, once.
Finish(r, response) ==
    /\ pending' = [pending EXCEPT ![r] = NoSocket]
    /\ answer' = [answer EXCEPT ![r] = response]

\* failPendingForSocket, for every socket of S.
FailPendingForSockets(S) ==
    /\ pending' = [r \in Rpcs |-> IF pending[r] \in S THEN NoSocket ELSE pending[r]]
    /\ answer' = [r \in Rpcs |-> IF pending[r] \in S THEN "oracle_unavailable" ELSE answer[r]]

\* The Worker closes its end of the sockets of S: what is still to arrive on them
\* is for nobody.
ProtocolViolation(S) ==
    /\ FailPendingForSockets(S)
    /\ server' = [s \in Sockets |-> IF s \in S THEN "closed" ELSE server[s]]
    /\ up' = [s \in Sockets |-> IF s \in S THEN <<>> ELSE up[s]]

\* Mutant: the previous connections stay.
ConnectOracleBeside(s) ==
    /\ server[s] = "requested"
    /\ server' = [server EXCEPT ![s] = "open"]
    /\ UNCHANGED <<pending, answer, connectorVars, down, up>>

\* Mutant: the previous connections are closed and their calls are left waiting.
ConnectOracleForgetting(s) ==
    /\ server[s] = "requested"
    /\ server' = [t \in Sockets |->
                    IF t = s THEN "open" ELSE IF t \in OpenSockets THEN "closed" ELSE server[t]]
    /\ up' = [t \in Sockets |-> IF t \in OpenSockets THEN <<>> ELSE up[t]]
    /\ UNCHANGED <<pending, answer, connectorVars, down>>

\* Mutant: while a connection is open another one is refused.
ConnectOracleRefusing(s) ==
    /\ server[s] = "requested"
    /\ server' = [server EXCEPT ![s] = IF OpenSockets = {} THEN "open" ELSE "closed"]
    /\ UNCHANGED <<pending, answer, connectorVars, down, up>>

\* connectOracle, from its last await on: the previous connections fail their
\* calls and are closed, the new one is accepted.
ConnectOracle(s) ==
    /\ server[s] = "requested"
    /\ FailPendingForSockets(OpenSockets)
    /\ server' = [t \in Sockets |->
                    IF t = s THEN "open" ELSE IF t \in OpenSockets THEN "closed" ELSE server[t]]
    /\ up' = [t \in Sockets |-> IF t \in OpenSockets THEN <<>> ELSE up[t]]
    /\ UNCHANGED <<connectorVars, down>>

\* A randomUUID: nothing of another call's is about.
FreshId(r) ==
    /\ pending[r] = NoSocket /\ inFlight[r] = NoSocket
    /\ \A s \in Sockets : /\ \A i \in 1..Len(down[s]) : down[s][i] # r
                          /\ \A i \in 1..Len(up[s]) : up[s][i].rpc # r

\* handleRpc when getActiveOracleSocket finds other than one open socket.
RpcUnavailable(r) ==
    /\ Cardinality(OpenSockets) # 1
    /\ server' = [s \in Sockets |-> IF s \in OpenSockets THEN "closed" ELSE server[s]]
    /\ pending' = [q \in Rpcs |-> IF pending[q] \in OpenSockets THEN NoSocket ELSE pending[q]]
    /\ answer' = [q \in Rpcs |-> IF q = r \/ pending[q] \in OpenSockets
                                 THEN "oracle_unavailable" ELSE answer[q]]
    /\ up' = [s \in Sockets |-> IF s \in OpenSockets THEN <<>> ELSE up[s]]
    /\ UNCHANGED down

RpcBusy(r) ==
    /\ Cardinality(OpenSockets) = 1 /\ Cardinality(Waiting) >= MaxInFlight
    /\ answer' = [answer EXCEPT ![r] = "oracle_channel_busy"]
    /\ UNCHANGED <<pending, server, down, up>>

\* socket.send throws and finish takes the call back.
RpcSendFails(r) ==
    /\ Cardinality(OpenSockets) = 1 /\ Cardinality(Waiting) < MaxInFlight
    /\ answer' = [answer EXCEPT ![r] = "oracle_unavailable"]
    /\ UNCHANGED <<pending, server, down, up>>

\* A frame to an end that is gone is lost.
RpcSent(r) ==
    /\ Cardinality(OpenSockets) = 1 /\ Cardinality(Waiting) < MaxInFlight
    /\ \E s \in OpenSockets :
        /\ pending' = [pending EXCEPT ![r] = s]
        /\ answer' = [answer EXCEPT ![r] = "waiting"]
        /\ down' = [down EXCEPT ![s] = IF client[s] = "closed" THEN @ ELSE Append(@, r)]
    /\ UNCHANGED <<server, up>>

HandleRpc(r) ==
    /\ FreshId(r)
    /\ RpcUnavailable(r) \/ RpcBusy(r) \/ RpcSendFails(r) \/ RpcSent(r)
    /\ UNCHANGED connectorVars

\* Mutant: the timer leaves a call alone while its socket is open.
RpcTimeoutOnClose(r) ==
    /\ pending[r] # NoSocket /\ server[pending[r]] # "open"
    /\ Finish(r, "transport_timeout")
    /\ UNCHANGED <<server, connectorVars, down, up>>

\* The call's timer fires.
RpcTimeout(r) ==
    /\ pending[r] # NoSocket
    /\ Finish(r, "transport_timeout")
    /\ UNCHANGED <<server, connectorVars, down, up>>

\* webSocketMessage.  A response nobody waits for on this socket closes it.
WebSocketMessage(s) ==
    /\ server[s] = "open" /\ up[s] # <<>>
    /\ LET frame == Head(up[s]) IN
        \/ /\ pending[frame.rpc] # s
           /\ ProtocolViolation({s})
        \/ /\ pending[frame.rpc] = s
           /\ Finish(frame.rpc, frame.outcome)
           /\ up' = [up EXCEPT ![s] = Tail(@)]
           /\ UNCHANGED server
    /\ UNCHANGED <<connectorVars, down>>

\* webSocketClose, webSocketError.  An eviction of the Durable Object has the same
\* effect: its sockets are cut and its callers' fetches throw.
WebSocketClose(s) ==
    /\ server[s] = "open"
    /\ ProtocolViolation({s})
    /\ UNCHANGED <<connectorVars, down>>

\* The handshake of a connector that gave up never arrives, or is refused.
HandshakeLost(s) ==
    /\ server[s] = "requested" /\ client[s] = "closed"
    /\ server' = [server EXCEPT ![s] = "closed"]
    /\ UNCHANGED <<pending, answer, connectorVars, down, up>>
-----------------------------------------------------------------------------
(* The connector.                                                          *)

Reading == {r \in Rpcs : inFlight[r] # NoSocket}

AbortReadsForSocket(s) ==
    inFlight' = [r \in Rpcs |-> IF inFlight[r] = s THEN NoSocket ELSE inFlight[r]]

\* connectOnce dials.
Dial(s) ==
    /\ running /\ active = NoSocket
    /\ client[s] = "closed" /\ server[s] = "closed"
    /\ client' = [client EXCEPT ![s] = "connecting"]
    /\ server' = [server EXCEPT ![s] = "requested"]
    /\ active' = s
    /\ UNCHANGED <<pending, answer, inFlight, running, down, up>>

OnOpen(s) ==
    /\ client[s] = "connecting" /\ server[s] # "requested"
    /\ client' = [client EXCEPT ![s] = "open"]
    /\ UNCHANGED <<workerVars, active, inFlight, running, down, up>>

\* Mutant: the reads of the lost connection go on.
SettleKeepingReads(s) ==
    /\ active = s
    /\ active' = NoSocket
    /\ client' = [client EXCEPT ![s] = "closed"]
    /\ down' = [down EXCEPT ![s] = <<>>]
    /\ UNCHANGED <<workerVars, inFlight, running, up>>

\* onClose, onError: the listeners go, the reads are aborted, the socket is left.
Settle(s) ==
    /\ active = s
    /\ active' = NoSocket
    /\ client' = [client EXCEPT ![s] = "closed"]
    /\ AbortReadsForSocket(s)
    /\ down' = [down EXCEPT ![s] = <<>>]
    /\ UNCHANGED <<workerVars, running, up>>

\* sendFrame: nothing is sent unless the socket is the active one and open.
SendFrame(s, frame) ==
    up' = IF active = s /\ client[s] = "open" /\ server[s] # "closed"
          THEN [up EXCEPT ![s] = Append(@, frame)]
          ELSE up

\* onMessage.  Messages come until the close event, also to a closing socket.
OnMessage(s) ==
    /\ active = s /\ client[s] \in {"open", "closing"} /\ down[s] # <<>>
    /\ down' = [down EXCEPT ![s] = Tail(@)]
    /\ LET r == Head(down[s]) IN
        \/ /\ inFlight[r] # NoSocket
           /\ AbortReadsForSocket(s)
           /\ client' = [client EXCEPT ![s] = "closing"]
           /\ UNCHANGED up
        \/ /\ inFlight[r] = NoSocket /\ Cardinality(Reading) >= MaxInFlight
           /\ SendFrame(s, [rpc |-> r, outcome |-> "UPDATE_ORCHESTRATOR_UNAVAILABLE"])
           /\ UNCHANGED <<client, inFlight>>
        \/ /\ inFlight[r] = NoSocket /\ Cardinality(Reading) < MaxInFlight
           /\ inFlight' = [inFlight EXCEPT ![r] = s]
           /\ UNCHANGED <<client, up>>
    /\ UNCHANGED <<workerVars, active, running>>

\* Mutant: the read stays registered after it was answered.
ExecuteReadKept(r) ==
    /\ inFlight[r] # NoSocket
    /\ \E outcome \in Outcomes : SendFrame(inFlight[r], [rpc |-> r, outcome |-> outcome])
    /\ UNCHANGED <<workerVars, client, active, inFlight, running, down>>

\* executeRead ends: the API answered, failed, or ran into its deadline.
ExecuteRead(r) ==
    /\ inFlight[r] # NoSocket
    /\ \E outcome \in Outcomes : SendFrame(inFlight[r], [rpc |-> r, outcome |-> outcome])
    /\ inFlight' = [inFlight EXCEPT ![r] = NoSocket]
    /\ UNCHANGED <<workerVars, client, active, running, down>>

\* The response is too large or cannot be sent: protocolViolation.
ResponseRejected(r) ==
    /\ inFlight[r] # NoSocket
    /\ active = inFlight[r] /\ client[inFlight[r]] = "open"
    /\ AbortReadsForSocket(inFlight[r])
    /\ client' = [client EXCEPT ![inFlight[r]] = "closing"]
    /\ UNCHANGED <<workerVars, active, running, down, up>>

\* onAbort with an open socket: it is closed, and cut a second later (Settle).
AbortOpen ==
    /\ running /\ active # NoSocket /\ client[active] = "open"
    /\ running' = FALSE
    /\ AbortReadsForSocket(active)
    /\ client' = [client EXCEPT ![active] = "closing"]
    /\ UNCHANGED <<workerVars, active, down, up>>

\* onAbort otherwise, or during the sleep between two connections.
AbortOther ==
    /\ running /\ (active # NoSocket => client[active] # "open")
    /\ running' = FALSE
    /\ active' = NoSocket
    /\ client' = [s \in Sockets |-> IF s = active THEN "closed" ELSE client[s]]
    /\ AbortReadsForSocket(active)
    /\ down' = [s \in Sockets |-> IF s = active THEN <<>> ELSE down[s]]
    /\ UNCHANGED <<workerVars, up>>

\* The service is started again.
Run ==
    /\ ~ running /\ active = NoSocket
    /\ running' = TRUE
    /\ UNCHANGED <<workerVars, client, active, inFlight, down, up>>
-----------------------------------------------------------------------------
Next ==
    \/ \E r \in Rpcs : \/ HandleRpc(r) \/ RpcTimeout(r)
                       \/ ExecuteRead(r) \/ ResponseRejected(r)
    \/ \E s \in Sockets : \/ ConnectOracle(s) \/ WebSocketMessage(s)
                          \/ WebSocketClose(s) \/ HandshakeLost(s)
                          \/ Dial(s) \/ OnOpen(s) \/ Settle(s) \/ OnMessage(s)
    \/ AbortOpen \/ AbortOther \/ Run

Spec == Init /\ [][Next]_vars

\* The timers fire, the loop of run() goes round, a close the Worker made reaches
\* the connector, and of the handshakes it keeps sending not all are lost.
FairSpec ==
    /\ Spec
    /\ \A r \in Rpcs : WF_vars(RpcTimeout(r))
    /\ WF_vars(\E s \in Sockets : Dial(s))
    /\ \A s \in Sockets : /\ WF_vars(server[s] = "closed" /\ Settle(s))
                          /\ SF_vars(ConnectOracle(s))
-----------------------------------------------------------------------------
TypeOK ==
    /\ pending \in [Rpcs -> Sockets \cup {NoSocket}]
    /\ answer \in [Rpcs -> Responses \cup {"none", "waiting"}]
    /\ server \in [Sockets -> {"closed", "requested", "open"}]
    /\ client \in [Sockets -> {"closed", "connecting", "open", "closing"}]
    /\ active \in Sockets \cup {NoSocket}
    /\ inFlight \in [Rpcs -> Sockets \cup {NoSocket}]
    /\ running \in BOOLEAN
    /\ down \in [Sockets -> Seq(Rpcs)]
    /\ up \in [Sockets -> Seq(Frame)]

\* However handshakes, replacements and lost connections interleave, the Worker has
\* one open Oracle connection at most, so getActiveOracleSocket never meets several.
OneOpenSocket ==
    \A s, t \in OpenSockets : s = t

\* A call waits exactly as long as it is registered in pending, and on a connection
\* that is open: none is left behind on one that was replaced, closed or lost.
CallsWaitOnOpenSocket ==
    \A r \in Rpcs :
        /\ answer[r] = "waiting" <=> pending[r] # NoSocket
        /\ pending[r] # NoSocket => server[pending[r]] = "open"

\* A read runs for the active connection only: what a lost connection asked for no
\* longer takes a place under the connector's limit or answers on another one.
ReadsServeActiveSocket ==
    \A r \in Rpcs : inFlight[r] # NoSocket => inFlight[r] = active

\* Every response on its way on the open connection is awaited there, unless its
\* call timed out, and no call has two: webSocketMessage closes the connection, with
\* every other call on it, for nothing but the late answer to a timed-out call.
ResponsesAreExpected ==
    \A s \in OpenSockets : \A i \in 1..Len(up[s]) :
        /\ \/ pending[up[s][i].rpc] = s
           \/ answer[up[s][i].rpc] = "transport_timeout"
        /\ \A j \in 1..Len(up[s]) : up[s][j].rpc = up[s][i].rpc => j = i

\* Every call of the Worker's clients gets a response.
CallsAreAnswered ==
    \A r \in Rpcs : answer[r] = "waiting" ~> answer[r] # "waiting"

\* A connection the connector has given up does not stay open at the Worker: a running
\* connector dials again and connectOracle replaces it.
HalfOpenIsReplaced ==
    \A s \in Sockets :
        server[s] = "open" /\ client[s] = "closed" ~> server[s] # "open" \/ ~ running
=============================================================================
