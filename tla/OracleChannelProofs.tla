------------------------- MODULE OracleChannelProofs -------------------------
(***************************************************************************)
(* The safety of OracleChannel for any number of calls, sockets and any    *)
(* limit.  For the two tables, pending and inFlight, the conjunction of    *)
(* the type invariant and the three properties is inductive: OneOpenSocket *)
(* is what lets ConnectOracle and WebSocketClose fail the calls of one     *)
(* socket and leave no other call behind.  For the frames under way it     *)
(* takes FrameInv: a request id is in one place at a time on its way down, *)
(* through the connector and up again.                                     *)
(***************************************************************************)
EXTENDS OracleChannel, TLAPS

SocketInv ==
    /\ TypeOK
    /\ OneOpenSocket
    /\ CallsWaitOnOpenSocket
    /\ ReadsServeActiveSocket

\* The connector gives up a read before the Worker gives up its call, however long the
\* client asked to wait: with no delay on the network a call is never answered late.
THEOREM DeadlineBeforeTimeout ==
    ASSUME NEW seconds \in Nat
    PROVE  OracleReadApiDeadlineMs(seconds) < RpcTimeoutFor(seconds)
BY DEF OracleReadApiDeadlineMs, RpcTimeoutFor, Smaller, Larger

\* Init establishes the invariant: no socket is open and nothing waits or reads.
LEMMA SocketInit == Init => SocketInv
BY ChannelAssumption DEF Init, SocketInv, TypeOK, OneOpenSocket, CallsWaitOnOpenSocket,
    ReadsServeActiveSocket, OpenSockets, Responses, Outcomes

\* A frame sent on a socket leaves the queues to the Worker queues of frames.
LEMMA SendFrameType ==
    ASSUME TypeOK, NEW s \in Sockets, NEW r \in Rpcs, NEW outcome \in Outcomes,
           SendFrame(s, [rpc |-> r, outcome |-> outcome])
    PROVE  up' \in [Sockets -> Seq(Frame)]
<1> DEFINE frame == [rpc |-> r, outcome |-> outcome]
<1>1. frame \in Frame
  BY Zenon DEF Frame
<1>2. Append(up[s], frame) \in Seq(Frame)
  BY <1>1 DEF TypeOK
<1> HIDE DEF frame
<1>3. up' = [up EXCEPT ![s] = Append(@, frame)] \/ up' = up
  BY Zenon DEF SendFrame, frame
<1> QED
  BY <1>2, <1>3, Zenon DEF TypeOK

\* Every step of the Worker or of the connector preserves the invariant.
LEMMA SocketStep == SocketInv /\ [Next]_vars => SocketInv'
<1> SUFFICES ASSUME SocketInv, [Next]_vars PROVE SocketInv'
  BY Zenon
<1> USE ChannelAssumption DEF SocketInv
<1>1. ASSUME NEW r \in Rpcs, HandleRpc(r) PROVE SocketInv'
  <2>1. CASE RpcUnavailable(r)
    BY <1>1, <2>1 DEF HandleRpc, RpcUnavailable, FreshId, TypeOK, OneOpenSocket,
        CallsWaitOnOpenSocket, ReadsServeActiveSocket, OpenSockets, Responses, Outcomes,
        connectorVars
  <2>2. CASE RpcBusy(r) \/ RpcSendFails(r)
    <3>1. /\ UNCHANGED <<pending, server, client, active, inFlight, running, down, up>>
          /\ \E response \in Responses : answer' = [answer EXCEPT ![r] = response]
          /\ pending[r] = NoSocket
      BY <1>1, <2>2, Zenon DEF HandleRpc, RpcBusy, RpcSendFails, FreshId, Responses, connectorVars
    <3>2. TypeOK'
      BY <3>1 DEF TypeOK
    <3>3. "waiting" \notin Responses
      BY Zenon DEF Responses, Outcomes
    <3> QED
      BY <3>1, <3>2, <3>3 DEF TypeOK, OneOpenSocket, CallsWaitOnOpenSocket,
          ReadsServeActiveSocket, OpenSockets
  <2>3. CASE RpcSent(r)
    <3>1. PICK s \in OpenSockets :
            /\ pending' = [pending EXCEPT ![r] = s]
            /\ answer' = [answer EXCEPT ![r] = "waiting"]
            /\ down' = [down EXCEPT ![s] = IF client[s] = "closed" THEN @ ELSE Append(@, r)]
      BY <2>3, Zenon DEF RpcSent
    <3>2. s \in Sockets /\ server[s] = "open"
      BY Zenon DEF OpenSockets
    <3>3. UNCHANGED <<server, up, client, active, inFlight, running>>
      BY <1>1, <2>3, Zenon DEF HandleRpc, RpcSent, connectorVars
    <3>4. down' \in [Sockets -> Seq(Rpcs)]
      BY <3>1, <3>2 DEF TypeOK
    <3>5. TypeOK'
      BY <3>1, <3>2, <3>3, <3>4, Zenon DEF TypeOK
    <3> QED
      BY <3>1, <3>2, <3>3, <3>5 DEF TypeOK, OneOpenSocket, CallsWaitOnOpenSocket,
          ReadsServeActiveSocket, OpenSockets
  <2> QED
    BY <1>1, <2>1, <2>2, <2>3, Zenon DEF HandleRpc
<1>2. ASSUME NEW r \in Rpcs, RpcTimeout(r) PROVE SocketInv'
  BY <1>2 DEF RpcTimeout, Finish, TypeOK, OneOpenSocket, CallsWaitOnOpenSocket,
      ReadsServeActiveSocket, OpenSockets, Responses, connectorVars
<1>3. ASSUME NEW r \in Rpcs, ExecuteRead(r) PROVE SocketInv'
  <2>1. PICK outcome \in Outcomes : SendFrame(inFlight[r], [rpc |-> r, outcome |-> outcome])
    BY <1>3, Zenon DEF ExecuteRead
  <2>2. up' \in [Sockets -> Seq(Frame)]
    BY <2>1, SendFrameType, <1>3, Zenon DEF ExecuteRead, TypeOK
  <2> QED
    BY <1>3, <2>2 DEF ExecuteRead, TypeOK, OneOpenSocket, CallsWaitOnOpenSocket,
        ReadsServeActiveSocket, OpenSockets, workerVars
<1>4. ASSUME NEW r \in Rpcs, ResponseRejected(r) PROVE SocketInv'
  BY <1>4 DEF ResponseRejected, AbortReadsForSocket, TypeOK, OneOpenSocket,
      CallsWaitOnOpenSocket, ReadsServeActiveSocket, OpenSockets, workerVars
<1>5. ASSUME NEW s \in Sockets, ConnectOracle(s) PROVE SocketInv'
  BY <1>5 DEF ConnectOracle, FailPendingForSockets, TypeOK, OneOpenSocket,
      CallsWaitOnOpenSocket, ReadsServeActiveSocket, OpenSockets, Responses, connectorVars
<1>6. ASSUME NEW s \in Sockets, WebSocketMessage(s) PROVE SocketInv'
  <2> DEFINE frame == Head(up[s])
  <2>1. /\ up[s] \in Seq(Frame) /\ up[s] # <<>>
        /\ UNCHANGED <<client, active, inFlight, running, down>>
    BY <1>6, Zenon DEF WebSocketMessage, TypeOK, connectorVars
  <2>2. frame \in Frame /\ Tail(up[s]) \in Seq(Frame)
    BY <2>1
  <2>3. frame.rpc \in Rpcs /\ frame.outcome \in Outcomes
    BY <2>2, Zenon DEF Frame
  <2> HIDE DEF frame
  <2>4. CASE ProtocolViolation({s})
    BY <2>1, <2>4 DEF ProtocolViolation, FailPendingForSockets, TypeOK, OneOpenSocket,
        CallsWaitOnOpenSocket, ReadsServeActiveSocket, OpenSockets, Responses
  <2>5. CASE Finish(frame.rpc, frame.outcome) /\ up' = [up EXCEPT ![s] = Tail(@)] /\ UNCHANGED server
    <3>1. up' \in [Sockets -> Seq(Frame)]
      BY <2>2, <2>5, Zenon DEF TypeOK
    <3> QED
      BY <2>1, <2>3, <2>5, <3>1 DEF Finish, TypeOK, OneOpenSocket, CallsWaitOnOpenSocket,
          ReadsServeActiveSocket, OpenSockets, Responses, Outcomes
  <2> QED
    BY <1>6, <2>4, <2>5, Zenon DEF WebSocketMessage, frame
<1>7. ASSUME NEW s \in Sockets, WebSocketClose(s) PROVE SocketInv'
  BY <1>7 DEF WebSocketClose, ProtocolViolation, FailPendingForSockets, TypeOK,
      OneOpenSocket, CallsWaitOnOpenSocket, ReadsServeActiveSocket, OpenSockets, Responses,
      connectorVars
<1>8. ASSUME NEW s \in Sockets, HandshakeLost(s) PROVE SocketInv'
  BY <1>8 DEF HandshakeLost, TypeOK, OneOpenSocket, CallsWaitOnOpenSocket,
      ReadsServeActiveSocket, OpenSockets, connectorVars
<1>9. ASSUME NEW s \in Sockets, Dial(s) PROVE SocketInv'
  BY <1>9 DEF Dial, TypeOK, OneOpenSocket, CallsWaitOnOpenSocket, ReadsServeActiveSocket,
      OpenSockets
<1>10. ASSUME NEW s \in Sockets, OnOpen(s) PROVE SocketInv'
  BY <1>10 DEF OnOpen, TypeOK, OneOpenSocket, CallsWaitOnOpenSocket,
      ReadsServeActiveSocket, OpenSockets, workerVars
<1>11. ASSUME NEW s \in Sockets, Settle(s) PROVE SocketInv'
  BY <1>11 DEF Settle, AbortReadsForSocket, TypeOK, OneOpenSocket, CallsWaitOnOpenSocket,
      ReadsServeActiveSocket, OpenSockets, workerVars
<1>12. ASSUME NEW s \in Sockets, OnMessage(s) PROVE SocketInv'
  <2> DEFINE r == Head(down[s])
  <2>1. /\ down[s] \in Seq(Rpcs) /\ down[s] # <<>>
        /\ active = s /\ UNCHANGED <<pending, answer, server, active, running>>
        /\ down' = [down EXCEPT ![s] = Tail(@)]
    BY <1>12, Zenon DEF OnMessage, TypeOK, workerVars
  <2>2. r \in Rpcs /\ Tail(down[s]) \in Seq(Rpcs)
    BY <2>1
  <2>3. down' \in [Sockets -> Seq(Rpcs)]
    BY <2>1, <2>2, Zenon DEF TypeOK
  <2> HIDE DEF r
  <2>4. CASE AbortReadsForSocket(s) /\ client' = [client EXCEPT ![s] = "closing"] /\ UNCHANGED up
    BY <2>1, <2>3, <2>4 DEF AbortReadsForSocket, TypeOK, OneOpenSocket,
        CallsWaitOnOpenSocket, ReadsServeActiveSocket, OpenSockets
  <2>5. CASE /\ SendFrame(s, [rpc |-> r, outcome |-> "UPDATE_ORCHESTRATOR_UNAVAILABLE"])
             /\ UNCHANGED <<client, inFlight>>
    <3>1. up' \in [Sockets -> Seq(Frame)]
      BY <2>2, <2>5, SendFrameType, Zenon DEF Outcomes
    <3> QED
      BY <2>1, <2>3, <2>5, <3>1 DEF TypeOK, OneOpenSocket, CallsWaitOnOpenSocket,
          ReadsServeActiveSocket, OpenSockets
  <2>6. CASE inFlight' = [inFlight EXCEPT ![r] = s] /\ UNCHANGED <<client, up>>
    BY <2>1, <2>2, <2>3, <2>6 DEF TypeOK, OneOpenSocket, CallsWaitOnOpenSocket,
        ReadsServeActiveSocket, OpenSockets
  <2> QED
    BY <1>12, <2>4, <2>5, <2>6, Zenon DEF OnMessage, r
<1>13. CASE AbortOpen
  <2>1. /\ client' = [client EXCEPT ![active] = "closing"] /\ running' = FALSE
        /\ UNCHANGED <<server, pending, answer, active, down, up>>
        /\ inFlight' = [r \in Rpcs |-> IF inFlight[r] = active THEN NoSocket ELSE inFlight[r]]
    BY <1>13, Zenon DEF AbortOpen, AbortReadsForSocket, workerVars
  <2>2. OneOpenSocket' /\ CallsWaitOnOpenSocket'
    BY <2>1, Zenon DEF OneOpenSocket, CallsWaitOnOpenSocket, OpenSockets
  <2>3. \A r \in Rpcs : inFlight'[r] = NoSocket
    BY <2>1, Zenon DEF ReadsServeActiveSocket
  <2>4. ReadsServeActiveSocket'
    BY <2>3, Zenon DEF ReadsServeActiveSocket
  <2>5. client' \in [Sockets -> {"closed", "connecting", "open", "closing"}]
    BY <2>1, Zenon DEF TypeOK
  <2>6. TypeOK'
    BY <2>1, <2>3, <2>5, Zenon DEF TypeOK
  <2> QED
    BY <2>2, <2>4, <2>6, Zenon
<1>14. CASE AbortOther
  <2>1. down' \in [Sockets -> Seq(Rpcs)]
    BY <1>14 DEF AbortOther, TypeOK
  <2>2. \A r \in Rpcs : inFlight'[r] = NoSocket
    BY <1>14, Zenon DEF AbortOther, AbortReadsForSocket, TypeOK, ReadsServeActiveSocket
  <2>3. UNCHANGED <<pending, answer, server, up>>
    BY <1>14, Zenon DEF AbortOther, workerVars
  <2>4. OneOpenSocket' /\ CallsWaitOnOpenSocket'
    BY <2>3, Zenon DEF OneOpenSocket, CallsWaitOnOpenSocket, OpenSockets
  <2>5. inFlight' \in [Rpcs -> Sockets \cup {NoSocket}]
    BY <1>14, Zenon DEF AbortOther, AbortReadsForSocket, TypeOK
  <2>6. client' \in [Sockets -> {"closed", "connecting", "open", "closing"}]
    BY <1>14, Zenon DEF AbortOther, TypeOK
  <2>7. active' = NoSocket /\ running' = FALSE
    BY <1>14, Zenon DEF AbortOther
  <2>8. TypeOK'
    BY <2>1, <2>3, <2>5, <2>6, <2>7, Zenon DEF TypeOK
  <2> QED
    BY <2>2, <2>4, <2>8, Zenon DEF ReadsServeActiveSocket
<1>15. CASE Run
  BY <1>15 DEF Run, TypeOK, OneOpenSocket, CallsWaitOnOpenSocket, ReadsServeActiveSocket,
      OpenSockets, workerVars
<1>16. CASE UNCHANGED vars
  BY <1>16 DEF TypeOK, OneOpenSocket, CallsWaitOnOpenSocket, ReadsServeActiveSocket,
      OpenSockets, vars, workerVars, connectorVars
<1> QED
  BY <1>1, <1>2, <1>3, <1>4, <1>5, <1>6, <1>7, <1>8, <1>9, <1>10, <1>11, <1>12, <1>13,
     <1>14, <1>15, <1>16, Zenon DEF Next

\* Hence the invariant holds throughout.
THEOREM SocketInvariant == Spec => []SocketInv
BY SocketInit, SocketStep, PTL DEF Spec

\* The Worker never has two open connections to the Oracle host.
THEOREM OneOpenSocketHolds == Spec => []OneOpenSocket
<1>1. SocketInv => OneOpenSocket
  BY Zenon DEF SocketInv
<1> QED
  BY SocketInvariant, <1>1, PTL

\* No call is left waiting on a connection that was replaced, closed or lost.
THEOREM CallsWaitHolds == Spec => []CallsWaitOnOpenSocket
<1>1. SocketInv => CallsWaitOnOpenSocket
  BY Zenon DEF SocketInv
<1> QED
  BY SocketInvariant, <1>1, PTL

\* No read goes on for a connection that is not the active one.
THEOREM ReadsServeHolds == Spec => []ReadsServeActiveSocket
<1>1. SocketInv => ReadsServeActiveSocket
  BY Zenon DEF SocketInv
<1> QED
  BY SocketInvariant, <1>1, PTL
-----------------------------------------------------------------------------
(* The frames under way.                                                   *)

\* The ids in a queue of requests and in a queue of responses, and that each is there once.
Ids(q) == {q[i] : i \in 1..Len(q)}
RpcIds(q) == {q[i].rpc : i \in 1..Len(q)}
Each(q) == \A i, j \in 1..Len(q) : q[i] = q[j] => i = j
EachRpc(q) == \A i, j \in 1..Len(q) : q[i].rpc = q[j].rpc => i = j

\* What one end of a connection knows of the other: only the active one has requests under
\* way, only an open one responses, and one that was just dialled has neither.
EndsAgree ==
    \A s \in Sockets :
        /\ client[s] # "closed" => active = s
        /\ client[s] = "closed" => down[s] = <<>>
        /\ server[s] # "open" => up[s] = <<>>
        /\ server[s] = "requested" => client[s] \in {"closed", "connecting"} /\ down[s] = <<>>

\* A read came in over a connection that was opened.
ReadsWereAsked ==
    \A r \in Rpcs : inFlight[r] # NoSocket => client[inFlight[r]] \in {"open", "closing"}

\* A call is asked, read or answered, in one place and once.
OnePlace ==
    /\ \A s \in Sockets : Each(down[s]) /\ EachRpc(up[s])
    /\ \A r \in Rpcs : \A s, t \in Sockets : ~ (r \in Ids(down[s]) /\ r \in RpcIds(up[t]))
    /\ \A r \in Rpcs : inFlight[r] # NoSocket =>
          \A s \in Sockets : r \notin Ids(down[s]) /\ r \notin RpcIds(up[s])

\* Something of the call is under way on the connection.
Under(r, s) == r \in Ids(down[s]) \/ inFlight[r] = s \/ r \in RpcIds(up[s])

\* What is under way on the open connection is awaited there, or its call timed out.
Expected ==
    \A s \in Sockets : \A r \in Rpcs :
        server[s] = "open" /\ Under(r, s) => pending[r] = s \/ answer[r] = "transport_timeout"

\* What makes ResponsesAreExpected inductive, on top of SocketInv.
FrameInv == EndsAgree /\ ReadsWereAsked /\ OnePlace /\ Expected

\* Nothing is in an empty queue.
LEMMA EmptyIds == Ids(<<>>) = {} /\ RpcIds(<<>>) = {} /\ Each(<<>>) /\ EachRpc(<<>>)
BY DEF Ids, RpcIds, Each, EachRpc

\* A request sent is one more id, and a new one leaves every id in the queue once.
LEMMA AppendId ==
    ASSUME NEW q \in Seq(Rpcs), NEW r \in Rpcs, r \notin Ids(q), Each(q)
    PROVE  Ids(Append(q, r)) = Ids(q) \cup {r} /\ Each(Append(q, r))
<1> DEFINE a == Append(q, r)
<1>1. /\ Len(a) = Len(q) + 1 /\ Len(q) \in Nat /\ a[Len(q) + 1] = r
      /\ \A i \in 1..Len(q) : a[i] = q[i]
  OBVIOUS
<1> HIDE DEF a
<1>2. Ids(a) = Ids(q) \cup {r}
  BY <1>1 DEF Ids
<1>3. Each(a)
  BY <1>1 DEF Each, Ids
<1> QED
  BY <1>2, <1>3, Zenon DEF a

\* The same for a response.
LEMMA AppendRpcId ==
    ASSUME NEW q \in Seq(Frame), NEW f \in Frame, f.rpc \notin RpcIds(q), EachRpc(q)
    PROVE  RpcIds(Append(q, f)) = RpcIds(q) \cup {f.rpc} /\ EachRpc(Append(q, f))
<1> DEFINE a == Append(q, f)
<1>1. /\ Len(a) = Len(q) + 1 /\ Len(q) \in Nat /\ a[Len(q) + 1] = f
      /\ \A i \in 1..Len(q) : a[i] = q[i]
  OBVIOUS
<1> HIDE DEF a
<1>2. RpcIds(a) = RpcIds(q) \cup {f.rpc}
  BY <1>1 DEF RpcIds
<1>3. EachRpc(a)
  BY <1>1 DEF EachRpc, RpcIds
<1> QED
  BY <1>2, <1>3, Zenon DEF a

\* A request taken from a queue is not in it any more.
LEMMA TailIds ==
    ASSUME NEW q \in Seq(Rpcs), q # <<>>, Each(q)
    PROVE  /\ Head(q) \in Rpcs /\ Head(q) \in Ids(q) /\ Ids(Tail(q)) = Ids(q) \ {Head(q)} /\ Each(Tail(q))
<1> DEFINE a == Tail(q)
<1>1. /\ Len(q) \in Nat /\ Len(q) > 0 /\ Len(a) = Len(q) - 1 /\ Head(q) = q[1] /\ q[1] \in Rpcs
      /\ \A i \in 1..Len(a) : a[i] = q[i + 1]
  OBVIOUS
<1> HIDE DEF a
<1>2. Each(a)
  BY <1>1 DEF Each
<1>3. ASSUME NEW x \in Ids(a) PROVE x \in Ids(q) /\ x # q[1]
  <2>1. PICK i \in 1..Len(a) : x = a[i]
    BY <1>3, Zenon DEF Ids
  <2>2. i + 1 \in 1..Len(q) /\ 1 \in 1..Len(q) /\ i + 1 # 1 /\ x = q[i + 1]
    BY <1>1, <2>1
  <2>3. x # q[1]
    BY <2>2, Zenon DEF Each
  <2> QED
    BY <2>2, <2>3, Zenon DEF Ids
<1>4. ASSUME NEW x \in Ids(q), x # q[1] PROVE x \in Ids(a)
  <2>1. PICK i \in 1..Len(q) : x = q[i]
    BY <1>4, Zenon DEF Ids
  <2>2. i - 1 \in 1..Len(a) /\ a[i - 1] = q[i]
    BY <1>1, <1>4, <2>1
  <2> QED
    BY <2>1, <2>2, Zenon DEF Ids
<1>5. q[1] \in Ids(q)
  BY <1>1 DEF Ids
<1> QED
  BY <1>1, <1>2, <1>3, <1>4, <1>5, Zenon DEF a

\* The same for a response.
LEMMA TailRpcIds ==
    ASSUME NEW q \in Seq(Frame), q # <<>>, EachRpc(q)
    PROVE  /\ Head(q).rpc \in RpcIds(q) /\ RpcIds(Tail(q)) = RpcIds(q) \ {Head(q).rpc}
           /\ EachRpc(Tail(q))
<1> DEFINE a == Tail(q)
<1>1. /\ Len(q) \in Nat /\ Len(q) > 0 /\ Len(a) = Len(q) - 1 /\ Head(q) = q[1]
      /\ \A i \in 1..Len(a) : a[i] = q[i + 1]
  OBVIOUS
<1> HIDE DEF a
<1>2. EachRpc(a)
  BY <1>1 DEF EachRpc
<1>3. ASSUME NEW x \in RpcIds(a) PROVE x \in RpcIds(q) /\ x # q[1].rpc
  <2>1. PICK i \in 1..Len(a) : x = a[i].rpc
    BY <1>3, Zenon DEF RpcIds
  <2>2. i + 1 \in 1..Len(q) /\ 1 \in 1..Len(q) /\ i + 1 # 1 /\ x = q[i + 1].rpc
    BY <1>1, <2>1
  <2>3. x # q[1].rpc
    BY <2>2, Zenon DEF EachRpc
  <2> QED
    BY <2>2, <2>3, Zenon DEF RpcIds
<1>4. ASSUME NEW x \in RpcIds(q), x # q[1].rpc PROVE x \in RpcIds(a)
  <2>1. PICK i \in 1..Len(q) : x = q[i].rpc
    BY <1>4, Zenon DEF RpcIds
  <2>2. i - 1 \in 1..Len(a) /\ a[i - 1] = q[i]
    BY <1>1, <1>4, <2>1
  <2> QED
    BY <2>1, <2>2, Zenon DEF RpcIds
<1>5. q[1].rpc \in RpcIds(q)
  BY <1>1 DEF RpcIds
<1> QED
  BY <1>1, <1>2, <1>3, <1>4, <1>5, Zenon DEF a

\* A call that has a new id: nothing of it is under way, so its answer is its own.
LEMMA RpcFrames ==
    ASSUME SocketInv, FrameInv, NEW r \in Rpcs, HandleRpc(r)
    PROVE  FrameInv'
<1> USE ChannelAssumption DEF SocketInv, FrameInv
<1>1. UNCHANGED <<client, active, inFlight, running>> /\ inFlight[r] = NoSocket /\ pending[r] = NoSocket
  BY Zenon DEF HandleRpc, connectorVars, FreshId
<1>2. \A s \in Sockets : ~ Under(r, s)
  BY <1>1, Zenon DEF HandleRpc, FreshId, Under, Ids, RpcIds
<1>3. CASE RpcUnavailable(r)
  <2>1. UNCHANGED down /\ \A s \in Sockets : up'[s] = <<>> /\ server'[s] # "open"
    BY <1>3, Zenon DEF RpcUnavailable, OpenSockets, EndsAgree, TypeOK
  <2>2. \A s \in Sockets : server'[s] = "requested" => server[s] = "requested"
    BY <1>3, Zenon DEF RpcUnavailable, TypeOK
  <2>3. EndsAgree' /\ ReadsWereAsked'
    BY <1>1, <2>1, <2>2, Zenon DEF EndsAgree, ReadsWereAsked
  <2>4. OnePlace'
    BY <1>1, <2>1, EmptyIds, Zenon DEF OnePlace
  <2> QED
    BY <2>1, <2>3, <2>4, Zenon DEF Expected
<1>4. CASE RpcBusy(r) \/ RpcSendFails(r)
  <2>1. UNCHANGED <<pending, server, down, up>> /\ \A q \in Rpcs \ {r} : answer'[q] = answer[q]
    BY <1>4, Zenon DEF RpcBusy, RpcSendFails, TypeOK
  <2>2. \A q \in Rpcs, s \in Sockets : Under(q, s)' <=> Under(q, s)
    BY <1>1, <2>1, Zenon DEF Under
  <2>3. EndsAgree' /\ ReadsWereAsked' /\ OnePlace'
    BY <1>1, <2>1, Zenon DEF EndsAgree, ReadsWereAsked, OnePlace
  <2>4. Expected'
    BY <1>2, <2>1, <2>2, Zenon DEF Expected
  <2> QED
    BY <2>3, <2>4, Zenon
<1>5. CASE RpcSent(r)
  <2>1. PICK s \in Sockets :
          /\ server[s] = "open" /\ pending' = [pending EXCEPT ![r] = s]
          /\ down' = [down EXCEPT ![s] = IF client[s] = "closed" THEN @ ELSE Append(@, r)]
    BY <1>5, Zenon DEF RpcSent, OpenSockets
  <2>2. UNCHANGED <<server, up>> /\ \A q \in Rpcs \ {r} : answer'[q] = answer[q] /\ pending'[q] = pending[q]
    BY <1>5, Zenon DEF RpcSent, TypeOK
  <2>3. pending'[r] = s
    BY <2>1, Zenon DEF TypeOK
  <2>4. /\ \A t \in Sockets \ {s} : down'[t] = down[t]
        /\ Each(down'[s]) /\ Ids(down'[s]) \subseteq Ids(down[s]) \cup {r}
        /\ client[s] = "closed" => down'[s] = down[s]
    <3>1. down[s] \in Seq(Rpcs) /\ Each(down[s]) /\ r \notin Ids(down[s])
      BY <1>2, Zenon DEF TypeOK, OnePlace, Under
    <3>2. /\ \A t \in Sockets \ {s} : down'[t] = down[t]
          /\ down'[s] = IF client[s] = "closed" THEN down[s] ELSE Append(down[s], r)
      BY <2>1, Zenon DEF TypeOK
    <3> QED
      BY <3>1, <3>2, AppendId, Zenon
  <2>5. EndsAgree' /\ ReadsWereAsked'
    BY <1>1, <2>1, <2>2, <2>4 DEF EndsAgree, ReadsWereAsked
  <2>6. OnePlace'
    <3>1. \A t \in Sockets : Each(down'[t]) /\ EachRpc(up'[t])
      BY <2>2, <2>4, Zenon DEF OnePlace
    <3>2. \A q \in Rpcs, t \in Sockets : q \in Ids(down'[t]) => q \in Ids(down[t]) \/ q = r
      BY <2>4
    <3>3. \A t \in Sockets : r \notin RpcIds(up[t])
      BY <1>2, Zenon DEF Under
    <3> QED
      BY <1>1, <2>2, <3>1, <3>2, <3>3 DEF OnePlace
  <2>7. Expected'
    <3>1. ASSUME NEW t \in Sockets, NEW q \in Rpcs, server'[t] = "open", Under(q, t)'
          PROVE  pending'[q] = t \/ answer'[q] = "transport_timeout"
      <4>1. t = s
        BY <2>1, <2>2, <3>1, Zenon DEF OneOpenSocket, OpenSockets
      <4>2. CASE q = r
        BY <2>3, <4>1, <4>2, Zenon
      <4>3. CASE q # r
        <5>1. Under(q, t)
          BY <1>1, <2>2, <2>4, <3>1, <4>1, <4>3, Zenon DEF Under
        <5> QED
          BY <2>2, <3>1, <4>3, <5>1, Zenon DEF Expected
      <4> QED
        BY <4>2, <4>3, Zenon
    <3> QED
      BY <3>1, Zenon DEF Expected
  <2> QED
    BY <2>5, <2>6, <2>7, Zenon
<1> QED
  BY <1>3, <1>4, <1>5, Zenon DEF HandleRpc

\* The Worker's other steps: a connection is closed with its calls and its frames, a new one
\* has no frames, and the one call a response ends has nothing else under way.
LEMMA WorkerFrames ==
    ASSUME SocketInv, FrameInv,
           \/ \E r \in Rpcs : RpcTimeout(r)
           \/ \E s \in Sockets : \/ ConnectOracle(s) \/ WebSocketMessage(s)
                                 \/ WebSocketClose(s) \/ HandshakeLost(s)
    PROVE  FrameInv'
<1> USE ChannelAssumption DEF SocketInv, FrameInv
<1>1. UNCHANGED <<client, active, inFlight, running, down>>
  BY Zenon DEF RpcTimeout, ConnectOracle, WebSocketMessage, WebSocketClose, HandshakeLost, connectorVars
<1>2. ReadsWereAsked'
  BY <1>1, Zenon DEF ReadsWereAsked
<1>3. ASSUME NEW r \in Rpcs, RpcTimeout(r) PROVE FrameInv'
  <2>1. /\ UNCHANGED <<server, up>> /\ answer'[r] = "transport_timeout"
        /\ \A q \in Rpcs \ {r} : answer'[q] = answer[q] /\ pending'[q] = pending[q]
    BY <1>3, Zenon DEF RpcTimeout, Finish, TypeOK
  <2>2. EndsAgree' /\ OnePlace'
    BY <1>1, <2>1, Zenon DEF EndsAgree, OnePlace
  <2>3. Expected'
    BY <1>1, <2>1, Zenon DEF Expected, Under
  <2> QED
    BY <1>2, <2>2, <2>3, Zenon
<1>4. ASSUME NEW s \in Sockets, ProtocolViolation({s}), server[s] = "open" PROVE FrameInv'
  <2>1. \A t \in Sockets : server'[t] # "open" /\ up'[t] = <<>>
    BY <1>4 DEF ProtocolViolation, OneOpenSocket, OpenSockets, EndsAgree
  <2>2. \A t \in Sockets : server'[t] = "requested" => server[t] = "requested"
    BY <1>4, Zenon DEF ProtocolViolation
  <2>3. EndsAgree'
    BY <1>1, <2>1, <2>2, Zenon DEF EndsAgree
  <2>4. OnePlace'
    BY <1>1, <2>1, EmptyIds, Zenon DEF OnePlace
  <2> QED
    BY <1>2, <2>1, <2>3, <2>4, Zenon DEF Expected
<1>5. ASSUME NEW s \in Sockets, WebSocketClose(s) PROVE FrameInv'
  BY <1>4, <1>5, Zenon DEF WebSocketClose
<1>6. ASSUME NEW s \in Sockets, WebSocketMessage(s) PROVE FrameInv'
  <2>1. server[s] = "open" /\ up[s] # <<>> /\ up[s] \in Seq(Frame) /\ EachRpc(up[s])
    BY <1>6, Zenon DEF WebSocketMessage, TypeOK, OnePlace
  <2>2. PICK f \in Frame : f = Head(up[s])
    BY <2>1
  <2>3. f.rpc \in Rpcs
    BY Zenon DEF Frame
  <2>4. CASE Finish(f.rpc, f.outcome) /\ up' = [up EXCEPT ![s] = Tail(@)] /\ UNCHANGED server
    <3>1. /\ up'[s] = Tail(up[s]) /\ \A t \in Sockets \ {s} : up'[t] = up[t]
      BY <2>4, Zenon DEF TypeOK
    <3>2. /\ RpcIds(up'[s]) = RpcIds(up[s]) \ {f.rpc} /\ EachRpc(up'[s]) /\ f.rpc \in RpcIds(up[s])
      BY <2>1, <2>2, <3>1, TailRpcIds, Zenon
    <3>3. \A q \in Rpcs \ {f.rpc} : answer'[q] = answer[q] /\ pending'[q] = pending[q]
      BY <2>3, <2>4, Zenon DEF Finish, TypeOK
    <3>4. EndsAgree'
      BY <1>1, <2>1, <2>4, <3>1, Zenon DEF EndsAgree
    <3>5. OnePlace'
      BY <1>1, <3>1, <3>2, Zenon DEF OnePlace
    <3>6. ASSUME NEW t \in Sockets, NEW q \in Rpcs, server'[t] = "open", Under(q, t)'
          PROVE  pending'[q] = t \/ answer'[q] = "transport_timeout"
      <4>1. t = s /\ server[t] = "open"
        BY <2>1, <2>4, <3>6, Zenon DEF OneOpenSocket, OpenSockets
      <4>2. q # f.rpc
        BY <1>1, <2>3, <3>2, <3>6, <4>1, Zenon DEF Under, OnePlace
      <4>3. Under(q, t)
        BY <1>1, <3>2, <3>6, <4>1, Zenon DEF Under
      <4> QED
        BY <3>3, <4>1, <4>2, <4>3, Zenon DEF Expected
    <3>7. Expected'
      BY <3>6, Zenon DEF Expected
    <3> QED
      BY <1>2, <3>4, <3>5, <3>7, Zenon
  <2> QED
    BY <1>4, <1>6, <2>1, <2>2, <2>4, Zenon DEF WebSocketMessage
<1>7. ASSUME NEW s \in Sockets, ConnectOracle(s) PROVE FrameInv'
  <2>1. /\ server[s] = "requested"
        /\ \A t \in Sockets : up'[t] = <<>> /\ (server'[t] = "open" => t = s)
        /\ \A t \in Sockets : server'[t] = "requested" => server[t] = "requested"
    BY <1>7, Zenon DEF ConnectOracle, OpenSockets, EndsAgree
  <2>2. \A q \in Rpcs : inFlight[q] # s
    BY <2>1, Zenon DEF ReadsWereAsked, EndsAgree
  <2>3. EndsAgree'
    BY <1>1, <2>1, Zenon DEF EndsAgree
  <2>4. OnePlace'
    BY <1>1, <2>1, EmptyIds, Zenon DEF OnePlace
  <2>5. \A q \in Rpcs : ~ Under(q, s)'
    BY <1>1, <2>1, <2>2, EmptyIds, Zenon DEF Under, EndsAgree
  <2>6. Expected'
    BY <2>1, <2>5, Zenon DEF Expected
  <2> QED
    BY <1>2, <2>3, <2>4, <2>6, Zenon
<1>8. ASSUME NEW s \in Sockets, HandshakeLost(s) PROVE FrameInv'
  <2>1. /\ UNCHANGED <<pending, answer, up>> /\ server[s] = "requested" /\ server'[s] = "closed"
        /\ \A t \in Sockets \ {s} : server'[t] = server[t]
    BY <1>8, Zenon DEF HandshakeLost, TypeOK
  <2>2. EndsAgree' /\ OnePlace'
    BY <1>1, <2>1, Zenon DEF EndsAgree, OnePlace
  <2>3. Expected'
    BY <1>1, <2>1, Zenon DEF Expected, Under
  <2> QED
    BY <1>2, <2>2, <2>3, Zenon
<1> QED
  BY <1>3, <1>5, <1>6, <1>7, <1>8, Zenon

\* Steps after which less is under way than before.
LEMMA FewerFrames ==
    ASSUME SocketInv, FrameInv, EndsAgree', ReadsWereAsked', UNCHANGED <<pending, answer, up>>,
           \A s \in Sockets : down'[s] = down[s] \/ down'[s] = <<>>,
           \A s \in Sockets : server'[s] = "open" => server[s] = "open",
           \A r \in Rpcs : inFlight'[r] # NoSocket => inFlight'[r] = inFlight[r]
    PROVE  FrameInv'
<1>1. \A s \in Sockets : Each(down'[s]) /\ Ids(down'[s]) \subseteq Ids(down[s])
  BY EmptyIds, Zenon DEF FrameInv, OnePlace
<1>2. OnePlace'
  BY <1>1, Zenon DEF FrameInv, OnePlace
<1>3. \A r \in Rpcs, s \in Sockets : Under(r, s)' => Under(r, s)
  BY <1>1, ChannelAssumption, Zenon DEF Under
<1>4. Expected'
  BY <1>3, Zenon DEF FrameInv, Expected
<1> QED
  BY <1>2, <1>4, Zenon DEF FrameInv

\* A call that leaves the one place it was in for the queue of responses.
LEMMA SentFrames ==
    ASSUME SocketInv, FrameInv, NEW s \in Sockets, NEW r \in Rpcs, NEW outcome \in Outcomes,
           SendFrame(s, [rpc |-> r, outcome |-> outcome]),
           Under(r, s), \A t \in Sockets : r \notin RpcIds(up[t]),
           UNCHANGED <<pending, answer, server, client, active>>,
           \A t \in Sockets : Each(down'[t]) /\ Ids(down'[t]) \subseteq Ids(down[t]) \ {r},
           \A t \in Sockets : down[t] = <<>> => down'[t] = <<>>,
           \A q \in Rpcs : inFlight'[q] = IF q = r THEN NoSocket ELSE inFlight[q]
    PROVE  FrameInv'
<1> USE ChannelAssumption DEF SocketInv, FrameInv
<1>1. PICK f \in Frame : f.rpc = r /\ f = [rpc |-> r, outcome |-> outcome]
  BY Zenon DEF Frame
<1>2. /\ \A t \in Sockets \ {s} : up'[t] = up[t]
      /\ up'[s] = up[s] \/ (up'[s] = Append(up[s], f) /\ server[s] = "open")
  <2>1. client[s] = "open" => server[s] # "requested"
    BY Zenon DEF EndsAgree
  <2> QED
    BY <1>1, <2>1 DEF SendFrame, TypeOK
<1>3. up[s] \in Seq(Frame) /\ EachRpc(up[s])
  BY Zenon DEF TypeOK, OnePlace
<1>4. \A t \in Sockets : EachRpc(up'[t]) /\ RpcIds(up'[t]) \subseteq RpcIds(up[t]) \cup {r}
  <2>1. EachRpc(up'[s]) /\ RpcIds(up'[s]) \subseteq RpcIds(up[s]) \cup {r}
    <3>1. RpcIds(Append(up[s], f)) = RpcIds(up[s]) \cup {r} /\ EachRpc(Append(up[s], f))
      BY <1>1, <1>3, AppendRpcId, Zenon
    <3> QED
      BY <1>2, <1>3, <3>1, Zenon
  <2> QED
    BY <1>2, <2>1, Zenon DEF OnePlace
<1>5. EndsAgree'
  BY <1>2, Zenon DEF EndsAgree
<1>6. ReadsWereAsked'
  BY Zenon DEF ReadsWereAsked
<1>7. OnePlace'
  <2>1. \A q \in Rpcs, t, u \in Sockets : ~ (q \in Ids(down'[t]) /\ q \in RpcIds(up'[u]))
    BY <1>4, Zenon DEF OnePlace
  <2>2. \A q \in Rpcs : inFlight'[q] # NoSocket =>
            \A t \in Sockets : q \notin Ids(down'[t]) /\ q \notin RpcIds(up'[t])
    BY <1>4, Zenon DEF OnePlace
  <2> QED
    BY <1>4, <2>1, <2>2, Zenon DEF OnePlace
<1>8. \A t \in Sockets, q \in Rpcs : Under(q, t)' => Under(q, t)
  <2>1. ASSUME NEW t \in Sockets, NEW q \in Rpcs, Under(q, t)' PROVE Under(q, t)
    <3>1. CASE q \in RpcIds(up'[t]) /\ q = r
      <4>1. t = s
        BY <1>2, <3>1, Zenon
      <4> QED
        BY <3>1, <4>1, Zenon
    <3>2. CASE q \in RpcIds(up'[t]) /\ q # r
      BY <1>4, <3>2, Zenon DEF Under
    <3>3. CASE q \in Ids(down'[t]) \/ inFlight'[q] = t
      BY <3>3, Zenon DEF Under
    <3> QED
      BY <2>1, <3>1, <3>2, <3>3, Zenon DEF Under
  <2> QED
    BY <2>1, Zenon
<1>9. Expected'
  BY <1>8, Zenon DEF Expected
<1> QED
  BY <1>5, <1>6, <1>7, <1>9, Zenon

\* The connector's steps.
LEMMA ConnectorFrames ==
    ASSUME SocketInv, FrameInv,
           \/ \E r \in Rpcs : ExecuteRead(r) \/ ResponseRejected(r)
           \/ \E s \in Sockets : Dial(s) \/ OnOpen(s) \/ Settle(s) \/ OnMessage(s)
           \/ AbortOpen \/ AbortOther \/ Run
    PROVE  FrameInv'
<1> USE ChannelAssumption DEF SocketInv, FrameInv
<1>1. ASSUME NEW r \in Rpcs, ExecuteRead(r) PROVE FrameInv'
  <2>1. PICK outcome \in Outcomes : SendFrame(inFlight[r], [rpc |-> r, outcome |-> outcome])
    BY <1>1, Zenon DEF ExecuteRead
  <2>2. PICK s \in Sockets : s = inFlight[r]
    BY <1>1, Zenon DEF ExecuteRead, TypeOK
  <2>3. /\ UNCHANGED <<pending, answer, server, client, active, down>>
        /\ \A q \in Rpcs : inFlight'[q] = IF q = r THEN NoSocket ELSE inFlight[q]
    BY <1>1, Zenon DEF ExecuteRead, workerVars, TypeOK
  <2>4. \A t \in Sockets : r \notin Ids(down[t]) /\ r \notin RpcIds(up[t])
    BY <2>2, Zenon DEF OnePlace
  <2>5. \A t \in Sockets : Each(down'[t]) /\ Ids(down'[t]) \subseteq Ids(down[t]) \ {r}
    BY <2>3, <2>4, Zenon DEF OnePlace
  <2>6. Under(r, s)
    BY <2>2, Zenon DEF Under
  <2> QED
    BY <2>1, <2>2, <2>3, <2>4, <2>5, <2>6, SentFrames, Zenon
<1>2. ASSUME NEW r \in Rpcs, ResponseRejected(r) PROVE FrameInv'
  <2>1. PICK s \in Sockets : s = inFlight[r]
    BY <1>2, Zenon DEF ResponseRejected, TypeOK
  <2>2. /\ UNCHANGED <<pending, answer, server, active, down, up>> /\ client[s] = "open"
        /\ \A q \in Rpcs : inFlight'[q] = IF inFlight[q] = s THEN NoSocket ELSE inFlight[q]
        /\ \A t \in Sockets : client'[t] = IF t = s THEN "closing" ELSE client[t]
    BY <1>2, <2>1, Zenon DEF ResponseRejected, AbortReadsForSocket, workerVars, TypeOK
  <2>3. EndsAgree' /\ ReadsWereAsked'
    BY <2>2 DEF EndsAgree, ReadsWereAsked, TypeOK
  <2> QED
    BY <2>2, <2>3, FewerFrames, Zenon
<1>3. ASSUME NEW s \in Sockets, Dial(s) PROVE FrameInv'
  <2>1. /\ UNCHANGED <<pending, answer, inFlight, down, up>> /\ active = NoSocket /\ active' = s
        /\ client[s] = "closed" /\ server[s] = "closed"
        /\ \A t \in Sockets : client'[t] = IF t = s THEN "connecting" ELSE client[t]
        /\ \A t \in Sockets : server'[t] = IF t = s THEN "requested" ELSE server[t]
    BY <1>3, Zenon DEF Dial, TypeOK
  <2>2. EndsAgree'
    BY <2>1, Zenon DEF EndsAgree
  <2>3. \A r \in Rpcs : inFlight[r] = NoSocket
    BY <2>1, Zenon DEF ReadsServeActiveSocket
  <2> QED
    BY <2>1, <2>2, <2>3, FewerFrames, Zenon DEF ReadsWereAsked
<1>4. ASSUME NEW s \in Sockets, OnOpen(s) PROVE FrameInv'
  <2>1. /\ UNCHANGED <<pending, answer, server, active, inFlight, down, up>>
        /\ client[s] = "connecting" /\ server[s] # "requested"
        /\ \A t \in Sockets : client'[t] = IF t = s THEN "open" ELSE client[t]
    BY <1>4, Zenon DEF OnOpen, workerVars, TypeOK
  <2>2. EndsAgree' /\ ReadsWereAsked'
    BY <2>1 DEF EndsAgree, ReadsWereAsked, TypeOK
  <2> QED
    BY <2>1, <2>2, FewerFrames, Zenon
<1>5. ASSUME NEW s \in Sockets, Settle(s) PROVE FrameInv'
  <2>1. /\ UNCHANGED <<pending, answer, server, up>> /\ active = s /\ active' = NoSocket
        /\ \A q \in Rpcs : inFlight'[q] = IF inFlight[q] = s THEN NoSocket ELSE inFlight[q]
        /\ \A t \in Sockets : client'[t] = IF t = s THEN "closed" ELSE client[t]
        /\ \A t \in Sockets : down'[t] = IF t = s THEN <<>> ELSE down[t]
    BY <1>5, Zenon DEF Settle, AbortReadsForSocket, workerVars, TypeOK
  <2>2. \A q \in Rpcs : inFlight'[q] = NoSocket
    BY <2>1, Zenon DEF ReadsServeActiveSocket
  <2>3. EndsAgree'
    BY <2>1, Zenon DEF EndsAgree
  <2> QED
    BY <2>1, <2>2, <2>3, FewerFrames, Zenon DEF ReadsWereAsked
<1>6. ASSUME NEW s \in Sockets, OnMessage(s) PROVE FrameInv'
  <2>1. /\ down[s] \in Seq(Rpcs) /\ down[s] # <<>> /\ Each(down[s])
        /\ active = s /\ client[s] \in {"open", "closing"}
        /\ UNCHANGED <<pending, answer, server, active, running>>
        /\ down'[s] = Tail(down[s]) /\ \A t \in Sockets \ {s} : down'[t] = down[t]
    BY <1>6, Zenon DEF OnMessage, TypeOK, workerVars, OnePlace
  <2>2. PICK r \in Rpcs : /\ r = Head(down[s]) /\ r \in Ids(down[s])
                          /\ Ids(Tail(down[s])) = Ids(down[s]) \ {r} /\ Each(Tail(down[s]))
    <3> HIDE DEF SocketInv, FrameInv
    <3> QED BY <2>1, TailIds, Zenon
  <2>3. r \in Ids(down[s]) /\ Ids(down'[s]) = Ids(down[s]) \ {r} /\ Each(down'[s])
    BY <2>1, <2>2, Zenon
  <2>4. inFlight[r] = NoSocket /\ \A t \in Sockets : r \notin RpcIds(up[t])
    BY <2>3, Zenon DEF OnePlace
  <2>5. \A t \in Sockets \ {s} : down[t] = <<>> /\ down'[t] = <<>>
    BY <2>1, Zenon DEF EndsAgree
  <2>6. \A t \in Sockets : Each(down'[t]) /\ Ids(down'[t]) \subseteq Ids(down[t]) \ {r}
    BY <2>3, <2>5, EmptyIds, Zenon
  <2>7. CASE /\ SendFrame(s, [rpc |-> r, outcome |-> "UPDATE_ORCHESTRATOR_UNAVAILABLE"])
             /\ UNCHANGED <<client, inFlight>>
    <3>1. Under(r, s)
      BY <2>3, Zenon DEF Under
    <3> QED
      BY <2>1, <2>4, <2>5, <2>6, <2>7, <3>1, SentFrames, Zenon DEF Outcomes
  <2>8. CASE inFlight' = [inFlight EXCEPT ![r] = s] /\ UNCHANGED <<client, up>>
    <3>1. \A q \in Rpcs : inFlight'[q] = IF q = r THEN s ELSE inFlight[q]
      BY <2>8, Zenon DEF TypeOK
    <3>2. EndsAgree'
      BY <2>1, <2>5, <2>8, Zenon DEF EndsAgree
    <3>3. ReadsWereAsked'
      BY <2>1, <2>8, <3>1 DEF ReadsWereAsked
    <3>4. OnePlace'
      <4>1. OnePlace
        BY Zenon
      <4> HIDE DEF SocketInv, FrameInv
      <4>2. \A t \in Sockets : Each(down'[t]) /\ EachRpc(up'[t])
        BY <2>6, <2>8, <4>1, Zenon DEF OnePlace
      <4>3. \A q \in Rpcs : \A t, u \in Sockets : ~ (q \in Ids(down'[t]) /\ q \in RpcIds(up'[u]))
        BY <2>6, <2>8, <4>1, Zenon DEF OnePlace
      <4>4. \A q \in Rpcs : inFlight'[q] # NoSocket =>
                \A t \in Sockets : q \notin Ids(down'[t]) /\ q \notin RpcIds(up'[t])
        BY <2>4, <2>6, <2>8, <3>1, <4>1 DEF OnePlace
      <4> QED BY <4>2, <4>3, <4>4, Zenon DEF OnePlace
    <3>5. \A q \in Rpcs, t \in Sockets : Under(q, t)' => Under(q, t)
      BY <2>3, <2>6, <2>8, <3>1 DEF Under
    <3>6. Expected'
      BY <2>1, <3>5, Zenon DEF Expected
    <3> QED
      BY <3>2, <3>3, <3>4, <3>6, Zenon
  <2> QED
    BY <1>6, <2>2, <2>4, <2>7, <2>8, Zenon DEF OnMessage
<1>7. CASE AbortOpen
  <2>1. PICK s \in Sockets : s = active
    BY <1>7, Zenon DEF AbortOpen, TypeOK
  <2>2. /\ UNCHANGED <<pending, answer, server, active, down, up>> /\ client[s] = "open"
        /\ \A q \in Rpcs : inFlight'[q] = IF inFlight[q] = s THEN NoSocket ELSE inFlight[q]
        /\ \A t \in Sockets : client'[t] = IF t = s THEN "closing" ELSE client[t]
    BY <1>7, <2>1, Zenon DEF AbortOpen, AbortReadsForSocket, workerVars, TypeOK
  <2>3. EndsAgree' /\ ReadsWereAsked'
    BY <2>2 DEF EndsAgree, ReadsWereAsked, TypeOK
  <2> QED
    BY <2>2, <2>3, FewerFrames, Zenon
<1>8. CASE AbortOther
  <2>1. /\ UNCHANGED <<pending, answer, server, up>> /\ active' = NoSocket
        /\ \A t \in Sockets : client'[t] = IF t = active THEN "closed" ELSE client[t]
        /\ \A t \in Sockets : down'[t] = IF t = active THEN <<>> ELSE down[t]
    BY <1>8, Zenon DEF AbortOther, workerVars
  <2>2. \A q \in Rpcs : inFlight'[q] = NoSocket
    BY <1>8, Zenon DEF AbortOther, AbortReadsForSocket, ReadsServeActiveSocket
  <2>3. EndsAgree'
    BY <2>1, Zenon DEF EndsAgree
  <2> QED
    BY <2>1, <2>2, <2>3, FewerFrames, Zenon DEF ReadsWereAsked
<1>9. CASE Run
  BY <1>9, FewerFrames, Zenon DEF Run, workerVars, EndsAgree, ReadsWereAsked
<1> QED
  BY <1>1, <1>2, <1>3, <1>4, <1>5, <1>6, <1>7, <1>8, <1>9, Zenon

\* On the open connection only responses are under way that their callers wait for there, or
\* stopped waiting for when their time was up, and one for each call: a response to anybody
\* else, for which webSocketMessage closes the connection, never comes.
THEOREM ResponsesAreExpectedHolds == Spec => []ResponsesAreExpected
<1>1. Init => FrameInv
  BY EmptyIds, ChannelAssumption
     DEF Init, FrameInv, EndsAgree, ReadsWereAsked, OnePlace, Expected
<1>2. SocketInv /\ FrameInv /\ [Next]_vars => FrameInv'
  <2> SUFFICES ASSUME SocketInv, FrameInv, [Next]_vars PROVE FrameInv'
    BY Zenon
  <2>1. CASE UNCHANGED vars
    BY <2>1, FewerFrames, Zenon DEF vars, workerVars, connectorVars, FrameInv, EndsAgree, ReadsWereAsked
  <2> QED
    BY <2>1, RpcFrames, WorkerFrames, ConnectorFrames, Zenon DEF Next
<1>3. SocketInv /\ FrameInv => ResponsesAreExpected
  <2> SUFFICES ASSUME SocketInv, FrameInv, NEW s \in Sockets, server[s] = "open",
                      NEW i \in 1..Len(up[s])
               PROVE  /\ pending[up[s][i].rpc] = s \/ answer[up[s][i].rpc] = "transport_timeout"
                      /\ \A j \in 1..Len(up[s]) : up[s][j].rpc = up[s][i].rpc => j = i
    BY Zenon DEF ResponsesAreExpected, OpenSockets
  <2>1. up[s][i].rpc \in Rpcs /\ Under(up[s][i].rpc, s)
    <3>1. up[s][i] \in Frame
      BY DEF SocketInv, TypeOK
    <3> QED
      BY <3>1, Zenon DEF Frame, Under, RpcIds
  <2>2. EachRpc(up[s])
    BY Zenon DEF FrameInv, OnePlace
  <2> QED
    BY <2>1, <2>2, Zenon DEF FrameInv, Expected, EachRpc
<1> QED
  BY <1>1, <1>2, <1>3, SocketInvariant, PTL DEF Spec
==============================================================================
