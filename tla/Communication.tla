---------------------------- MODULE Communication ----------------------------
(***************************************************************************)
(* The communication core of the Server, as three threads over shared      *)
(* objects:                                                                *)
(*   - the Server control thread (server::run, execute_*, shutdown and     *)
(*     communication::stop), one program counter pc;                       *)
(*   - the event loop of a TCP endpoint (tcp_endpoint::implementation),    *)
(*     which accepts, dispatches, writes and closes;                       *)
(*   - the console reader, which only pushes requests.                     *)
(* They meet in the request_queue, in each communication_connection (its   *)
(* closing flag, outbound channel, outstanding ids and write barrier) and  *)
(* in the lifetime tokens that keep a connection object allocated.         *)
(*                                                                         *)
(* An overflowing outbound_channel::enqueue and the begin_close() its      *)
(* caller makes next are one step, and so is one frame's dispatch(): the   *)
(* outstanding ids belong to the event loop alone, and every other effect  *)
(* of those calls is one critical section.  Which poll descriptor an event *)
(* is attributed to is the subject of TcpEventLoop; here any peer may fail *)
(* at any time.  The channel counts messages; the bytes of a message,      *)
(* which its second limit counts, are left out.                            *)
(***************************************************************************)
EXTENDS Integers, Sequences, FiniteSets, ServerRequests

CONSTANTS
  Conn,            \* connections the endpoint may accept; each object is used once
  RequestIds,      \* client-chosen request_id values
  Kinds,           \* the server_request_kind values clients submit
  Audiences,       \* the sets of sessions a CLIENT login name can match
  Mode,            \* server_context::mode
  ConnectionLimit, \* tcp_connection_gate::limit
  OutboundLimit,   \* capacity of an outbound channel, in messages
  FrameBudget,     \* bound: frames one client sends
  ConsoleBudget,   \* bound: requests typed at the console
  PollMayFail,     \* may poll() return an error and end the event loop?
  None             \* no connection, no message, no request kind

ASSUME ModeAssumption == Mode \in Modes
ASSUME KindsAssumption == Kinds \subseteq RequestKinds
ASSUME LimitAssumption == /\ ConnectionLimit \in Nat
                          /\ OutboundLimit \in Nat
                          /\ FrameBudget \in Nat
                          /\ ConsoleBudget \in Nat
ASSUME AudienceAssumption == Audiences \subseteq SUBSET Conn
ASSUME PollAssumption == PollMayFail \in BOOLEAN

Console == "console"
NoId == "no_id"
NoState == "no_state"

ASSUME NamesAssumption == /\ Console \notin Conn /\ None \notin Conn
                          /\ NoId \notin RequestIds

\* communication_control_message: the four alternatives of the variant; a
\* request comes from a connection or from the console.
ControlMessages ==
  [type : {"request"}, conn : Conn, id : RequestIds, kind : RequestKinds, to : {{}}]
    \cup [type : {"request"}, conn : {Console}, id : {NoId}, kind : RequestKinds, to : {{}}]
    \cup [type : {"login"}, conn : Conn, id : RequestIds, kind : {None}, to : {{}}]
    \cup [type : {"client"}, conn : Conn, id : RequestIds, kind : {None}, to : SUBSET Conn]
    \cup [type : {"close"}, conn : Conn, id : {NoId}, kind : {None}, to : {{}}]

ControlMessage(type, conn, id, kind, to) ==
  [type |-> type, conn |-> conn, id |-> id, kind |-> kind, to |-> to]

\* outbound_message: a response, a SERVER_STATE action or a CLIENT action.
\* "of" says what a response answers, "state" is its optional state payload.
Sources == RequestKinds \cup {"login", "client", "rejected", "duplicate"}

Responses == [type : {"response"}, id : RequestIds, of : Sources,
              release : BOOLEAN, state : ProjectStates \cup {NoState}]

Events == [type : {"server_state"}, old : ProjectStates, new : ProjectStates]
            \cup [type : {"client_action"}]

OutboundMessages == Responses \cup Events

ASSUME NoneAssumption == None \notin OutboundMessages

Response(id, of, state) ==
  [type |-> "response", id |-> id, of |-> of, release |-> TRUE, state |-> state]

\* Mutant: the rejection releases the id that the first request still uses.
DuplicateResponse_Releases(id) == Response(id, "duplicate", NoState)

DuplicateResponse(id) ==
  [type |-> "response", id |-> id, of |-> "duplicate", release |-> FALSE, state |-> NoState]

VARIABLES
  accepting, queue,                        \* request_queue
  pc, current, reply, old, targets,        \* locals of server::run
  discarded,                               \* local of stop_accepting_and_discard
  slot, leaseValid, barrier,               \* server_context
  registry,                                \* communication::connections
  peer, sending, due, ioStopping, ioExited,\* tcp_endpoint::implementation
  gate,                                    \* tcp_connection_gate::active
  closing, loggedIn, channel,              \* communication_connection
  outstanding, awaited, written,
  view, sent, typed                        \* the clients and the console

serverVars == <<pc, current, reply, old, targets, discarded, slot, barrier>>
queueVars  == <<accepting, queue>>
ioVars     == <<peer, sending, due, ioStopping, ioExited, gate>>
barrierVars == <<awaited, written>>
clientVars == <<view, sent, typed>>
vars == <<serverVars, queueVars, ioVars, barrierVars, clientVars, leaseValid,
          registry, closing, loggedIn, channel, outstanding>>

\* The control thread is inside server::run, before shutdown().
Serving == {"wait", "recheck", "route", "present", "barrier", "publish"}
Stopping == {"shutdown", "discard", "close", "join"}

NoMessage == ControlMessage("none", Console, NoId, None, {})

QueueType ==
  /\ accepting \in BOOLEAN
  /\ queue \in Seq(ControlMessages)
  /\ discarded \in Seq(ControlMessages)
  /\ current \in ControlMessages \cup {NoMessage}

ServerType ==
  /\ pc \in Serving \cup Stopping \cup {"stopped", "crashed"}
  /\ reply \in Responses \cup {None}
  /\ old \in ProjectStates
  /\ targets \subseteq Conn
  /\ slot \in Slots
  /\ leaseValid \in BOOLEAN
  /\ barrier \in {"idle", "written", "gave_up"}
  /\ registry \subseteq Conn

IoType ==
  /\ peer \in [Conn -> {"new", "open", "gone"}]
  /\ sending \in [Conn -> OutboundMessages \cup {None}]
  /\ due \in Conn \cup {None}
  /\ ioStopping \in BOOLEAN
  /\ ioExited \in BOOLEAN
  /\ gate \in Int

ConnectionType ==
  /\ closing \in [Conn -> BOOLEAN]
  /\ loggedIn \in [Conn -> BOOLEAN]
  /\ channel \in [Conn -> Seq(OutboundMessages)]
  /\ outstanding \in [Conn -> SUBSET RequestIds]
  /\ awaited \in [Conn -> RequestIds \cup {NoId}]
  /\ written \in [Conn -> BOOLEAN]

ClientType ==
  /\ view \in [Conn -> [state : ProjectStates \cup {NoState}, shutdownSeen : BOOLEAN]]
  /\ sent \in [Conn -> Nat]
  /\ typed \in Nat

\* The type invariant; its QueueType part says which alternatives of the
\* control-message variant carry a connection, an id and a request kind.
TypeOK == QueueType /\ ServerType /\ IoType /\ ConnectionType /\ ClientType

Init ==
  /\ accepting = TRUE
  /\ queue = <<>>
  /\ discarded = <<>>
  /\ pc = "wait"
  /\ current = NoMessage
  /\ reply = None
  /\ old = "unloaded"
  /\ targets = {}
  /\ slot = EmptySlot
  /\ leaseValid = TRUE
  /\ barrier = "idle"
  /\ registry = {}
  /\ peer = [c \in Conn |-> "new"]
  /\ sending = [c \in Conn |-> None]
  /\ due = None
  /\ ioStopping = FALSE
  /\ ioExited = FALSE
  /\ gate = 0
  /\ closing = [c \in Conn |-> FALSE]
  /\ loggedIn = [c \in Conn |-> FALSE]
  /\ channel = [c \in Conn |-> <<>>]
  /\ outstanding = [c \in Conn |-> {}]
  /\ awaited = [c \in Conn |-> NoId]
  /\ written = [c \in Conn |-> FALSE]
  /\ view = [c \in Conn |-> [state |-> NoState, shutdownSeen |-> FALSE]]
  /\ sent = [c \in Conn |-> 0]
  /\ typed = 0

-----------------------------------------------------------------------------
(***************************************************************************)
(* The connection object                                                   *)
(***************************************************************************)

\* A lifetime holder exists: the peer that owns the connection, or a token
\* inside a control message that is queued, being executed or being discarded.
\* When the last holder is released the object is deleted.
Alive(c) ==
  \/ peer[c] = "open"
  \/ \E i \in DOMAIN queue : queue[i].conn = c
  \/ \E i \in DOMAIN discarded : discarded[i].conn = c
  \/ current.conn = c

\* communication_connection::begin_close
BeginClose(c) ==
  /\ closing' = [closing EXCEPT ![c] = TRUE]
  /\ channel' = [channel EXCEPT ![c] = <<>>]

\* Mutant: a closed channel still takes messages.
HasRoom_IgnoresClosing(c) == Len(channel[c]) < OutboundLimit

HasRoom(c) == ~closing[c] /\ Len(channel[c]) < OutboundLimit

\* enqueue_response, enqueue_server_state, enqueue_client_action: on a closed
\* or a full channel the connection closes and its queued output is dropped.
Enqueue(c, m) ==
  IF HasRoom(c)
  THEN /\ channel' = [channel EXCEPT ![c] = Append(@, m)]
       /\ UNCHANGED closing
  ELSE BeginClose(c)

\* request_queue::push
Push(m) ==
  /\ queue' = IF accepting THEN Append(queue, m) ELSE queue
  /\ UNCHANGED accepting

-----------------------------------------------------------------------------
(***************************************************************************)
(* The TCP event loop.  due names the peer whose handler returned false:   *)
(* close_peer() is the loop's next step.                                   *)
(***************************************************************************)

IoReady == ~ioExited /\ due = None /\ pc # "crashed"

\* accept_peers, one accepted socket; a socket the gate refuses is closed.
AcceptPeer(c) ==
  /\ IoReady
  /\ peer[c] = "new"
  /\ gate < ConnectionLimit
  /\ gate' = gate + 1
  /\ peer' = [peer EXCEPT ![c] = "open"]
  /\ UNCHANGED <<serverVars, queueVars, sending, due, ioStopping, ioExited, barrierVars,
                 clientVars, leaseValid, registry, closing, loggedIn, channel, outstanding>>

\* dispatch(): the three frames that end in a control message.
Frames(c) ==
  {ControlMessage("login", c, id, None, {}) : id \in RequestIds}
    \cup {ControlMessage("client", c, id, None, to) : id \in RequestIds, to \in Audiences}
    \cup {ControlMessage("request", c, id, kind, {}) : id \in RequestIds, kind \in Kinds}

\* reserve_request() refuses: the id is in use, or the connection is closing.
DispatchDuplicate(c, m) ==
  /\ closing[c] \/ m.id \in outstanding[c]
  /\ Enqueue(c, DuplicateResponse(m.id))
  /\ due' = IF HasRoom(c) THEN None ELSE c
  /\ UNCHANGED <<outstanding, queueVars>>

\* A request before LOGIN was committed is answered by the transport itself.
DispatchRejected(c, m) ==
  /\ ~closing[c] /\ m.id \notin outstanding[c]
  /\ m.type # "login" /\ ~loggedIn[c]
  /\ outstanding' = [outstanding EXCEPT ![c] = @ \cup {m.id}]
  /\ Enqueue(c, Response(m.id, "rejected", NoState))
  /\ due' = IF HasRoom(c) THEN None ELSE c
  /\ UNCHANGED queueVars

DispatchControl(c, m) ==
  /\ ~closing[c] /\ m.id \notin outstanding[c]
  /\ m.type = "login" \/ loggedIn[c]
  /\ Push(m)
  /\ outstanding' = IF accepting THEN [outstanding EXCEPT ![c] = @ \cup {m.id}]
                    ELSE outstanding
  /\ due' = IF accepting THEN None ELSE c
  /\ UNCHANGED <<closing, channel>>

Dispatch(c) ==
  /\ IoReady
  /\ peer[c] = "open"
  /\ sent[c] < FrameBudget
  /\ sent' = [sent EXCEPT ![c] = @ + 1]
  /\ \E m \in Frames(c) :
       DispatchDuplicate(c, m) \/ DispatchRejected(c, m) \/ DispatchControl(c, m)
  /\ UNCHANGED <<serverVars, peer, sending, ioStopping, ioExited, gate, barrierVars,
                 view, typed, leaseValid, registry, loggedIn>>

\* Mutant: the writer forgets to release the id.
Released_Never(c, m) == outstanding

\* communication_connection::try_next releases the id of the response it takes.
Released(c, m) ==
  IF m.type = "response" /\ m.release
  THEN [outstanding EXCEPT ![c] = @ \ {m.id}] ELSE outstanding

\* prepare_output / prepare_one_output for one peer whose send buffer is empty.
\* A message that does not encode into one frame closes the connection.
TakeOutput(c) ==
  IF closing[c] \/ channel[c] = <<>>
  THEN /\ sending' = [sending EXCEPT ![c] = None]
       /\ UNCHANGED <<closing, channel, outstanding>>
  ELSE /\ outstanding' = Released(c, Head(channel[c]))
       /\ \/ /\ sending' = [sending EXCEPT ![c] = Head(channel[c])]
             /\ channel' = [channel EXCEPT ![c] = Tail(@)]
             /\ UNCHANGED closing
          \/ /\ sending' = [sending EXCEPT ![c] = None]
             /\ BeginClose(c)

PrepareOutput(c) ==
  /\ IoReady
  /\ peer[c] = "open" /\ sending[c] = None
  /\ ~closing[c] /\ channel[c] # <<>>
  /\ TakeOutput(c)
  /\ UNCHANGED <<serverVars, queueVars, peer, due, ioStopping, ioExited, gate, barrierVars,
                 clientVars, leaseValid, registry, loggedIn>>

\* What the client knows once message m reached it.
Seen(v, m) ==
  [state |-> CASE m.type = "server_state" -> m.new
               [] m.type = "response" /\ m.state # NoState -> m.state
               [] OTHER -> v.state,
   shutdownSeen |-> v.shutdownSeen \/ (m.type = "response" /\ m.of = "shutdown")]

\* communication_connection::mark_written matches by request id.
MarksBarrier(c, m) == m.type = "response" /\ m.id = awaited[c]

MarkWritten(c, m) ==
  /\ written' = [written EXCEPT ![c] = @ \/ MarksBarrier(c, m)]
  /\ UNCHANGED awaited

\* send_pending reaches the end of the send buffer.
SendPending(c) ==
  /\ IoReady
  /\ peer[c] = "open" /\ sending[c] # None
  /\ view' = [view EXCEPT ![c] = Seen(@, sending[c])]
  /\ MarkWritten(c, sending[c])
  /\ TakeOutput(c)
  /\ UNCHANGED <<serverVars, queueVars, peer, due, ioStopping, ioExited, gate,
                 sent, typed, leaseValid, registry, loggedIn>>

\* A hang-up, a read or write error, an end of stream or a malformed frame; or
\* the loop notices a connection another thread has closed.
PeerEnds(c) ==
  /\ IoReady
  /\ peer[c] = "open"
  /\ due' = c
  /\ UNCHANGED <<serverVars, queueVars, peer, sending, ioStopping, ioExited, gate, barrierVars,
                 clientVars, leaseValid, registry, closing, loggedIn, channel, outstanding>>

\* expire_peers: DEMO connections have a bounded lifetime.
ExpirePeer(c) ==
  /\ IoReady
  /\ Mode = "demo"
  /\ peer[c] = "open" /\ ~closing[c]
  /\ BeginClose(c)
  /\ UNCHANGED <<serverVars, queueVars, ioVars, barrierVars, clientVars, leaseValid,
                 registry, loggedIn, outstanding>>

\* Mutant: the peer stays in the vector after its close was posted.
ClosePeer_KeepsPeer(c) ==
  /\ due = c
  /\ pc # "crashed"
  /\ BeginClose(c)
  /\ Push(ControlMessage("close", c, NoId, None, {}))
  /\ due' = None
  /\ UNCHANGED <<serverVars, peer, sending, gate, ioStopping, ioExited, barrierVars, clientVars,
                 leaseValid, registry, loggedIn, outstanding>>

\* Mutant: the gate slot of a closed peer is not given back.
ClosePeer_KeepsGate(c) ==
  /\ due = c
  /\ pc # "crashed"
  /\ BeginClose(c)
  /\ Push(ControlMessage("close", c, NoId, None, {}))
  /\ peer' = [peer EXCEPT ![c] = "gone"]
  /\ sending' = [sending EXCEPT ![c] = None]
  /\ due' = None
  /\ UNCHANGED <<serverVars, gate, ioStopping, ioExited, barrierVars, clientVars, leaseValid,
                 registry, loggedIn, outstanding>>

\* close_peer(value, true) and the erase of the peer.
ClosePeer(c) ==
  /\ due = c
  /\ pc # "crashed"
  /\ BeginClose(c)
  /\ Push(ControlMessage("close", c, NoId, None, {}))
  /\ peer' = [peer EXCEPT ![c] = "gone"]
  /\ sending' = [sending EXCEPT ![c] = None]
  /\ gate' = gate - 1
  /\ due' = None
  /\ UNCHANGED <<serverVars, ioStopping, ioExited, barrierVars, clientVars, leaseValid,
                 registry, loggedIn, outstanding>>

\* The loop ends when stop() asked for it, or when poll() fails.
IoExit ==
  /\ IoReady
  /\ ioStopping \/ PollMayFail
  /\ ioExited' = TRUE
  /\ UNCHANGED <<serverVars, queueVars, peer, sending, due, ioStopping, gate, barrierVars,
                 clientVars, leaseValid, registry, closing, loggedIn, channel, outstanding>>

IoNext ==
  \/ \E c \in Conn : \/ AcceptPeer(c) \/ Dispatch(c) \/ PrepareOutput(c) \/ SendPending(c)
                     \/ PeerEnds(c) \/ ExpirePeer(c) \/ ClosePeer(c)
  \/ IoExit

-----------------------------------------------------------------------------
(***************************************************************************)
(* The console reader and the clock                                        *)
(***************************************************************************)

\* server_console::publish; the console origin carries no lifetime token.
ConsoleSubmit ==
  /\ pc \notin {"close", "join", "stopped", "crashed"}
  /\ typed < ConsoleBudget
  /\ typed' = typed + 1
  /\ \E kind \in Kinds : Push(ControlMessage("request", Console, NoId, kind, {}))
  /\ UNCHANGED <<serverVars, ioVars, barrierVars, view, sent, leaseValid, registry,
                 closing, loggedIn, channel, outstanding>>

\* server_lease::expires_at passes.
LeaseExpires ==
  /\ leaseValid
  /\ leaseValid' = FALSE
  /\ UNCHANGED <<serverVars, queueVars, ioVars, barrierVars, clientVars, registry,
                 closing, loggedIn, channel, outstanding>>

-----------------------------------------------------------------------------
(***************************************************************************)
(* The Server control thread                                               *)
(***************************************************************************)

\* The lease check at the top of the loop, and the deadline of wait_pop_until.
WaitExpired ==
  /\ pc = "wait"
  /\ ~leaseValid
  /\ pc' = "shutdown"
  /\ UNCHANGED <<current, reply, old, targets, discarded, slot, barrier, queueVars, ioVars,
                 barrierVars, clientVars, leaseValid, registry, closing, loggedIn, channel,
                 outstanding>>

\* request_queue::wait_pop_until finds a message.
WaitPop ==
  /\ pc = "wait"
  /\ queue # <<>>
  /\ current' = Head(queue)
  /\ queue' = Tail(queue)
  /\ pc' = "recheck"
  /\ UNCHANGED <<reply, old, targets, discarded, slot, barrier, accepting, ioVars,
                 barrierVars, clientVars, leaseValid, registry, closing, loggedIn, channel,
                 outstanding>>

\* The second lease check: the popped message is destroyed unexecuted.
DropExpired ==
  /\ pc = "recheck"
  /\ ~leaseValid
  /\ current' = NoMessage
  /\ pc' = "shutdown"
  /\ UNCHANGED <<reply, old, targets, discarded, slot, barrier, queueVars, ioVars,
                 barrierVars, clientVars, leaseValid, registry, closing, loggedIn, channel,
                 outstanding>>

Starts(type) == pc = "recheck" /\ leaseValid /\ current.type = type

\* execute_message, and arm_written when the request is SHUTDOWN.
ExecuteRequest ==
  /\ Starts("request")
  /\ old' = slot.state
  /\ \E out \in ExecuteMessage(Mode, current.kind, slot) :
       /\ slot' = out.slot
       /\ reply' = IF current.conn = Console THEN None
                   ELSE Response(current.id, current.kind,
                                 IF current.kind = "get_state" THEN out.slot.state ELSE NoState)
  /\ IF current.kind = "shutdown" /\ current.conn # Console
     THEN /\ awaited' = [awaited EXCEPT ![current.conn] = current.id]
          /\ written' = [written EXCEPT ![current.conn] = FALSE]
     ELSE UNCHANGED barrierVars
  /\ pc' = "present"
  /\ UNCHANGED <<current, targets, discarded, barrier, queueVars, ioVars, clientVars,
                 leaseValid, registry, closing, loggedIn, channel, outstanding>>

\* commit_login succeeds on an open connection that has not logged in yet.
CommitsLogin(c) == ~closing[c] /\ ~loggedIn[c]

\* Mutant: the LOGIN response reports the state of an earlier request.
ExecuteLogin_StaleState ==
  /\ Starts("login")
  /\ LET c == current.conn IN
     \/ /\ CommitsLogin(c)
        /\ loggedIn' = [loggedIn EXCEPT ![c] = TRUE]
        /\ registry' = registry \cup {c}
        /\ reply' = Response(current.id, "login", old)
     \/ /\ reply' = Response(current.id, "login", NoState)
        /\ UNCHANGED <<loggedIn, registry>>
  /\ pc' = "present"
  /\ UNCHANGED <<current, old, targets, discarded, slot, barrier, queueVars, ioVars,
                 barrierVars, clientVars, leaseValid, closing, channel, outstanding>>

\* execute_login up to its enqueue_response.  The login name may be invalid.
ExecuteLogin ==
  /\ Starts("login")
  /\ LET c == current.conn IN
     \/ /\ CommitsLogin(c)
        /\ loggedIn' = [loggedIn EXCEPT ![c] = TRUE]
        /\ registry' = registry \cup {c}
        /\ reply' = Response(current.id, "login", slot.state)
     \/ /\ reply' = Response(current.id, "login", NoState)
        /\ UNCHANGED <<loggedIn, registry>>
  /\ pc' = "present"
  /\ UNCHANGED <<current, old, targets, discarded, slot, barrier, queueVars, ioVars,
                 barrierVars, clientVars, leaseValid, closing, channel, outstanding>>

\* execute_client: route_client visits the registry, then the sender is answered.
ExecuteClient ==
  /\ Starts("client")
  /\ reply' = Response(current.id, "client", NoState)
  /\ IF loggedIn[current.conn] /\ ~closing[current.conn]
     THEN targets' = registry \cap current.to /\ pc' = "route"
     ELSE targets' = {} /\ pc' = "present"
  /\ UNCHANGED <<current, old, discarded, slot, barrier, queueVars, ioVars, barrierVars,
                 clientVars, leaseValid, registry, closing, loggedIn, channel, outstanding>>

RouteClient(c) ==
  /\ pc = "route"
  /\ c \in targets
  /\ targets' = targets \ {c}
  /\ IF loggedIn[c] /\ ~closing[c]
     THEN Enqueue(c, [type |-> "client_action"])
     ELSE UNCHANGED <<closing, channel>>
  /\ UNCHANGED <<pc, current, reply, old, discarded, slot, barrier, queueVars, ioVars,
                 barrierVars, clientVars, leaseValid, registry, loggedIn, outstanding>>

RouteDone ==
  /\ pc = "route"
  /\ targets = {}
  /\ pc' = "present"
  /\ UNCHANGED <<current, reply, old, targets, discarded, slot, barrier, queueVars, ioVars,
                 barrierVars, clientVars, leaseValid, registry, closing, loggedIn, channel,
                 outstanding>>

\* Mutant: the registry entry survives the close.
ExecuteClose_KeepsEntry ==
  /\ Starts("close")
  /\ BeginClose(current.conn)
  /\ current' = NoMessage
  /\ pc' = "wait"
  /\ UNCHANGED <<reply, old, targets, discarded, slot, barrier, queueVars, ioVars, barrierVars,
                 clientVars, leaseValid, registry, loggedIn, outstanding>>

\* execute_connection_close; the message and its token die with the iteration.
ExecuteClose ==
  /\ Starts("close")
  /\ BeginClose(current.conn)
  /\ registry' = registry \ {current.conn}
  /\ current' = NoMessage
  /\ pc' = "wait"
  /\ UNCHANGED <<reply, old, targets, discarded, slot, barrier, queueVars, ioVars, barrierVars,
                 clientVars, leaseValid, loggedIn, outstanding>>

\* server_request_origin::present, or the enqueue_response that ends a handler.
\* After a request, publish_server_state visits the registry if the state moved.
Present ==
  /\ pc = "present"
  /\ IF reply = None THEN UNCHANGED <<closing, channel>> ELSE Enqueue(current.conn, reply)
  /\ pc' = IF current.type = "request" /\ current.kind = "shutdown" /\ current.conn # Console
           THEN "barrier" ELSE "publish"
  /\ targets' = IF current.type = "request" /\ old # slot.state THEN registry ELSE {}
  /\ reply' = None
  /\ UNCHANGED <<current, old, discarded, slot, barrier, queueVars, ioVars, barrierVars,
                 clientVars, leaseValid, registry, loggedIn, outstanding>>

\* Mutant: the barrier has no deadline and ignores closing connections.
BarrierEnds_NoDeadline(result) ==
  /\ pc = "barrier"
  /\ result = "written" /\ written[current.conn]
  /\ barrier' = result
  /\ awaited' = [awaited EXCEPT ![current.conn] = NoId]
  /\ written' = [written EXCEPT ![current.conn] = FALSE]
  /\ pc' = "publish"
  /\ UNCHANGED <<current, reply, old, targets, discarded, slot, queueVars, ioVars, clientVars,
                 leaseValid, registry, closing, loggedIn, channel, outstanding>>

\* wait_response_written: completion, or the timeout / a closing connection.
BarrierEnds(result) ==
  /\ pc = "barrier"
  /\ written[current.conn] = (result = "written")
  /\ barrier' = result
  /\ awaited' = [awaited EXCEPT ![current.conn] = NoId]
  /\ written' = [written EXCEPT ![current.conn] = FALSE]
  /\ pc' = "publish"
  /\ UNCHANGED <<current, reply, old, targets, discarded, slot, queueVars, ioVars, clientVars,
                 leaseValid, registry, closing, loggedIn, channel, outstanding>>

PublishState(c) ==
  /\ pc = "publish"
  /\ c \in targets
  /\ targets' = targets \ {c}
  /\ IF loggedIn[c]
     THEN Enqueue(c, [type |-> "server_state", old |-> old, new |-> slot.state])
     ELSE UNCHANGED <<closing, channel>>
  /\ UNCHANGED <<pc, current, reply, old, discarded, slot, barrier, queueVars, ioVars,
                 barrierVars, clientVars, leaseValid, registry, loggedIn, outstanding>>

\* The end of one iteration of server::run: the message is destroyed.
FinishMessage ==
  /\ pc = "publish"
  /\ targets = {}
  /\ current' = NoMessage
  /\ pc' = IF current.type = "request" /\ current.kind = "shutdown" THEN "shutdown" ELSE "wait"
  /\ UNCHANGED <<reply, old, targets, discarded, slot, barrier, queueVars, ioVars, barrierVars,
                 clientVars, leaseValid, registry, closing, loggedIn, channel, outstanding>>

\* request_queue::stop_accepting_and_discard, the critical section ...
StopAccepting ==
  /\ pc = "shutdown"
  /\ accepting' = FALSE
  /\ discarded' = queue
  /\ queue' = <<>>
  /\ pc' = "discard"
  /\ UNCHANGED <<current, reply, old, targets, slot, barrier, ioVars, barrierVars, clientVars,
                 leaseValid, registry, closing, loggedIn, channel, outstanding>>

\* ... and the destruction of the swapped-out messages, tokens included.
Discard ==
  /\ pc = "discard"
  /\ discarded' = <<>>
  /\ targets' = registry
  /\ pc' = "close"
  /\ UNCHANGED <<current, reply, old, slot, barrier, queueVars, ioVars, barrierVars, clientVars,
                 leaseValid, registry, closing, loggedIn, channel, outstanding>>

\* communication::stop, one registered connection.  A deleted object is a use
\* after free: the process dies, or the write lands in freed memory.
CloseRegistered(c) ==
  /\ pc = "close"
  /\ c \in targets
  /\ targets' = targets \ {c}
  /\ IF Alive(c)
     THEN BeginClose(c) /\ UNCHANGED pc
     ELSE UNCHANGED <<closing, channel>> /\ pc' \in {"close", "crashed"}
  /\ UNCHANGED <<current, reply, old, discarded, slot, barrier, queueVars, ioVars, barrierVars,
                 clientVars, leaseValid, registry, loggedIn, outstanding>>

\* connections.clear(), then tcp_endpoint::stop() asks the event loop to end.
StopEndpoint ==
  /\ pc = "close"
  /\ targets = {}
  /\ registry' = {}
  /\ ioStopping' = TRUE
  /\ pc' = "join"
  /\ UNCHANGED <<current, reply, old, targets, discarded, slot, barrier, queueVars, peer,
                 sending, due, ioExited, gate, barrierVars, clientVars, leaseValid, closing,
                 loggedIn, channel, outstanding>>

\* Mutant: stop() joins the event loop and forgets the peers it left open.
JoinEndpoint_KeepsPeers ==
  /\ pc = "join"
  /\ ioExited
  /\ slot' = EmptySlot
  /\ pc' = "stopped"
  /\ UNCHANGED <<current, reply, old, targets, discarded, barrier, queueVars, ioVars, closing,
                 channel, barrierVars, clientVars, leaseValid, registry, loggedIn, outstanding>>

\* The join; close_peer(value, false) for the remaining peers; peers.clear();
\* then the rest of server::shutdown.
JoinEndpoint ==
  /\ pc = "join"
  /\ ioExited
  /\ closing' = [c \in Conn |-> closing[c] \/ peer[c] = "open"]
  /\ channel' = [c \in Conn |-> IF peer[c] = "open" THEN <<>> ELSE channel[c]]
  /\ peer' = [c \in Conn |-> IF peer[c] = "open" THEN "gone" ELSE peer[c]]
  /\ sending' = [c \in Conn |-> None]
  /\ gate' = gate - Cardinality({c \in Conn : peer[c] = "open"})
  /\ slot' = EmptySlot
  /\ pc' = "stopped"
  /\ UNCHANGED <<current, reply, old, targets, discarded, barrier, queueVars, due, ioStopping,
                 ioExited, barrierVars, clientVars, leaseValid, registry, loggedIn, outstanding>>

ServerNext ==
  \/ WaitExpired \/ WaitPop \/ DropExpired
  \/ ExecuteRequest \/ ExecuteLogin \/ ExecuteClient \/ ExecuteClose
  \/ \E c \in Conn : RouteClient(c) \/ PublishState(c) \/ CloseRegistered(c)
  \/ RouteDone \/ Present
  \/ \E result \in {"written", "gave_up"} : BarrierEnds(result)
  \/ FinishMessage \/ StopAccepting \/ Discard \/ StopEndpoint \/ JoinEndpoint

\* The process has ended.
Terminated ==
  /\ pc \in {"stopped", "crashed"}
  /\ UNCHANGED vars

Next == ServerNext \/ IoNext \/ ConsoleSubmit \/ LeaseExpires \/ Terminated

Spec == Init /\ [][Next]_vars

(***************************************************************************)
(* Fairness.  The control thread and the event loop are OS threads that    *)
(* keep running: every blocking call of the control thread has a deadline  *)
(* (the lease, the two seconds of the SHUTDOWN barrier), and poll() wakes  *)
(* for queued output, for a closing connection and for stop().  A client   *)
(* that is not gone reads what was sent to it: the protocol leaves         *)
(* half-open detection open, so this is an assumption about clients.       *)
(***************************************************************************)
IoProgress ==
  \/ \E c \in Conn : \/ PrepareOutput(c) \/ SendPending(c) \/ ClosePeer(c)
                     \/ (closing[c] /\ PeerEnds(c))
  \/ (ioStopping /\ IoExit)

FairSpec == Spec /\ WF_vars(ServerNext) /\ WF_vars(IoProgress)

-----------------------------------------------------------------------------
(***************************************************************************)
(* Properties                                                              *)
(***************************************************************************)

\* While server::run serves messages, every raw pointer of the registry points
\* to a connection object that some holder still keeps allocated
\* (communication.hpp, comment on connections).
RegistryAlive == pc \in Serving => \A c \in registry : Alive(c)

\* Why that holds.  A registered connection is owned by its peer until the
\* event loop posts its close message; from then on that message, queued or
\* being executed, holds it.  A LOGIN that still waits to register its
\* connection is followed by that close message, never preceded by it.
ClosePosted(q, c, n) ==
  \E j \in DOMAIN q : n < j /\ q[j].type = "close" /\ q[j].conn = c

RegistryInv ==
  pc \in Serving =>
    /\ accepting
    /\ \A c \in registry :
         \/ peer[c] = "open"
         \/ ClosePosted(queue, c, 0)
         \/ pc = "recheck" /\ current.type = "close" /\ current.conn = c
    /\ \A i \in DOMAIN queue :
         queue[i].type = "login" =>
           peer[queue[i].conn] = "open" \/ ClosePosted(queue, queue[i].conn, i)
    /\ pc = "recheck" /\ current.type = "login" =>
         peer[current.conn] = "open" \/ ClosePosted(queue, current.conn, 0)

\* The same claim without the restriction to server::run: communication::stop()
\* walks the registry too, after the queued close messages were destroyed.
RegistryAliveUntilCleared == \A c \in registry : Alive(c)

\* The close message of a connection is the last control message that names
\* it, so nothing runs for a connection after it left the registry
\* (close_peer posts once, the queue is FIFO).
CloseIsLast ==
  \A i \in DOMAIN queue :
    /\ \A j \in DOMAIN queue :
         queue[i].type = "close" /\ i < j => queue[j].conn # queue[i].conn
    /\ current.type = "close" => queue[i].conn # current.conn

\* Why that holds.  Only an open peer is ever due for closing, and every
\* connection with a close message has lost its peer, so no frame of it can
\* be dispatched and no second close posted.
CloseInv ==
  /\ due # None => peer[due] = "open"
  /\ ioExited => due = None
  /\ \A i \in DOMAIN queue : queue[i].type = "close" => peer[queue[i].conn] = "gone"
  /\ current.type = "close" => peer[current.conn] = "gone"
  /\ CloseIsLast

\* A request id is outstanding exactly while one request or one releasing
\* response carries it: every accepted request is answered once, and its id is
\* reusable after that (reserve_request, try_next, release_request).
Carriers(c, id) ==
  Cardinality({i \in DOMAIN queue : queue[i].conn = c /\ queue[i].id = id})
    + (IF pc \in {"recheck", "route", "present"} /\ current.conn = c /\ current.id = id
       THEN 1 ELSE 0)
    + Cardinality({i \in DOMAIN channel[c] : /\ channel[c][i].type = "response"
                                              /\ channel[c][i].release
                                              /\ channel[c][i].id = id})

OutstandingExact ==
  pc \in Serving =>
    \A c \in Conn : peer[c] = "open" /\ ~closing[c] =>
      \A id \in RequestIds :
        Carriers(c, id) = IF id \in outstanding[c] THEN 1 ELSE 0

\* After LOGIN the client never misses a state change: replaying what it has
\* read, what is being sent and what is queued gives an unbroken chain of
\* states that ends in the Server's own (execute_login, publish_server_state).
Stream(c) == (IF sending[c] = None THEN <<>> ELSE <<sending[c]>>) \o channel[c]

BearsState(m) == m.type = "server_state" \/ (m.type = "response" /\ m.state # NoState)

Told(m) == IF m.type = "server_state" THEN m.new ELSE m.state

\* m is consistent with the last state the client was told.
Follows(m, state) ==
  IF m.type = "server_state" THEN m.old = state ELSE state \in {NoState, m.state}

News(s) == {i \in DOMAIN s : BearsState(s[i])}

\* The news among the messages s lead from the state first to the state last.
Chain(s, first, last) ==
  /\ News(s) = {} => first = last
  /\ \A i \in News(s) :
       /\ (\A k \in News(s) : i <= k) => Follows(s[i], first)
       /\ \A j \in News(s) :
            i < j /\ (\A k \in News(s) : k <= i \/ j <= k) => Follows(s[j], Told(s[i]))
       /\ (\A k \in News(s) : k <= i) => Told(s[i]) = last

UnbrokenChain(c) == Chain(Stream(c), view[c].state, slot.state)

LoginBoundary ==
  \A c \in registry :
    /\ ~closing[c]
    /\ pc \in {"wait", "recheck"} \/ (pc = "publish" /\ c \notin targets)
    => UnbrokenChain(c)

\* Close is one-way and silent: a closing connection queues no output, never
\* reopens, and the writer takes no further message from it
\* (begin_close, outbound_channel::enqueue and try_next).
CloseIsFinal ==
  [][\A c \in Conn :
       closing[c] => /\ closing'[c]
                     /\ channel'[c] = <<>>
                     /\ sending'[c] \in {None, sending[c]}]_vars

\* When the SHUTDOWN barrier reports completion, the client that asked for the
\* shutdown has been sent the SHUTDOWN response (wait_response_written).
BarrierMeansWritten ==
  barrier = "written" => \E c \in Conn : view[c].shutdownSeen

\* Every occupied slot of the connection gate is one open peer, and there are
\* never more of them than the licence allows.
GateExact ==
  /\ gate = Cardinality({c \in Conn : peer[c] = "open"})
  /\ gate <= ConnectionLimit

\* When server::shutdown returns, no holder of any connection is left, so every
\* connection object is deleted and none outlives the endpoint it notifies.
StoppedIsClean ==
  pc = "stopped" => \A c \in Conn : ~Alive(c) /\ sending[c] = None

\* A SHUTDOWN that was started, or an expired lease, ends the process: the
\* barrier, the discard and the join never wait for each other.
EndsOnce ==
  (~leaseValid \/ pc \in Stopping \cup {"barrier"}) ~> pc \in {"stopped", "crashed"}

\* An outstanding request of an open connection is answered, unless the
\* connection closes or the Server stops serving.
RequestsAnswered ==
  \A c \in Conn : \A id \in RequestIds :
    id \in outstanding[c]
      ~> \/ id \notin outstanding[c] \/ closing[c]
         \/ ~leaseValid \/ pc \notin Serving \/ ioExited

=============================================================================
