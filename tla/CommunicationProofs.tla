------------------------ MODULE CommunicationProofs ------------------------
(***************************************************************************)
(* Proofs about Communication, for every set of connections, request ids,  *)
(* request kinds and every limit: type correctness, and the safety of the  *)
(* raw pointers in the connection registry while server::run serves.  On   *)
(* top of these: the close of a connection is final, the connection gate   *)
(* counts the open peers, the shutdown leaves nothing behind, a request id *)
(* is outstanding exactly as long as something in the Server will release  *)
(* it, and a logged-in client reads every state it missed.  Conn may be    *)
(* infinite: that only finitely many peers are open is part of the         *)
(* induction.                                                              *)
(***************************************************************************)
EXTENDS Communication, FiniteSetTheorems, SequenceTheorems, TLAPS

-----------------------------------------------------------------------------
(***************************************************************************)
(* Typing lemmas about the operators of the model                          *)
(***************************************************************************)

\* A slot stays a slot in every handler of server.cpp.
LEMMA ExecuteType ==
  ASSUME NEW kind \in RequestKinds, NEW sl \in Slots
  PROVE  \A out \in Execute(kind, sl) : out.slot \in Slots
<1>0. \A st, x : Outcome(st, x).slot = x
  BY DEF Outcome
<1>1. EmptySlot \in Slots /\ [project |-> TRUE, state |-> "loaded"] \in Slots
  BY DEF EmptySlot, Slots, ProjectStates
<1>2. /\ [project |-> TRUE, state |-> "run"] \in Slots
      /\ [project |-> TRUE, state |-> "freeze"] \in Slots
  BY DEF Slots, ProjectStates
<1>3. \A out \in Construct(sl) : out.slot \in Slots
  BY <1>0, <1>1 DEF Construct
<1>4. \A out \in Build(sl) : out.slot \in Slots
  BY <1>0, <1>1 DEF Build
<1>5. \A out \in Unload(sl) : out.slot \in Slots
  BY <1>0, <1>1 DEF Unload
<1>6. \A out \in Run(sl) \cup Freeze(sl) : out.slot \in Slots
  BY <1>0, <1>2 DEF Run, Freeze
<1>7. \A out \in UseRuntime(sl) \cup {Outcome("success", sl)} : out.slot \in Slots
  BY <1>0 DEF UseRuntime
<1>8. CASE kind \in {"load", "publish", "rebuild"}
  BY <1>3, <1>8 DEF Execute, Load, Publish, Rebuild
<1>9. CASE kind \in {"build", "unload"}
  BY <1>4, <1>5, <1>9 DEF Execute
<1>10. CASE kind \in {"run", "freeze"}
  BY <1>6, <1>10 DEF Execute
<1>11. CASE kind \in {"snap_ic", "reset_ic", "get_value", "get_state", "shutdown"}
  BY <1>7, <1>11 DEF Execute, SnapIc, ResetIc, GetValue
<1>12. QED
  BY <1>8, <1>9, <1>10, <1>11 DEF RequestKinds

\* The policy gate adds one outcome that leaves the slot alone.
LEMMA ExecuteMessageType ==
  ASSUME NEW kind \in RequestKinds, NEW sl \in Slots
  PROVE  \A out \in ExecuteMessage(Mode, kind, sl) : out.slot \in Slots
  BY ExecuteType DEF ExecuteMessage, Outcome

\* A response built by the Server is an outbound message.
LEMMA ResponseType ==
  ASSUME NEW id \in RequestIds, NEW of \in Sources, NEW st \in ProjectStates \cup {NoState}
  PROVE  Response(id, of, st) \in Responses
  BY DEF Response, Responses

\* The rejection of a duplicate id is an outbound message.
LEMMA DuplicateType ==
  ASSUME NEW id \in RequestIds
  PROVE  DuplicateResponse(id) \in Responses
  BY DEF DuplicateResponse, Responses, Sources

\* begin_close() leaves the channels and the closing flags well typed.
LEMMA BeginCloseType ==
  ASSUME NEW c, BeginClose(c),
         channel \in [Conn -> Seq(OutboundMessages)], closing \in [Conn -> BOOLEAN]
  PROVE  channel' \in [Conn -> Seq(OutboundMessages)] /\ closing' \in [Conn -> BOOLEAN]
<1>1. <<>> \in Seq(OutboundMessages)
  OBVIOUS
<1>2. channel' \in [Conn -> Seq(OutboundMessages)]
  BY <1>1 DEF BeginClose
<1>3. closing' \in [Conn -> BOOLEAN]
  BY DEF BeginClose
<1>4. QED
  BY <1>2, <1>3

\* enqueue_*() leaves the channels and the closing flags well typed.
LEMMA EnqueueType ==
  ASSUME NEW c, NEW m \in OutboundMessages, Enqueue(c, m),
         channel \in [Conn -> Seq(OutboundMessages)], closing \in [Conn -> BOOLEAN]
  PROVE  channel' \in [Conn -> Seq(OutboundMessages)] /\ closing' \in [Conn -> BOOLEAN]
<1>1. CASE HasRoom(c)
  <2> SUFFICES ASSUME c \in Conn
               PROVE  [channel EXCEPT ![c] = Append(@, m)] \in [Conn -> Seq(OutboundMessages)]
    BY <1>1 DEF Enqueue
  <2>1. Append(channel[c], m) \in Seq(OutboundMessages)
    OBVIOUS
  <2>2. QED
    BY <2>1
<1>2. CASE ~HasRoom(c)
  BY <1>2, BeginCloseType DEF Enqueue
<1>3. QED
  BY <1>1, <1>2

\* What a client can ask for is a control message of its own connection.
LEMMA FramesType ==
  ASSUME NEW c \in Conn, NEW m \in Frames(c)
  PROVE  /\ m \in ControlMessages
         /\ m.id \in RequestIds
         /\ m.conn = c
         /\ m.type # "close"
<1>1. CASE m \in {ControlMessage("login", c, id, None, {}) : id \in RequestIds}
  BY <1>1 DEF ControlMessage, ControlMessages
<1>2. CASE m \in {ControlMessage("client", c, id, None, to) : id \in RequestIds, to \in Audiences}
  BY <1>2, AudienceAssumption DEF ControlMessage, ControlMessages
<1>3. CASE m \in {ControlMessage("request", c, id, kind, {}) : id \in RequestIds, kind \in Kinds}
  BY <1>3, KindsAssumption DEF ControlMessage, ControlMessages
<1>4. QED
  BY <1>1, <1>2, <1>3 DEF Frames

\* Taking the next output keeps the writer's state well typed.
LEMMA TakeOutputType ==
  ASSUME NEW c \in Conn, TakeOutput(c),
         channel \in [Conn -> Seq(OutboundMessages)], closing \in [Conn -> BOOLEAN],
         sending \in [Conn -> OutboundMessages \cup {None}],
         outstanding \in [Conn -> SUBSET RequestIds]
  PROVE  /\ channel' \in [Conn -> Seq(OutboundMessages)]
         /\ closing' \in [Conn -> BOOLEAN]
         /\ sending' \in [Conn -> OutboundMessages \cup {None}]
         /\ outstanding' \in [Conn -> SUBSET RequestIds]
<1>1. CASE closing[c] \/ channel[c] = <<>>
  BY <1>1 DEF TakeOutput
<1>2. CASE ~(closing[c] \/ channel[c] = <<>>)
  <2>1. channel[c] \in Seq(OutboundMessages) /\ channel[c] # <<>>
    BY <1>2
  <2>2. Head(channel[c]) \in OutboundMessages /\ Tail(channel[c]) \in Seq(OutboundMessages)
    BY <2>1, HeadTailProperties
  <2>3. outstanding' \in [Conn -> SUBSET RequestIds]
    BY <1>2 DEF TakeOutput, Released
  <2>4. CASE BeginClose(c)
    BY <1>2, <2>2, <2>3, <2>4, BeginCloseType DEF TakeOutput
  <2>5. CASE ~BeginClose(c)
    BY <1>2, <2>2, <2>3, <2>5 DEF TakeOutput
  <2>6. QED
    BY <2>4, <2>5
<1>3. QED
  BY <1>1, <1>2

-----------------------------------------------------------------------------
(***************************************************************************)
(* Type correctness                                                        *)
(***************************************************************************)

\* AcceptPeer preserves the type invariant.
LEMMA AcceptPeerType ==
  ASSUME NEW c \in Conn, TypeOK, AcceptPeer(c)
  PROVE  TypeOK'
<1>1. QueueType'
  BY DEF TypeOK, QueueType, AcceptPeer, serverVars, queueVars, ioVars, barrierVars, clientVars
<1>2. ServerType'
  BY DEF TypeOK, ServerType, AcceptPeer, serverVars, queueVars, ioVars, barrierVars, clientVars
<1>3. IoType'
  BY DEF TypeOK, IoType, AcceptPeer, serverVars, queueVars, ioVars, barrierVars, clientVars
<1>4. ConnectionType'
  BY DEF TypeOK, ConnectionType, AcceptPeer, serverVars, queueVars, ioVars, barrierVars, clientVars
<1>5. ClientType'
  BY DEF TypeOK, ClientType, AcceptPeer, serverVars, queueVars, ioVars, barrierVars, clientVars
<1>6. QED
  BY <1>1, <1>2, <1>3, <1>4, <1>5 DEF TypeOK

\* Dispatch preserves the type invariant.
LEMMA DispatchType ==
  ASSUME NEW c \in Conn, TypeOK, Dispatch(c)
  PROVE  TypeOK'
<1>1. QueueType'
  <2>1. PICK m \in Frames(c) :
          DispatchDuplicate(c, m) \/ DispatchRejected(c, m) \/ DispatchControl(c, m)
    BY DEF Dispatch
  <2>2. m \in ControlMessages
    BY FramesType
  <2>3. queue' \in Seq(ControlMessages) /\ accepting' \in BOOLEAN
    BY <2>1, <2>2
    DEF TypeOK, QueueType, DispatchDuplicate, DispatchRejected, DispatchControl, Push, queueVars
  <2>4. QED
    BY <2>3 DEF TypeOK, QueueType, Dispatch, serverVars
<1>2. ServerType'
  BY DEF TypeOK, ServerType, Dispatch, serverVars, queueVars, ioVars, barrierVars, clientVars
<1>3. IoType'
  <2>1. due' \in Conn \cup {None}
    BY DEF Dispatch, DispatchDuplicate, DispatchRejected, DispatchControl
  <2>2. QED
    BY <2>1 DEF TypeOK, IoType, Dispatch
<1>4. ConnectionType'
  <2>1. PICK m \in Frames(c) :
          DispatchDuplicate(c, m) \/ DispatchRejected(c, m) \/ DispatchControl(c, m)
    BY DEF Dispatch
  <2>2. m.id \in RequestIds
    BY FramesType
  <2>3. outstanding' \in [Conn -> SUBSET RequestIds]
    BY <2>1, <2>2
    DEF TypeOK, ConnectionType, DispatchDuplicate, DispatchRejected, DispatchControl
  <2>4. channel' \in [Conn -> Seq(OutboundMessages)] /\ closing' \in [Conn -> BOOLEAN]
    <3>1. CASE DispatchDuplicate(c, m)
      BY <2>2, <3>1, DuplicateType, EnqueueType
      DEF TypeOK, ConnectionType, DispatchDuplicate, OutboundMessages
    <3>2. CASE DispatchRejected(c, m)
      <4>1. Response(m.id, "rejected", NoState) \in OutboundMessages
        BY <2>2, ResponseType DEF OutboundMessages, Sources
      <4>2. QED
        BY <3>2, <4>1, EnqueueType DEF TypeOK, ConnectionType, DispatchRejected
    <3>3. CASE DispatchControl(c, m)
      BY <3>3 DEF TypeOK, ConnectionType, DispatchControl
    <3>4. QED
      BY <2>1, <3>1, <3>2, <3>3
  <2>5. QED
    BY <2>3, <2>4 DEF TypeOK, ConnectionType, Dispatch, barrierVars
<1>5. ClientType'
  BY DEF TypeOK, ClientType, Dispatch, serverVars, queueVars, ioVars, barrierVars, clientVars
<1>6. QED
  BY <1>1, <1>2, <1>3, <1>4, <1>5 DEF TypeOK

\* PrepareOutput preserves the type invariant.
LEMMA PrepareOutputType ==
  ASSUME NEW c \in Conn, TypeOK, PrepareOutput(c)
  PROVE  TypeOK'
<1>1. QueueType'
  BY DEF TypeOK, QueueType, PrepareOutput, serverVars, queueVars, ioVars, barrierVars, clientVars
<1>2. ServerType'
  BY DEF TypeOK, ServerType, PrepareOutput, serverVars, queueVars, ioVars, barrierVars, clientVars
<1>3. IoType'
  BY TakeOutputType DEF TypeOK, IoType, ConnectionType, PrepareOutput
<1>4. ConnectionType'
  BY TakeOutputType DEF TypeOK, IoType, ConnectionType, PrepareOutput, barrierVars
<1>5. ClientType'
  BY DEF TypeOK, ClientType, PrepareOutput, serverVars, queueVars, ioVars, barrierVars, clientVars
<1>6. QED
  BY <1>1, <1>2, <1>3, <1>4, <1>5 DEF TypeOK

\* SendPending preserves the type invariant.
LEMMA SendPendingType ==
  ASSUME NEW c \in Conn, TypeOK, SendPending(c)
  PROVE  TypeOK'
<1>1. QueueType'
  BY DEF TypeOK, QueueType, SendPending, serverVars, queueVars, ioVars, barrierVars, clientVars
<1>2. ServerType'
  BY DEF TypeOK, ServerType, SendPending, serverVars, queueVars, ioVars, barrierVars, clientVars
<1>3. IoType'
  BY TakeOutputType DEF TypeOK, IoType, ConnectionType, SendPending
<1>4. ConnectionType'
  <2>1. /\ channel' \in [Conn -> Seq(OutboundMessages)] /\ closing' \in [Conn -> BOOLEAN]
        /\ outstanding' \in [Conn -> SUBSET RequestIds]
    BY TakeOutputType DEF TypeOK, IoType, ConnectionType, SendPending
  <2>2. written' \in [Conn -> BOOLEAN]
    BY DEF TypeOK, ConnectionType, SendPending, MarkWritten, MarksBarrier
  <2>3. QED
    BY <2>1, <2>2 DEF TypeOK, ConnectionType, SendPending, MarkWritten
<1>5. ClientType'
  <2>1. sending[c] \in OutboundMessages
    BY DEF TypeOK, IoType, SendPending
  <2> DEFINE V == [state : ProjectStates \cup {NoState}, shutdownSeen : BOOLEAN]
  <2>2. view[c] \in V
    BY DEF TypeOK, ClientType
  <2>3. Seen(view[c], sending[c]).state \in ProjectStates \cup {NoState}
    BY <2>1, <2>2 DEF Seen, OutboundMessages, Responses, Events
  <2>4. Seen(view[c], sending[c]) \in V
    BY <2>2, <2>3 DEF Seen
  <2>5. QED
    BY <2>4 DEF TypeOK, ClientType, SendPending
<1>6. QED
  BY <1>1, <1>2, <1>3, <1>4, <1>5 DEF TypeOK

\* PeerEnds preserves the type invariant.
LEMMA PeerEndsType ==
  ASSUME NEW c \in Conn, TypeOK, PeerEnds(c)
  PROVE  TypeOK'
<1>1. QueueType'
  BY DEF TypeOK, QueueType, PeerEnds, serverVars, queueVars, ioVars, barrierVars, clientVars
<1>2. ServerType'
  BY DEF TypeOK, ServerType, PeerEnds, serverVars, queueVars, ioVars, barrierVars, clientVars
<1>3. IoType'
  BY DEF TypeOK, IoType, PeerEnds, serverVars, queueVars, ioVars, barrierVars, clientVars
<1>4. ConnectionType'
  BY DEF TypeOK, ConnectionType, PeerEnds, serverVars, queueVars, ioVars, barrierVars, clientVars
<1>5. ClientType'
  BY DEF TypeOK, ClientType, PeerEnds, serverVars, queueVars, ioVars, barrierVars, clientVars
<1>6. QED
  BY <1>1, <1>2, <1>3, <1>4, <1>5 DEF TypeOK

\* ExpirePeer preserves the type invariant.
LEMMA ExpirePeerType ==
  ASSUME NEW c \in Conn, TypeOK, ExpirePeer(c)
  PROVE  TypeOK'
<1>1. QueueType'
  BY DEF TypeOK, QueueType, ExpirePeer, serverVars, queueVars, ioVars, barrierVars, clientVars
<1>2. ServerType'
  BY DEF TypeOK, ServerType, ExpirePeer, serverVars, queueVars, ioVars, barrierVars, clientVars
<1>3. IoType'
  BY DEF TypeOK, IoType, ExpirePeer, serverVars, queueVars, ioVars, barrierVars, clientVars
<1>4. ConnectionType'
  BY BeginCloseType DEF TypeOK, ConnectionType, ExpirePeer, serverVars, queueVars, ioVars, barrierVars, clientVars
<1>5. ClientType'
  BY DEF TypeOK, ClientType, ExpirePeer, serverVars, queueVars, ioVars, barrierVars, clientVars
<1>6. QED
  BY <1>1, <1>2, <1>3, <1>4, <1>5 DEF TypeOK

\* ClosePeer preserves the type invariant.
LEMMA ClosePeerType ==
  ASSUME NEW c \in Conn, TypeOK, ClosePeer(c)
  PROVE  TypeOK'
<1>1. QueueType'
  <2>1. ControlMessage("close", c, NoId, None, {}) \in ControlMessages
    BY DEF ControlMessage, ControlMessages
  <2>2. queue' \in Seq(ControlMessages) /\ accepting' \in BOOLEAN
    BY <2>1 DEF TypeOK, QueueType, ClosePeer, Push
  <2>3. QED
    BY <2>2 DEF TypeOK, QueueType, ClosePeer, serverVars
<1>2. ServerType'
  BY DEF TypeOK, ServerType, ClosePeer, serverVars, queueVars, ioVars, barrierVars, clientVars
<1>3. IoType'
  BY DEF TypeOK, IoType, ClosePeer, serverVars, queueVars, ioVars, barrierVars, clientVars
<1>4. ConnectionType'
  BY BeginCloseType DEF TypeOK, ConnectionType, ClosePeer, serverVars, queueVars, ioVars, barrierVars, clientVars
<1>5. ClientType'
  BY DEF TypeOK, ClientType, ClosePeer, serverVars, queueVars, ioVars, barrierVars, clientVars
<1>6. QED
  BY <1>1, <1>2, <1>3, <1>4, <1>5 DEF TypeOK

\* IoExit preserves the type invariant.
LEMMA IoExitType ==
  ASSUME TypeOK, IoExit
  PROVE  TypeOK'
<1>1. QueueType'
  BY DEF TypeOK, QueueType, IoExit, serverVars, queueVars, ioVars, barrierVars, clientVars
<1>2. ServerType'
  BY DEF TypeOK, ServerType, IoExit, serverVars, queueVars, ioVars, barrierVars, clientVars
<1>3. IoType'
  BY DEF TypeOK, IoType, IoExit, serverVars, queueVars, ioVars, barrierVars, clientVars
<1>4. ConnectionType'
  BY DEF TypeOK, ConnectionType, IoExit, serverVars, queueVars, ioVars, barrierVars, clientVars
<1>5. ClientType'
  BY DEF TypeOK, ClientType, IoExit, serverVars, queueVars, ioVars, barrierVars, clientVars
<1>6. QED
  BY <1>1, <1>2, <1>3, <1>4, <1>5 DEF TypeOK

\* ConsoleSubmit preserves the type invariant.
LEMMA ConsoleSubmitType ==
  ASSUME TypeOK, ConsoleSubmit
  PROVE  TypeOK'
<1>1. QueueType'
  <2>1. PICK kind \in Kinds : Push(ControlMessage("request", Console, NoId, kind, {}))
    BY DEF ConsoleSubmit
  <2>2. ControlMessage("request", Console, NoId, kind, {}) \in ControlMessages
    BY KindsAssumption DEF ControlMessage, ControlMessages
  <2>3. queue' \in Seq(ControlMessages) /\ accepting' \in BOOLEAN
    BY <2>1, <2>2 DEF TypeOK, QueueType, Push
  <2>4. QED
    BY <2>3 DEF TypeOK, QueueType, ConsoleSubmit, serverVars
<1>2. ServerType'
  BY DEF TypeOK, ServerType, ConsoleSubmit, serverVars, queueVars, ioVars, barrierVars, clientVars
<1>3. IoType'
  BY DEF TypeOK, IoType, ConsoleSubmit, serverVars, queueVars, ioVars, barrierVars, clientVars
<1>4. ConnectionType'
  BY DEF TypeOK, ConnectionType, ConsoleSubmit, serverVars, queueVars, ioVars, barrierVars, clientVars
<1>5. ClientType'
  BY DEF TypeOK, ClientType, ConsoleSubmit, serverVars, queueVars, ioVars, barrierVars, clientVars
<1>6. QED
  BY <1>1, <1>2, <1>3, <1>4, <1>5 DEF TypeOK

\* LeaseExpires preserves the type invariant.
LEMMA LeaseExpiresType ==
  ASSUME TypeOK, LeaseExpires
  PROVE  TypeOK'
<1>1. QueueType'
  BY DEF TypeOK, QueueType, LeaseExpires, serverVars, queueVars, ioVars, barrierVars, clientVars
<1>2. ServerType'
  BY DEF TypeOK, ServerType, LeaseExpires, serverVars, queueVars, ioVars, barrierVars, clientVars
<1>3. IoType'
  BY DEF TypeOK, IoType, LeaseExpires, serverVars, queueVars, ioVars, barrierVars, clientVars
<1>4. ConnectionType'
  BY DEF TypeOK, ConnectionType, LeaseExpires, serverVars, queueVars, ioVars, barrierVars, clientVars
<1>5. ClientType'
  BY DEF TypeOK, ClientType, LeaseExpires, serverVars, queueVars, ioVars, barrierVars, clientVars
<1>6. QED
  BY <1>1, <1>2, <1>3, <1>4, <1>5 DEF TypeOK

\* WaitExpired preserves the type invariant.
LEMMA WaitExpiredType ==
  ASSUME TypeOK, WaitExpired
  PROVE  TypeOK'
<1>1. QueueType'
  BY DEF TypeOK, QueueType, WaitExpired, serverVars, queueVars, ioVars, barrierVars, clientVars
<1>2. ServerType'
  BY DEF TypeOK, ServerType, WaitExpired, Serving, Stopping, serverVars, queueVars, ioVars, barrierVars, clientVars
<1>3. IoType'
  BY DEF TypeOK, IoType, WaitExpired, serverVars, queueVars, ioVars, barrierVars, clientVars
<1>4. ConnectionType'
  BY DEF TypeOK, ConnectionType, WaitExpired, serverVars, queueVars, ioVars, barrierVars, clientVars
<1>5. ClientType'
  BY DEF TypeOK, ClientType, WaitExpired, serverVars, queueVars, ioVars, barrierVars, clientVars
<1>6. QED
  BY <1>1, <1>2, <1>3, <1>4, <1>5 DEF TypeOK

\* WaitPop preserves the type invariant.
LEMMA WaitPopType ==
  ASSUME TypeOK, WaitPop
  PROVE  TypeOK'
<1>1. QueueType'
  BY DEF TypeOK, QueueType, WaitPop, serverVars, queueVars, ioVars, barrierVars, clientVars
<1>2. ServerType'
  BY DEF TypeOK, ServerType, WaitPop, Serving, Stopping, serverVars, queueVars, ioVars, barrierVars, clientVars
<1>3. IoType'
  BY DEF TypeOK, IoType, WaitPop, serverVars, queueVars, ioVars, barrierVars, clientVars
<1>4. ConnectionType'
  BY DEF TypeOK, ConnectionType, WaitPop, serverVars, queueVars, ioVars, barrierVars, clientVars
<1>5. ClientType'
  BY DEF TypeOK, ClientType, WaitPop, serverVars, queueVars, ioVars, barrierVars, clientVars
<1>6. QED
  BY <1>1, <1>2, <1>3, <1>4, <1>5 DEF TypeOK

\* DropExpired preserves the type invariant.
LEMMA DropExpiredType ==
  ASSUME TypeOK, DropExpired
  PROVE  TypeOK'
<1>1. QueueType'
  BY DEF TypeOK, QueueType, DropExpired, serverVars, queueVars, ioVars, barrierVars, clientVars
<1>2. ServerType'
  BY DEF TypeOK, ServerType, DropExpired, Serving, Stopping, serverVars, queueVars, ioVars, barrierVars, clientVars
<1>3. IoType'
  BY DEF TypeOK, IoType, DropExpired, serverVars, queueVars, ioVars, barrierVars, clientVars
<1>4. ConnectionType'
  BY DEF TypeOK, ConnectionType, DropExpired, serverVars, queueVars, ioVars, barrierVars, clientVars
<1>5. ClientType'
  BY DEF TypeOK, ClientType, DropExpired, serverVars, queueVars, ioVars, barrierVars, clientVars
<1>6. QED
  BY <1>1, <1>2, <1>3, <1>4, <1>5 DEF TypeOK

\* ExecuteRequest preserves the type invariant.
LEMMA ExecuteRequestType ==
  ASSUME TypeOK, ExecuteRequest
  PROVE  TypeOK'
<1>1. QueueType'
  BY DEF TypeOK, QueueType, ExecuteRequest, serverVars, queueVars, ioVars, barrierVars, clientVars
<1>2. ServerType'
  <2>1. current.kind \in RequestKinds /\ (current.conn # Console => current.id \in RequestIds)
    BY NamesAssumption
    DEF TypeOK, QueueType, ControlMessages, NoMessage, ControlMessage, ExecuteRequest, Starts
  <2>2. PICK out \in ExecuteMessage(Mode, current.kind, slot) :
          /\ slot' = out.slot
          /\ reply' = IF current.conn = Console THEN None
                      ELSE Response(current.id, current.kind,
                             IF current.kind = "get_state" THEN out.slot.state ELSE NoState)
    BY DEF ExecuteRequest
  <2>3. slot' \in Slots
    BY <2>1, <2>2, ExecuteMessageType DEF TypeOK, ServerType
  <2>4. out.slot.state \in ProjectStates
    BY <2>2, <2>3 DEF Slots
  <2>5. reply' \in Responses \cup {None}
    BY <2>1, <2>2, <2>4, ResponseType DEF Sources
  <2>6. old' \in ProjectStates
    BY DEF TypeOK, ServerType, Slots, ExecuteRequest
  <2>7. QED
    BY <2>3, <2>5, <2>6 DEF TypeOK, ServerType, ExecuteRequest, Serving, Stopping
<1>3. IoType'
  BY DEF TypeOK, IoType, ExecuteRequest, serverVars, queueVars, ioVars, barrierVars, clientVars
<1>4. ConnectionType'
  <2>1. CASE current.kind = "shutdown" /\ current.conn # Console
    <3>1. current.id \in RequestIds
      BY <2>1, NamesAssumption
      DEF TypeOK, QueueType, ControlMessages, NoMessage, ControlMessage, ExecuteRequest, Starts
    <3>2. awaited' \in [Conn -> RequestIds \cup {NoId}]
      BY <2>1, <3>1 DEF TypeOK, ConnectionType, ExecuteRequest
    <3>3. written' \in [Conn -> BOOLEAN]
      BY <2>1 DEF TypeOK, ConnectionType, ExecuteRequest
    <3>4. QED
      BY <3>2, <3>3 DEF TypeOK, ConnectionType, ExecuteRequest
  <2>2. CASE ~(current.kind = "shutdown" /\ current.conn # Console)
    BY <2>2 DEF TypeOK, ConnectionType, ExecuteRequest, barrierVars
  <2>3. QED
    BY <2>1, <2>2
<1>5. ClientType'
  BY DEF TypeOK, ClientType, ExecuteRequest, serverVars, queueVars, ioVars, barrierVars, clientVars
<1>6. QED
  BY <1>1, <1>2, <1>3, <1>4, <1>5 DEF TypeOK

\* ExecuteLogin preserves the type invariant.
LEMMA ExecuteLoginType ==
  ASSUME TypeOK, ExecuteLogin
  PROVE  TypeOK'
<1>1. QueueType'
  BY DEF TypeOK, QueueType, ExecuteLogin, serverVars, queueVars, ioVars, barrierVars, clientVars
<1>2. ServerType'
  <2>1. current.id \in RequestIds /\ current.conn \in Conn
    BY DEF TypeOK, QueueType, ControlMessages, NoMessage, ControlMessage, ExecuteLogin, Starts
  <2>2. slot.state \in ProjectStates
    BY DEF TypeOK, ServerType, Slots
  <2>3. reply' \in Responses
    <3>1. \A st \in ProjectStates \cup {NoState} : Response(current.id, "login", st) \in Responses
      BY <2>1, ResponseType DEF Sources
    <3>2. QED
      BY <2>2, <3>1 DEF ExecuteLogin
  <2>4. QED
    BY <2>1, <2>3 DEF TypeOK, ServerType, ExecuteLogin, Serving, Stopping, serverVars
<1>3. IoType'
  BY DEF TypeOK, IoType, ExecuteLogin, serverVars, queueVars, ioVars, barrierVars, clientVars
<1>4. ConnectionType'
  BY DEF TypeOK, ConnectionType, ExecuteLogin, serverVars, queueVars, ioVars, barrierVars, clientVars
<1>5. ClientType'
  BY DEF TypeOK, ClientType, ExecuteLogin, serverVars, queueVars, ioVars, barrierVars, clientVars
<1>6. QED
  BY <1>1, <1>2, <1>3, <1>4, <1>5 DEF TypeOK

\* ExecuteClient preserves the type invariant.
LEMMA ExecuteClientType ==
  ASSUME TypeOK, ExecuteClient
  PROVE  TypeOK'
<1>1. QueueType'
  BY DEF TypeOK, QueueType, ExecuteClient, serverVars, queueVars, ioVars, barrierVars, clientVars
<1>2. ServerType'
  <2>1. current.id \in RequestIds
    BY DEF TypeOK, QueueType, ControlMessages, NoMessage, ControlMessage, ExecuteClient, Starts
  <2>2. reply' \in Responses
    BY <2>1, ResponseType DEF ExecuteClient, Sources
  <2>3. QED
    BY <2>2 DEF TypeOK, ServerType, ExecuteClient, Serving, Stopping, serverVars
<1>3. IoType'
  BY DEF TypeOK, IoType, ExecuteClient, serverVars, queueVars, ioVars, barrierVars, clientVars
<1>4. ConnectionType'
  BY DEF TypeOK, ConnectionType, ExecuteClient, serverVars, queueVars, ioVars, barrierVars, clientVars
<1>5. ClientType'
  BY DEF TypeOK, ClientType, ExecuteClient, serverVars, queueVars, ioVars, barrierVars, clientVars
<1>6. QED
  BY <1>1, <1>2, <1>3, <1>4, <1>5 DEF TypeOK

\* ExecuteClose preserves the type invariant.
LEMMA ExecuteCloseType ==
  ASSUME TypeOK, ExecuteClose
  PROVE  TypeOK'
<1>1. QueueType'
  BY DEF TypeOK, QueueType, ExecuteClose, serverVars, queueVars, ioVars, barrierVars, clientVars
<1>2. ServerType'
  BY DEF TypeOK, ServerType, ExecuteClose, Serving, Stopping, serverVars, queueVars, ioVars, barrierVars, clientVars
<1>3. IoType'
  BY DEF TypeOK, IoType, ExecuteClose, serverVars, queueVars, ioVars, barrierVars, clientVars
<1>4. ConnectionType'
  BY BeginCloseType DEF TypeOK, ConnectionType, ExecuteClose, serverVars, queueVars, ioVars, barrierVars, clientVars
<1>5. ClientType'
  BY DEF TypeOK, ClientType, ExecuteClose, serverVars, queueVars, ioVars, barrierVars, clientVars
<1>6. QED
  BY <1>1, <1>2, <1>3, <1>4, <1>5 DEF TypeOK

\* RouteClient preserves the type invariant.
LEMMA RouteClientType ==
  ASSUME NEW c \in Conn, TypeOK, RouteClient(c)
  PROVE  TypeOK'
<1>1. QueueType'
  BY DEF TypeOK, QueueType, RouteClient, serverVars, queueVars, ioVars, barrierVars, clientVars
<1>2. ServerType'
  BY DEF TypeOK, ServerType, RouteClient, serverVars, queueVars, ioVars, barrierVars, clientVars
<1>3. IoType'
  BY DEF TypeOK, IoType, RouteClient, serverVars, queueVars, ioVars, barrierVars, clientVars
<1>4. ConnectionType'
  <2>1. [type |-> "client_action"] \in OutboundMessages
    BY DEF OutboundMessages, Events
  <2>2. channel' \in [Conn -> Seq(OutboundMessages)] /\ closing' \in [Conn -> BOOLEAN]
    BY <2>1, EnqueueType DEF TypeOK, ConnectionType, RouteClient
  <2>3. QED
    BY <2>2 DEF TypeOK, ConnectionType, RouteClient, barrierVars
<1>5. ClientType'
  BY DEF TypeOK, ClientType, RouteClient, serverVars, queueVars, ioVars, barrierVars, clientVars
<1>6. QED
  BY <1>1, <1>2, <1>3, <1>4, <1>5 DEF TypeOK

\* PublishState preserves the type invariant.
LEMMA PublishStateType ==
  ASSUME NEW c \in Conn, TypeOK, PublishState(c)
  PROVE  TypeOK'
<1>1. QueueType'
  BY DEF TypeOK, QueueType, PublishState, serverVars, queueVars, ioVars, barrierVars, clientVars
<1>2. ServerType'
  BY DEF TypeOK, ServerType, PublishState, serverVars, queueVars, ioVars, barrierVars, clientVars
<1>3. IoType'
  BY DEF TypeOK, IoType, PublishState, serverVars, queueVars, ioVars, barrierVars, clientVars
<1>4. ConnectionType'
  <2>1. [type |-> "server_state", old |-> old, new |-> slot.state] \in OutboundMessages
    BY DEF OutboundMessages, Events, TypeOK, ServerType, Slots
  <2>2. channel' \in [Conn -> Seq(OutboundMessages)] /\ closing' \in [Conn -> BOOLEAN]
    BY <2>1, EnqueueType DEF TypeOK, ConnectionType, PublishState
  <2>3. QED
    BY <2>2 DEF TypeOK, ConnectionType, PublishState, barrierVars
<1>5. ClientType'
  BY DEF TypeOK, ClientType, PublishState, serverVars, queueVars, ioVars, barrierVars, clientVars
<1>6. QED
  BY <1>1, <1>2, <1>3, <1>4, <1>5 DEF TypeOK

\* CloseRegistered preserves the type invariant.
LEMMA CloseRegisteredType ==
  ASSUME NEW c \in Conn, TypeOK, CloseRegistered(c)
  PROVE  TypeOK'
<1>1. QueueType'
  BY DEF TypeOK, QueueType, CloseRegistered, serverVars, queueVars, ioVars, barrierVars, clientVars
<1>2. ServerType'
  BY DEF TypeOK, ServerType, CloseRegistered, Serving, Stopping, serverVars, queueVars, ioVars, barrierVars, clientVars
<1>3. IoType'
  BY DEF TypeOK, IoType, CloseRegistered, serverVars, queueVars, ioVars, barrierVars, clientVars
<1>4. ConnectionType'
  BY BeginCloseType DEF TypeOK, ConnectionType, CloseRegistered, serverVars, queueVars, ioVars, barrierVars, clientVars
<1>5. ClientType'
  BY DEF TypeOK, ClientType, CloseRegistered, serverVars, queueVars, ioVars, barrierVars, clientVars
<1>6. QED
  BY <1>1, <1>2, <1>3, <1>4, <1>5 DEF TypeOK

\* RouteDone preserves the type invariant.
LEMMA RouteDoneType ==
  ASSUME TypeOK, RouteDone
  PROVE  TypeOK'
<1>1. QueueType'
  BY DEF TypeOK, QueueType, RouteDone, serverVars, queueVars, ioVars, barrierVars, clientVars
<1>2. ServerType'
  BY DEF TypeOK, ServerType, RouteDone, Serving, Stopping, serverVars, queueVars, ioVars, barrierVars, clientVars
<1>3. IoType'
  BY DEF TypeOK, IoType, RouteDone, serverVars, queueVars, ioVars, barrierVars, clientVars
<1>4. ConnectionType'
  BY DEF TypeOK, ConnectionType, RouteDone, serverVars, queueVars, ioVars, barrierVars, clientVars
<1>5. ClientType'
  BY DEF TypeOK, ClientType, RouteDone, serverVars, queueVars, ioVars, barrierVars, clientVars
<1>6. QED
  BY <1>1, <1>2, <1>3, <1>4, <1>5 DEF TypeOK

\* Present preserves the type invariant.
LEMMA PresentType ==
  ASSUME TypeOK, Present
  PROVE  TypeOK'
<1>1. QueueType'
  BY DEF TypeOK, QueueType, Present, serverVars, queueVars, ioVars, barrierVars, clientVars
<1>2. ServerType'
  BY DEF TypeOK, ServerType, Present, Serving, Stopping
<1>3. IoType'
  BY DEF TypeOK, IoType, Present, serverVars, queueVars, ioVars, barrierVars, clientVars
<1>4. ConnectionType'
  <2>1. channel' \in [Conn -> Seq(OutboundMessages)] /\ closing' \in [Conn -> BOOLEAN]
    <3>1. CASE reply = None
      BY <3>1 DEF TypeOK, ConnectionType, Present
    <3>2. CASE reply # None
      <4>1. reply \in OutboundMessages
        BY <3>2 DEF TypeOK, ServerType, OutboundMessages
      <4>2. QED
        BY <3>2, <4>1, EnqueueType DEF TypeOK, ConnectionType, Present
    <3>3. QED
      BY <3>1, <3>2
  <2>2. QED
    BY <2>1 DEF TypeOK, ConnectionType, Present, barrierVars
<1>5. ClientType'
  BY DEF TypeOK, ClientType, Present, serverVars, queueVars, ioVars, barrierVars, clientVars
<1>6. QED
  BY <1>1, <1>2, <1>3, <1>4, <1>5 DEF TypeOK

\* BarrierEnds preserves the type invariant.
LEMMA BarrierEndsType ==
  ASSUME NEW result \in {"written", "gave_up"}, TypeOK, BarrierEnds(result)
  PROVE  TypeOK'
<1>1. QueueType'
  BY DEF TypeOK, QueueType, BarrierEnds, serverVars, queueVars, ioVars, barrierVars, clientVars
<1>2. ServerType'
  BY DEF TypeOK, ServerType, BarrierEnds, Serving, Stopping, serverVars, queueVars, ioVars, barrierVars, clientVars
<1>3. IoType'
  BY DEF TypeOK, IoType, BarrierEnds, serverVars, queueVars, ioVars, barrierVars, clientVars
<1>4. ConnectionType'
  BY DEF TypeOK, ConnectionType, BarrierEnds, serverVars, queueVars, ioVars, barrierVars, clientVars
<1>5. ClientType'
  BY DEF TypeOK, ClientType, BarrierEnds, serverVars, queueVars, ioVars, barrierVars, clientVars
<1>6. QED
  BY <1>1, <1>2, <1>3, <1>4, <1>5 DEF TypeOK

\* FinishMessage preserves the type invariant.
LEMMA FinishMessageType ==
  ASSUME TypeOK, FinishMessage
  PROVE  TypeOK'
<1>1. QueueType'
  BY DEF TypeOK, QueueType, FinishMessage, serverVars, queueVars, ioVars, barrierVars, clientVars
<1>2. ServerType'
  BY DEF TypeOK, ServerType, FinishMessage, Serving, Stopping, serverVars, queueVars, ioVars, barrierVars, clientVars
<1>3. IoType'
  BY DEF TypeOK, IoType, FinishMessage, serverVars, queueVars, ioVars, barrierVars, clientVars
<1>4. ConnectionType'
  BY DEF TypeOK, ConnectionType, FinishMessage, serverVars, queueVars, ioVars, barrierVars, clientVars
<1>5. ClientType'
  BY DEF TypeOK, ClientType, FinishMessage, serverVars, queueVars, ioVars, barrierVars, clientVars
<1>6. QED
  BY <1>1, <1>2, <1>3, <1>4, <1>5 DEF TypeOK

\* StopAccepting preserves the type invariant.
LEMMA StopAcceptingType ==
  ASSUME TypeOK, StopAccepting
  PROVE  TypeOK'
<1>1. QueueType'
  <2>1. queue' \in Seq(ControlMessages) /\ discarded' \in Seq(ControlMessages)
    BY DEF TypeOK, QueueType, StopAccepting
  <2>2. accepting' \in BOOLEAN
    BY DEF StopAccepting
  <2>3. QED
    BY <2>1, <2>2 DEF TypeOK, QueueType, StopAccepting
<1>2. ServerType'
  BY DEF TypeOK, ServerType, StopAccepting, Serving, Stopping, serverVars, queueVars, ioVars, barrierVars, clientVars
<1>3. IoType'
  BY DEF TypeOK, IoType, StopAccepting, serverVars, queueVars, ioVars, barrierVars, clientVars
<1>4. ConnectionType'
  BY DEF TypeOK, ConnectionType, StopAccepting, serverVars, queueVars, ioVars, barrierVars, clientVars
<1>5. ClientType'
  BY DEF TypeOK, ClientType, StopAccepting, serverVars, queueVars, ioVars, barrierVars, clientVars
<1>6. QED
  BY <1>1, <1>2, <1>3, <1>4, <1>5 DEF TypeOK

\* Discard preserves the type invariant.
LEMMA DiscardType ==
  ASSUME TypeOK, Discard
  PROVE  TypeOK'
<1>1. QueueType'
  BY DEF TypeOK, QueueType, Discard, serverVars, queueVars, ioVars, barrierVars, clientVars
<1>2. ServerType'
  BY DEF TypeOK, ServerType, Discard, Serving, Stopping, serverVars, queueVars, ioVars, barrierVars, clientVars
<1>3. IoType'
  BY DEF TypeOK, IoType, Discard, serverVars, queueVars, ioVars, barrierVars, clientVars
<1>4. ConnectionType'
  BY DEF TypeOK, ConnectionType, Discard, serverVars, queueVars, ioVars, barrierVars, clientVars
<1>5. ClientType'
  BY DEF TypeOK, ClientType, Discard, serverVars, queueVars, ioVars, barrierVars, clientVars
<1>6. QED
  BY <1>1, <1>2, <1>3, <1>4, <1>5 DEF TypeOK

\* StopEndpoint preserves the type invariant.
LEMMA StopEndpointType ==
  ASSUME TypeOK, StopEndpoint
  PROVE  TypeOK'
<1>1. QueueType'
  BY DEF TypeOK, QueueType, StopEndpoint, serverVars, queueVars, ioVars, barrierVars, clientVars
<1>2. ServerType'
  BY DEF TypeOK, ServerType, StopEndpoint, Serving, Stopping, serverVars, queueVars, ioVars, barrierVars, clientVars
<1>3. IoType'
  BY DEF TypeOK, IoType, StopEndpoint, serverVars, queueVars, ioVars, barrierVars, clientVars
<1>4. ConnectionType'
  BY DEF TypeOK, ConnectionType, StopEndpoint, serverVars, queueVars, ioVars, barrierVars, clientVars
<1>5. ClientType'
  BY DEF TypeOK, ClientType, StopEndpoint, serverVars, queueVars, ioVars, barrierVars, clientVars
<1>6. QED
  BY <1>1, <1>2, <1>3, <1>4, <1>5 DEF TypeOK

\* JoinEndpoint preserves the type invariant.
LEMMA JoinEndpointType ==
  ASSUME TypeOK, JoinEndpoint
  PROVE  TypeOK'
<1>1. QueueType'
  BY DEF TypeOK, QueueType, JoinEndpoint, serverVars, queueVars, ioVars, barrierVars, clientVars
<1>2. ServerType'
  BY DEF TypeOK, ServerType, JoinEndpoint, EmptySlot, Slots, ProjectStates, Serving, Stopping,
         serverVars, queueVars, ioVars, barrierVars, clientVars
<1>3. IoType'
  BY DEF TypeOK, IoType, JoinEndpoint, serverVars, queueVars, ioVars, barrierVars, clientVars
<1>4. ConnectionType'
  BY DEF TypeOK, ConnectionType, JoinEndpoint, serverVars, queueVars, ioVars, barrierVars, clientVars
<1>5. ClientType'
  BY DEF TypeOK, ClientType, JoinEndpoint, serverVars, queueVars, ioVars, barrierVars, clientVars
<1>6. QED
  BY <1>1, <1>2, <1>3, <1>4, <1>5 DEF TypeOK

\* Every value the Server, the event loop, the connections and the clients hold
\* keeps its type in every behaviour of the communication core.
THEOREM TypeCorrect == Spec => []TypeOK
<1>1. Init => TypeOK
  <2> SUFFICES ASSUME Init PROVE TypeOK
    OBVIOUS
  <2>1. QueueType
    BY DEF Init, QueueType
  <2>2. ServerType
    BY DEF Init, ServerType, EmptySlot, Slots, ProjectStates, Serving, Stopping
  <2>3. IoType
    <3>1. ioStopping \in BOOLEAN /\ ioExited \in BOOLEAN
      BY DEF Init
    <3>2. gate \in Int /\ peer \in [Conn -> {"new", "open", "gone"}]
      BY DEF Init
    <3>3. QED
      BY <3>1, <3>2 DEF Init, IoType
  <2>4. ConnectionType
    <3>1. channel \in [Conn -> Seq(OutboundMessages)]
      BY DEF Init
    <3>2. QED
      BY <3>1 DEF Init, ConnectionType
  <2>5. ClientType
    BY DEF Init, ClientType
  <2>6. QED
    BY <2>1, <2>2, <2>3, <2>4, <2>5 DEF TypeOK
<1>2. TypeOK /\ [Next]_vars => TypeOK'
  <2> SUFFICES ASSUME TypeOK, [Next]_vars PROVE TypeOK'
    OBVIOUS
  <2>1. CASE IoNext
    BY <2>1, AcceptPeerType, DispatchType, PrepareOutputType, SendPendingType, PeerEndsType,
     ExpirePeerType, ClosePeerType, IoExitType
    DEF IoNext
  <2>2. CASE ServerNext
    BY <2>2, WaitExpiredType, WaitPopType, DropExpiredType, ExecuteRequestType, ExecuteLoginType,
     ExecuteClientType, ExecuteCloseType, RouteClientType, PublishStateType,
     CloseRegisteredType, RouteDoneType, PresentType, BarrierEndsType,
     FinishMessageType, StopAcceptingType, DiscardType, StopEndpointType,
     JoinEndpointType
    DEF ServerNext
  <2>3. CASE ConsoleSubmit \/ LeaseExpires
    BY <2>3, ConsoleSubmitType, LeaseExpiresType
  <2>4. CASE UNCHANGED vars
    BY <2>4 DEF TypeOK, QueueType, ServerType, IoType, ConnectionType, ClientType, vars,
                serverVars, queueVars, ioVars, barrierVars, clientVars
  <2>5. QED
    BY <2>1, <2>2, <2>3, <2>4 DEF Next, Terminated
<1>3. QED
  BY <1>1, <1>2, PTL DEF Spec

-----------------------------------------------------------------------------
(***************************************************************************)
(* The order of control messages                                           *)
(***************************************************************************)

\* Appending to and popping from the request queue, by position.
LEMMA PushPositions ==
  ASSUME NEW m \in ControlMessages, queue \in Seq(ControlMessages), accepting, Push(m)
  PROVE  /\ Len(queue') = Len(queue) + 1
         /\ DOMAIN queue' = 1..(Len(queue) + 1)
         /\ \A i \in 1..Len(queue) : queue'[i] = queue[i]
         /\ queue'[Len(queue) + 1] = m
  BY DEF Push

\* Popping shifts every position down by one.
LEMMA PopPositions ==
  ASSUME queue \in Seq(ControlMessages), queue # <<>>, queue' = Tail(queue)
  PROVE  /\ Len(queue) > 0
         /\ DOMAIN queue' = 1..(Len(queue) - 1)
         /\ \A i \in 1..(Len(queue) - 1) : queue'[i] = queue[i + 1]
         /\ Head(queue) = queue[1]
  OBVIOUS

\* A step that touches neither the queue, nor a peer, nor the message in hand.
LEMMA CloseInvFrame ==
  ASSUME CloseInv, UNCHANGED <<queue, peer, due, ioExited>>,
         current' = current \/ current'.type # "close"
  PROVE  CloseInv'
  BY DEF CloseInv, CloseIsLast

\* A step that appends a message of a connection whose peer is open, or of the
\* console, or that finds the queue stopped.
LEMMA CloseInvPush ==
  ASSUME TypeOK, CloseInv, NEW m \in ControlMessages, Push(m),
         m.type # "close", m.conn \in Conn => peer[m.conn] = "open",
         UNCHANGED <<peer, current, ioExited>>, due' = None \/ peer[due'] = "open",
         ioExited => due' = None
  PROVE  CloseInv'
<1> USE DEF CloseInv, CloseIsLast
<1>0. queue \in Seq(ControlMessages) /\ peer \in [Conn -> {"new", "open", "gone"}]
  BY DEF TypeOK, QueueType, IoType
<1>1. CASE ~accepting
  BY <1>1 DEF Push
<1>2. CASE accepting
  <2>1. /\ DOMAIN queue = 1..Len(queue) /\ Len(queue) \in Nat
        /\ DOMAIN queue' = 1..(Len(queue) + 1)
        /\ \A i \in 1..Len(queue) : queue'[i] = queue[i]
        /\ queue'[Len(queue) + 1] = m
    BY <1>0, <1>2, PushPositions
  <2>2. \A i \in DOMAIN queue : queue[i].type = "close" => queue[i].conn # m.conn
    <3> SUFFICES ASSUME NEW i \in DOMAIN queue, queue[i].type = "close"
                 PROVE  queue[i].conn # m.conn
      OBVIOUS
    <3>1. queue[i].conn \in Conn
      BY <1>0 DEF ControlMessages
    <3>2. QED
      BY <3>1
  <2>3. current.type = "close" => m.conn # current.conn
    <3>1. current.type = "close" => current.conn \in Conn
      BY DEF TypeOK, QueueType, ControlMessages, NoMessage, ControlMessage
    <3>2. QED
      BY <3>1
  <2>4. QED
    BY <2>1, <2>2, <2>3
<1>3. QED
  BY <1>1, <1>2

\* Popping a message: what follows it in the queue keeps following it.
LEMMA CloseInvPop ==
  ASSUME TypeOK, CloseInv, WaitPop
  PROVE  CloseInv'
<1> USE DEF CloseInv, CloseIsLast
<1>1. /\ queue \in Seq(ControlMessages) /\ queue # <<>> /\ queue' = Tail(queue)
      /\ current' = Head(queue)
      /\ UNCHANGED <<peer, due, ioExited>>
  BY DEF TypeOK, QueueType, WaitPop, ioVars
<1>2. /\ Len(queue) > 0 /\ Len(queue) \in Nat
      /\ DOMAIN queue = 1..Len(queue)
      /\ DOMAIN queue' = 1..(Len(queue) - 1)
      /\ \A i \in 1..(Len(queue) - 1) : queue'[i] = queue[i + 1]
      /\ current' = queue[1]
  BY <1>1, PopPositions
<1>3. \A i \in DOMAIN queue' : i + 1 \in DOMAIN queue /\ 1 < i + 1 /\ queue'[i] = queue[i + 1]
  BY <1>2
<1>4. 1 \in DOMAIN queue
  BY <1>2
<1>5. \A i \in DOMAIN queue' : queue'[i].type = "close" => peer'[queue'[i].conn] = "gone"
  BY <1>1, <1>3
<1>6. current'.type = "close" => peer'[current'.conn] = "gone"
  BY <1>1, <1>2, <1>4
<1>7. \A i, j \in DOMAIN queue' :
        queue'[i].type = "close" /\ i < j => queue'[j].conn # queue'[i].conn
  <2> SUFFICES ASSUME NEW i \in DOMAIN queue', NEW j \in DOMAIN queue',
                      queue'[i].type = "close", i < j
               PROVE  queue'[j].conn # queue'[i].conn
    OBVIOUS
  <2>1. i + 1 \in DOMAIN queue /\ j + 1 \in DOMAIN queue /\ i + 1 < j + 1
    BY <1>2
  <2>2. QED
    BY <1>3, <2>1
<1>8. \A i \in DOMAIN queue' : current'.type = "close" => queue'[i].conn # current'.conn
  BY <1>2, <1>3, <1>4
<1>9. QED
  BY <1>1, <1>5, <1>6, <1>7, <1>8

\* close_peer: the one place that posts a close message.
LEMMA CloseInvClosePeer ==
  ASSUME TypeOK, CloseInv, NEW c \in Conn, ClosePeer(c)
  PROVE  CloseInv'
<1> USE DEF CloseInv, CloseIsLast
<1> DEFINE m == ControlMessage("close", c, NoId, None, {})
<1>0. /\ queue \in Seq(ControlMessages) /\ peer \in [Conn -> {"new", "open", "gone"}]
      /\ m \in ControlMessages /\ m.type = "close" /\ m.conn = c
  BY DEF TypeOK, QueueType, IoType, ControlMessages, ControlMessage
<1>1. /\ peer[c] = "open" /\ due' = None /\ Push(m)
      /\ peer' = [peer EXCEPT ![c] = "gone"]
      /\ UNCHANGED <<current, ioExited>>
  BY NamesAssumption DEF ClosePeer, serverVars
<1>2. \A i \in DOMAIN queue : queue[i].type = "close" => queue[i].conn # c
  BY <1>1
<1>3. current.type = "close" => current.conn # c /\ current.conn \in Conn
  BY <1>1 DEF TypeOK, QueueType, ControlMessages, NoMessage, ControlMessage
<1>4. \A i \in DOMAIN queue : queue[i].type = "close" => queue[i].conn \in Conn
  BY <1>0 DEF ControlMessages
<1> HIDE DEF m
<1>5. CASE ~accepting
  BY <1>0, <1>1, <1>2, <1>3, <1>4, <1>5 DEF Push
<1>6. CASE accepting
  <2>1. /\ DOMAIN queue = 1..Len(queue) /\ Len(queue) \in Nat
        /\ DOMAIN queue' = 1..(Len(queue) + 1)
        /\ \A i \in 1..Len(queue) : queue'[i] = queue[i]
        /\ queue'[Len(queue) + 1] = m
    BY <1>0, <1>1, <1>6, PushPositions
  <2>2. QED
    BY <1>0, <1>1, <1>2, <1>3, <1>4, <2>1
<1>7. QED
  BY <1>5, <1>6

\* Every step of the event loop.
LEMMA CloseInvIo ==
  ASSUME TypeOK, CloseInv, IoNext
  PROVE  CloseInv'
<1>1. ASSUME NEW c \in Conn, AcceptPeer(c) PROVE CloseInv'
  <2>1. peer[c] = "new" /\ peer' = [peer EXCEPT ![c] = "open"]
        /\ UNCHANGED <<queue, current, due, ioExited>>
        /\ peer \in [Conn -> {"new", "open", "gone"}]
    BY <1>1 DEF AcceptPeer, TypeOK, IoType, serverVars, queueVars
  <2>2. \A i \in DOMAIN queue : queue[i].type = "close" => queue[i].conn # c
    BY <2>1 DEF CloseInv
  <2>3. current.type = "close" => current.conn # c
    BY <2>1 DEF CloseInv
  <2>4. due # None => due # c
    BY <2>1 DEF CloseInv
  <2>5. QED
    BY <2>1, <2>2, <2>3, <2>4, NamesAssumption DEF CloseInv, CloseIsLast, TypeOK, IoType
<1>2. ASSUME NEW c \in Conn, Dispatch(c) PROVE CloseInv'
  <2>1. PICK m \in Frames(c) :
          DispatchDuplicate(c, m) \/ DispatchRejected(c, m) \/ DispatchControl(c, m)
    BY <1>2 DEF Dispatch
  <2>2. /\ peer[c] = "open" /\ ~ioExited /\ UNCHANGED <<peer, current, ioExited>>
    BY <1>2 DEF Dispatch, IoReady, serverVars
  <2>3. due' \in {None, c}
    BY <2>1 DEF DispatchDuplicate, DispatchRejected, DispatchControl
  <2>4. CASE DispatchControl(c, m)
    BY <2>2, <2>3, <2>4, CloseInvPush, FramesType DEF DispatchControl
  <2>5. CASE ~DispatchControl(c, m)
    <3>1. UNCHANGED queue
      BY <2>1, <2>5 DEF DispatchDuplicate, DispatchRejected, queueVars
    <3>2. QED
      BY <2>2, <2>3, <3>1 DEF CloseInv, CloseIsLast
  <2>6. QED
    BY <2>4, <2>5
<1>3. ASSUME NEW c \in Conn, PrepareOutput(c) \/ SendPending(c) \/ ExpirePeer(c) PROVE CloseInv'
  BY <1>3, CloseInvFrame
  DEF PrepareOutput, SendPending, ExpirePeer, serverVars, queueVars, ioVars
<1>4. ASSUME NEW c \in Conn, PeerEnds(c) PROVE CloseInv'
  BY <1>4 DEF PeerEnds, IoReady, serverVars, queueVars, CloseInv, CloseIsLast
<1>5. CASE IoExit
  BY <1>5 DEF IoExit, IoReady, serverVars, queueVars, CloseInv, CloseIsLast
<1>6. QED
  BY <1>1, <1>2, <1>3, <1>4, <1>5, CloseInvClosePeer DEF IoNext

\* Every step of the control thread.
LEMMA CloseInvServer ==
  ASSUME TypeOK, CloseInv, ServerNext
  PROVE  CloseInv'
<1>1. CASE \/ WaitExpired \/ DropExpired \/ ExecuteRequest \/ ExecuteLogin \/ ExecuteClient
           \/ ExecuteClose \/ RouteDone \/ Present \/ FinishMessage \/ Discard
  <2>1. NoMessage.type # "close"
    BY DEF NoMessage, ControlMessage
  <2>2. /\ UNCHANGED <<queue, peer, due, ioExited>>
        /\ current' = current \/ current' = NoMessage
    BY <1>1
    DEF WaitExpired, DropExpired, ExecuteRequest, ExecuteLogin, ExecuteClient, ExecuteClose,
        RouteDone, Present, FinishMessage, Discard, queueVars, ioVars
  <2>3. QED
    BY <2>1, <2>2, CloseInvFrame
<1>2. ASSUME NEW c \in Conn, RouteClient(c) \/ PublishState(c) \/ CloseRegistered(c)
      PROVE  CloseInv'
  BY <1>2, CloseInvFrame DEF RouteClient, PublishState, CloseRegistered, queueVars, ioVars
<1>3. ASSUME NEW result \in {"written", "gave_up"}, BarrierEnds(result) PROVE CloseInv'
  BY <1>3, CloseInvFrame DEF BarrierEnds, queueVars, ioVars
<1>4. CASE StopAccepting
  <2>1. queue' = <<>> /\ UNCHANGED <<peer, due, ioExited, current>>
    BY <1>4 DEF StopAccepting, ioVars
  <2>2. DOMAIN queue' = {}
    BY <2>1
  <2>3. QED
    BY <2>1, <2>2 DEF CloseInv, CloseIsLast
<1>5. CASE StopEndpoint
  BY <1>5, CloseInvFrame DEF StopEndpoint, queueVars
<1>6. CASE JoinEndpoint
  <2>1. /\ ioExited /\ UNCHANGED <<queue, current, due, ioExited>>
        /\ peer' = [c \in Conn |-> IF peer[c] = "open" THEN "gone" ELSE peer[c]]
    BY <1>6 DEF JoinEndpoint, queueVars
  <2>2. \A i \in DOMAIN queue : queue[i].type = "close" => queue[i].conn \in Conn
    BY DEF TypeOK, QueueType, ControlMessages
  <2>3. current.type = "close" => current.conn \in Conn
    BY DEF TypeOK, QueueType, ControlMessages, NoMessage, ControlMessage
  <2>4. QED
    BY <2>1, <2>2, <2>3 DEF CloseInv, CloseIsLast
<1>7. QED
  BY <1>1, <1>2, <1>3, <1>4, <1>5, <1>6, CloseInvPop DEF ServerNext

\* The console, the clock and stuttering.
LEMMA CloseInvOthers ==
  ASSUME TypeOK, CloseInv, ConsoleSubmit \/ LeaseExpires \/ UNCHANGED vars
  PROVE  CloseInv'
<1>1. CASE ConsoleSubmit
  <2>1. PICK kind \in Kinds : Push(ControlMessage("request", Console, NoId, kind, {}))
    BY <1>1 DEF ConsoleSubmit
  <2> DEFINE m == ControlMessage("request", Console, NoId, kind, {})
  <2>2. m \in ControlMessages /\ m.type # "close" /\ m.conn \notin Conn
    BY KindsAssumption, NamesAssumption DEF ControlMessage, ControlMessages
  <2>3. UNCHANGED <<peer, current, ioExited, due>>
    BY <1>1 DEF ConsoleSubmit, serverVars, ioVars
  <2>4. (due' = None \/ peer[due'] = "open") /\ (ioExited => due' = None)
    BY <2>3 DEF CloseInv
  <2> HIDE DEF m
  <2>5. QED
    BY <2>1, <2>2, <2>3, <2>4, CloseInvPush DEF m
<1>2. CASE LeaseExpires \/ UNCHANGED vars
  BY <1>2, CloseInvFrame DEF LeaseExpires, vars, serverVars, queueVars, ioVars
<1>3. QED
  BY <1>1, <1>2

\* The close message of a connection is the last control message that names it:
\* once execute_connection_close has run, nothing runs for that connection.
THEOREM CloseOrdered == Spec => []CloseIsLast
<1>1. Init => CloseInv
  BY DEF Init, CloseInv, CloseIsLast, NoMessage, ControlMessage
<1>2. TypeOK /\ CloseInv /\ [Next]_vars => CloseInv'
  BY CloseInvIo, CloseInvServer, CloseInvOthers DEF Next, Terminated
<1>3. CloseInv => CloseIsLast
  BY DEF CloseInv
<1>4. QED
  BY <1>1, <1>2, <1>3, TypeCorrect, PTL DEF Spec

-----------------------------------------------------------------------------
(***************************************************************************)
(* The raw pointers of the registry                                        *)
(***************************************************************************)

\* A step that leaves the queue, the registry and the peers alone, and that
\* neither takes a close message out of hand nor puts one into it.
LEMMA RegistryInvFrame ==
  ASSUME RegistryInv, UNCHANGED <<queue, accepting, registry, peer>>,
         pc' \in Serving => /\ pc \in Serving
                            /\ pc' # "recheck" \/ (pc' = pc /\ current' = current)
                            /\ pc = "recheck" => pc' = pc \/ current.type # "close"
  PROVE  RegistryInv'
  BY DEF RegistryInv, ClosePosted

\* Appending a message keeps what was posted, and a message that is not a LOGIN
\* of a closed connection adds no obligation.
LEMMA RegistryInvPush ==
  ASSUME TypeOK, RegistryInv, NEW m \in ControlMessages, Push(m),
         m.type = "login" => peer[m.conn] = "open",
         UNCHANGED <<registry, peer, pc, current>>
  PROVE  RegistryInv'
<1> SUFFICES ASSUME pc \in Serving PROVE RegistryInv'
  BY DEF RegistryInv
<1>1. accepting /\ accepting' = accepting /\ queue \in Seq(ControlMessages)
  BY DEF RegistryInv, Push, TypeOK, QueueType
<1>2. /\ DOMAIN queue = 1..Len(queue) /\ Len(queue) \in Nat
      /\ DOMAIN queue' = 1..(Len(queue) + 1)
      /\ \A i \in 1..Len(queue) : queue'[i] = queue[i]
      /\ queue'[Len(queue) + 1] = m
  BY <1>1, PushPositions
<1>3. \A c, n : ClosePosted(queue, c, n) => ClosePosted(queue', c, n)
  BY <1>2 DEF ClosePosted
<1>4. \A i \in DOMAIN queue' :
        queue'[i].type = "login" =>
          peer[queue'[i].conn] = "open" \/ ClosePosted(queue', queue'[i].conn, i)
  BY <1>2, <1>3 DEF RegistryInv
<1>5. QED
  BY <1>1, <1>3, <1>4 DEF RegistryInv

\* close_peer hands the connection over from the peer to the close message.
LEMMA RegistryInvClosePeer ==
  ASSUME TypeOK, RegistryInv, NEW c \in Conn, ClosePeer(c)
  PROVE  RegistryInv'
<1> DEFINE m == ControlMessage("close", c, NoId, None, {})
<1>0. m \in ControlMessages /\ m.type = "close" /\ m.conn = c
  BY DEF ControlMessages, ControlMessage
<1>1. /\ Push(m) /\ peer' = [peer EXCEPT ![c] = "gone"]
      /\ UNCHANGED <<registry, pc, current>>
  BY DEF ClosePeer, serverVars
<1> HIDE DEF m
<1> SUFFICES ASSUME pc \in Serving PROVE RegistryInv'
  BY <1>1 DEF RegistryInv
<1>2. accepting /\ accepting' = accepting /\ queue \in Seq(ControlMessages)
      /\ peer \in [Conn -> {"new", "open", "gone"}]
  BY <1>1 DEF RegistryInv, Push, TypeOK, QueueType, IoType
<1>3. /\ DOMAIN queue = 1..Len(queue) /\ Len(queue) \in Nat
      /\ DOMAIN queue' = 1..(Len(queue) + 1)
      /\ \A i \in 1..Len(queue) : queue'[i] = queue[i]
      /\ queue'[Len(queue) + 1] = m
  BY <1>0, <1>1, <1>2, PushPositions
<1>4. \A x, n : ClosePosted(queue, x, n) => ClosePosted(queue', x, n)
  BY <1>3 DEF ClosePosted
<1>5. \A n \in 0..Len(queue) : ClosePosted(queue', c, n)
  BY <1>0, <1>3 DEF ClosePosted
<1>6. 0 \in 0..Len(queue) /\ \A i \in 1..Len(queue) : i \in 0..Len(queue)
  BY <1>3
<1>7. \A x : peer[x] = "open" /\ x # c => peer'[x] = "open"
  BY <1>1, <1>2
<1>8. \A i \in DOMAIN queue' :
        queue'[i].type = "login" =>
          peer'[queue'[i].conn] = "open" \/ ClosePosted(queue', queue'[i].conn, i)
  BY <1>0, <1>3, <1>4, <1>5, <1>6, <1>7 DEF RegistryInv
<1>9. QED
  BY <1>1, <1>2, <1>4, <1>5, <1>6, <1>7, <1>8 DEF RegistryInv

\* Popping a message moves the head of the queue into the control thread's hand.
LEMMA RegistryInvPop ==
  ASSUME TypeOK, RegistryInv, WaitPop
  PROVE  RegistryInv'
<1>1. /\ queue \in Seq(ControlMessages) /\ queue # <<>> /\ queue' = Tail(queue)
      /\ current' = Head(queue) /\ pc' = "recheck" /\ pc \in Serving /\ pc # "recheck"
      /\ UNCHANGED <<peer, registry, accepting>>
  BY DEF TypeOK, QueueType, WaitPop, Serving, ioVars
<1>2. /\ Len(queue) > 0 /\ Len(queue) \in Nat
      /\ DOMAIN queue = 1..Len(queue)
      /\ DOMAIN queue' = 1..(Len(queue) - 1)
      /\ \A i \in 1..(Len(queue) - 1) : queue'[i] = queue[i + 1]
      /\ current' = queue[1]
  BY <1>1, PopPositions
<1>3. ASSUME NEW c, NEW n \in Nat, ClosePosted(queue, c, n + 1)
      PROVE  ClosePosted(queue', c, n)
  <2>1. PICK j \in DOMAIN queue : n + 1 < j /\ queue[j].type = "close" /\ queue[j].conn = c
    BY <1>3 DEF ClosePosted
  <2>2. j - 1 \in DOMAIN queue' /\ n < j - 1 /\ queue'[j - 1] = queue[j]
    BY <1>2, <2>1
  <2>3. QED
    BY <2>1, <2>2 DEF ClosePosted
<1>4. ASSUME NEW c, ClosePosted(queue, c, 0)
      PROVE  ClosePosted(queue', c, 0) \/ (current'.type = "close" /\ current'.conn = c)
  <2>1. PICK j \in DOMAIN queue : 0 < j /\ queue[j].type = "close" /\ queue[j].conn = c
    BY <1>4 DEF ClosePosted
  <2>2. CASE j = 1
    BY <1>2, <2>1, <2>2
  <2>3. CASE j # 1
    <3>1. 0 + 1 < j /\ ClosePosted(queue, c, 0 + 1)
      BY <1>2, <2>1, <2>3 DEF ClosePosted
    <3>2. QED
      BY <1>3, <3>1
  <2>4. QED
    BY <2>2, <2>3
<1>5. \A i \in DOMAIN queue' :
        queue'[i].type = "login" =>
          peer[queue'[i].conn] = "open" \/ ClosePosted(queue', queue'[i].conn, i)
  <2> SUFFICES ASSUME NEW i \in DOMAIN queue', queue'[i].type = "login",
                      peer[queue'[i].conn] # "open"
               PROVE  ClosePosted(queue', queue'[i].conn, i)
    OBVIOUS
  <2>1. i \in Nat /\ i + 1 \in DOMAIN queue /\ queue'[i] = queue[i + 1]
    BY <1>2
  <2>2. ClosePosted(queue, queue[i + 1].conn, i + 1)
    BY <1>1, <2>1 DEF RegistryInv
  <2>3. QED
    BY <1>3, <2>1, <2>2
<1>6. current'.type = "login" =>
        peer[current'.conn] = "open" \/ ClosePosted(queue', current'.conn, 0)
  <2> SUFFICES ASSUME current'.type = "login", peer[current'.conn] # "open"
               PROVE  ClosePosted(queue', current'.conn, 0)
    OBVIOUS
  <2>1. 1 \in DOMAIN queue
    BY <1>2
  <2>2. ClosePosted(queue, queue[1].conn, 0 + 1)
    BY <1>1, <1>2, <2>1 DEF RegistryInv
  <2>3. QED
    BY <1>2, <1>3, <2>2
<1>7. QED
  BY <1>1, <1>4, <1>5, <1>6 DEF RegistryInv

\* Every step of the event loop.
LEMMA RegistryInvIo ==
  ASSUME TypeOK, RegistryInv, IoNext
  PROVE  RegistryInv'
<1>1. ASSUME NEW c \in Conn, AcceptPeer(c) PROVE RegistryInv'
  <2>1. /\ peer \in [Conn -> {"new", "open", "gone"}] /\ peer' = [peer EXCEPT ![c] = "open"]
        /\ UNCHANGED <<queue, accepting, registry, pc, current>>
    BY <1>1 DEF AcceptPeer, TypeOK, IoType, serverVars, queueVars
  <2>2. \A x : peer[x] = "open" => peer'[x] = "open"
    BY <2>1
  <2>3. \A x, n : ClosePosted(queue', x, n) <=> ClosePosted(queue, x, n)
    BY <2>1 DEF ClosePosted
  <2>4. QED
    BY <2>1, <2>2, <2>3 DEF RegistryInv
<1>2. ASSUME NEW c \in Conn, Dispatch(c) PROVE RegistryInv'
  <2>1. PICK m \in Frames(c) :
          DispatchDuplicate(c, m) \/ DispatchRejected(c, m) \/ DispatchControl(c, m)
    BY <1>2 DEF Dispatch
  <2>2. /\ peer[c] = "open" /\ UNCHANGED <<peer, registry, pc, current>>
    BY <1>2 DEF Dispatch, serverVars
  <2>3. CASE DispatchControl(c, m)
    BY <2>2, <2>3, RegistryInvPush, FramesType DEF DispatchControl
  <2>4. CASE ~DispatchControl(c, m)
    <3>1. UNCHANGED <<queue, accepting>>
      BY <2>1, <2>4 DEF DispatchDuplicate, DispatchRejected, queueVars
    <3>2. QED
      BY <2>2, <3>1 DEF RegistryInv, ClosePosted
  <2>5. QED
    BY <2>3, <2>4
<1>3. ASSUME NEW c \in Conn, PrepareOutput(c) \/ SendPending(c) \/ ExpirePeer(c) \/ PeerEnds(c)
      PROVE  RegistryInv'
  <2>1. UNCHANGED <<queue, accepting, registry, peer, pc, current>>
    BY <1>3 DEF PrepareOutput, SendPending, ExpirePeer, PeerEnds, serverVars, queueVars, ioVars
  <2>2. QED
    BY <2>1 DEF RegistryInv, ClosePosted
<1>4. CASE IoExit
  <2>1. UNCHANGED <<queue, accepting, registry, peer, pc, current>>
    BY <1>4 DEF IoExit, serverVars, queueVars
  <2>2. QED
    BY <2>1 DEF RegistryInv, ClosePosted
<1>5. QED
  BY <1>1, <1>2, <1>3, <1>4, RegistryInvClosePeer DEF IoNext

\* execute_login registers a connection its peer or a later close message holds.
LEMMA RegistryInvLogin ==
  ASSUME TypeOK, RegistryInv, ExecuteLogin
  PROVE  RegistryInv'
<1>1. /\ pc = "recheck" /\ pc \in Serving /\ current.type = "login" /\ pc' = "present"
      /\ UNCHANGED <<queue, accepting, peer, current>>
      /\ registry' \in {registry, registry \cup {current.conn}}
  BY DEF ExecuteLogin, Starts, Serving, queueVars, ioVars
<1>2. \A x, n : ClosePosted(queue', x, n) <=> ClosePosted(queue, x, n)
  BY <1>1 DEF ClosePosted
<1>3. "login" # "close" /\ "present" # "recheck"
  OBVIOUS
<1>4. QED
  BY <1>1, <1>2, <1>3 DEF RegistryInv

\* execute_connection_close removes the entry before its message dies.
LEMMA RegistryInvClose ==
  ASSUME TypeOK, RegistryInv, ExecuteClose
  PROVE  RegistryInv'
<1>1. /\ pc = "recheck" /\ pc \in Serving /\ current.type = "close" /\ pc' = "wait"
      /\ UNCHANGED <<queue, accepting, peer>>
      /\ registry' = registry \ {current.conn}
  BY DEF ExecuteClose, Starts, Serving, queueVars, ioVars
<1>2. \A x, n : ClosePosted(queue', x, n) <=> ClosePosted(queue, x, n)
  BY <1>1 DEF ClosePosted
<1>3. QED
  BY <1>1, <1>2 DEF RegistryInv

\* Every step of the control thread.
LEMMA RegistryInvServer ==
  ASSUME TypeOK, RegistryInv, ServerNext
  PROVE  RegistryInv'
<1>1. CASE \/ WaitExpired \/ DropExpired \/ StopAccepting \/ Discard \/ StopEndpoint \/ JoinEndpoint
  <2>1. pc' \notin Serving
    BY <1>1 DEF WaitExpired, DropExpired, StopAccepting, Discard, StopEndpoint, JoinEndpoint, Serving
  <2>2. QED
    BY <2>1 DEF RegistryInv
<1>2. CASE ExecuteRequest \/ ExecuteClient
  <2>1. /\ pc = "recheck" /\ current.type # "close" /\ pc' \in {"present", "route"}
        /\ UNCHANGED <<queue, accepting, registry, peer>>
    BY <1>2 DEF ExecuteRequest, ExecuteClient, Starts, queueVars, ioVars
  <2>2. QED
    BY <2>1, RegistryInvFrame DEF Serving
<1>3. CASE RouteDone \/ Present \/ FinishMessage
  <2>1. /\ pc \in {"route", "present", "publish"} /\ pc' # "recheck"
        /\ UNCHANGED <<queue, accepting, registry, peer>>
    BY <1>3 DEF RouteDone, Present, FinishMessage, queueVars, ioVars
  <2>2. QED
    BY <2>1, RegistryInvFrame DEF Serving
<1>4. ASSUME NEW c \in Conn, RouteClient(c) \/ PublishState(c) PROVE RegistryInv'
  BY <1>4, RegistryInvFrame DEF RouteClient, PublishState, queueVars, ioVars
<1>5. ASSUME NEW c \in Conn, CloseRegistered(c) PROVE RegistryInv'
  BY <1>5 DEF RegistryInv, CloseRegistered, Serving
<1>6. ASSUME NEW result \in {"written", "gave_up"}, BarrierEnds(result) PROVE RegistryInv'
  BY <1>6, RegistryInvFrame DEF BarrierEnds, queueVars, ioVars, Serving
<1>7. QED
  BY <1>1, <1>2, <1>3, <1>4, <1>5, <1>6, RegistryInvPop, RegistryInvLogin, RegistryInvClose
  DEF ServerNext

\* The console, the clock and stuttering.
LEMMA RegistryInvOthers ==
  ASSUME TypeOK, RegistryInv, ConsoleSubmit \/ LeaseExpires \/ UNCHANGED vars
  PROVE  RegistryInv'
<1>1. CASE ConsoleSubmit
  <2>1. PICK kind \in Kinds : Push(ControlMessage("request", Console, NoId, kind, {}))
    BY <1>1 DEF ConsoleSubmit
  <2> DEFINE m == ControlMessage("request", Console, NoId, kind, {})
  <2>2. m \in ControlMessages /\ m.type # "login"
    BY KindsAssumption DEF ControlMessage, ControlMessages
  <2>3. UNCHANGED <<registry, peer, pc, current>>
    BY <1>1 DEF ConsoleSubmit, serverVars, ioVars
  <2> HIDE DEF m
  <2>4. QED
    BY <2>1, <2>2, <2>3, RegistryInvPush DEF m
<1>2. CASE LeaseExpires \/ UNCHANGED vars
  <2>1. UNCHANGED <<queue, accepting, registry, peer, pc, current>>
    BY <1>2 DEF LeaseExpires, vars, serverVars, queueVars, ioVars
  <2>2. QED
    BY <2>1 DEF RegistryInv, ClosePosted
<1>3. QED
  BY <1>1, <1>2

\* Until shutdown() begins, no raw pointer of communication::connections dangles:
\* register, unregister, publish_server_state and route_client dereference live
\* objects whatever the clients and the event loop do.
THEOREM RegistryNeverDangles == Spec => []RegistryAlive
<1>1. Init => RegistryInv
  BY DEF Init, RegistryInv
<1>2. TypeOK /\ RegistryInv /\ [Next]_vars => RegistryInv'
  BY RegistryInvIo, RegistryInvServer, RegistryInvOthers DEF Next, Terminated
<1>3. RegistryInv => RegistryAlive
  BY DEF RegistryInv, RegistryAlive, Alive, ClosePosted
<1>4. QED
  BY <1>1, <1>2, <1>3, TypeCorrect, PTL DEF Spec

-----------------------------------------------------------------------------
\* CloseInv as a theorem of its own, for the proofs below.
LEMMA CloseInvariant == Spec => []CloseInv
<1>1. Init => CloseInv
  BY DEF Init, CloseInv, CloseIsLast, NoMessage, ControlMessage
<1>2. TypeOK /\ CloseInv /\ [Next]_vars => CloseInv'
  BY CloseInvIo, CloseInvServer, CloseInvOthers DEF Next, Terminated
<1>3. QED
  BY <1>1, <1>2, TypeCorrect, PTL DEF Spec

-----------------------------------------------------------------------------
(***************************************************************************)
(* Closing is final                                                        *)
(***************************************************************************)

\* A closing connection has an empty channel.
ClosedEmpty == \A c \in Conn : closing[c] => channel[c] = <<>>

\* A step reopens no connection and leaves the closing ones empty.
StaysClosed ==
  \A c \in Conn : /\ closing[c] => closing'[c]
                  /\ closing'[c] => channel'[c] = <<>>

LEMMA BeginCloseStays ==
  ASSUME TypeOK, ClosedEmpty, NEW c, BeginClose(c) PROVE StaysClosed
  BY DEF TypeOK, ConnectionType, ClosedEmpty, BeginClose, StaysClosed

LEMMA EnqueueStays ==
  ASSUME TypeOK, ClosedEmpty, NEW c, NEW m, Enqueue(c, m) PROVE StaysClosed
<1>1. CASE HasRoom(c)
  BY <1>1 DEF TypeOK, ConnectionType, ClosedEmpty, Enqueue, HasRoom, StaysClosed
<1>2. CASE ~HasRoom(c)
  BY <1>2, BeginCloseStays DEF Enqueue
<1>3. QED
  BY <1>1, <1>2

LEMMA UnchangedStays ==
  ASSUME ClosedEmpty, UNCHANGED <<closing, channel>> PROVE StaysClosed
  BY DEF ClosedEmpty, StaysClosed

LEMMA TakeOutputStays ==
  ASSUME TypeOK, ClosedEmpty, NEW c \in Conn, TakeOutput(c)
  PROVE  /\ StaysClosed
         /\ \A x \in Conn : closing[x] => sending'[x] \in {None, sending[x]}
<1>1. CASE closing[c] \/ channel[c] = <<>>
  BY <1>1, UnchangedStays DEF TakeOutput, TypeOK, IoType
<1>2. CASE ~(closing[c] \/ channel[c] = <<>>)
  <2>1. \A x \in Conn : closing[x] => sending'[x] = sending[x]
    BY <1>2 DEF TakeOutput, TypeOK, IoType
  <2>2. CASE channel' = [channel EXCEPT ![c] = Tail(@)] /\ UNCHANGED closing
    BY <1>2, <2>2, <2>1 DEF TypeOK, ConnectionType, ClosedEmpty, StaysClosed
  <2>3. CASE BeginClose(c)
    BY <2>1, <2>3, BeginCloseStays
  <2>4. QED
    BY <1>2, <2>2, <2>3 DEF TakeOutput
<1>3. QED
  BY <1>1, <1>2

\* Every step: one case per way to touch closing, channel or sending.
LEMMA StepStays ==
  ASSUME TypeOK, ClosedEmpty, [Next]_vars
  PROVE  /\ StaysClosed
         /\ \A c \in Conn : closing[c] => sending'[c] \in {None, sending[c]}
<1> DEFINE Quiet == \A c \in Conn : closing[c] => sending'[c] \in {None, sending[c]}
<1>0. UNCHANGED sending => Quiet
  OBVIOUS
<1>1. ASSUME NEW c \in Conn, AcceptPeer(c) \/ PeerEnds(c) PROVE StaysClosed /\ Quiet
  BY <1>0, <1>1, UnchangedStays DEF AcceptPeer, PeerEnds
<1>2. ASSUME NEW c \in Conn, Dispatch(c) PROVE StaysClosed /\ Quiet
  <2>1. PICK m : DispatchDuplicate(c, m) \/ DispatchRejected(c, m) \/ DispatchControl(c, m)
    BY <1>2 DEF Dispatch
  <2>2. Quiet
    BY <1>0, <1>2 DEF Dispatch
  <2>3. CASE DispatchDuplicate(c, m) \/ DispatchRejected(c, m)
    BY <2>2, <2>3, EnqueueStays DEF DispatchDuplicate, DispatchRejected
  <2>4. CASE DispatchControl(c, m)
    BY <2>2, <2>4, UnchangedStays DEF DispatchControl
  <2>5. QED
    BY <2>1, <2>3, <2>4
<1>3. ASSUME NEW c \in Conn, PrepareOutput(c) \/ SendPending(c) PROVE StaysClosed /\ Quiet
  BY <1>3, TakeOutputStays DEF PrepareOutput, SendPending
<1>4. ASSUME NEW c \in Conn, ExpirePeer(c) PROVE StaysClosed /\ Quiet
  BY <1>0, <1>4, BeginCloseStays DEF ExpirePeer, ioVars
<1>5. ASSUME NEW c \in Conn, ClosePeer(c) PROVE StaysClosed /\ Quiet
  <2>1. Quiet
    BY <1>5 DEF ClosePeer, TypeOK, IoType
  <2>2. QED
    BY <1>5, <2>1, BeginCloseStays DEF ClosePeer
<1>6. CASE IoExit \/ ConsoleSubmit \/ LeaseExpires
  BY <1>0, <1>6, UnchangedStays DEF IoExit, ConsoleSubmit, LeaseExpires, ioVars
<1>7. CASE WaitExpired \/ WaitPop \/ DropExpired \/ ExecuteRequest \/ ExecuteLogin
  BY <1>0, <1>7, UnchangedStays
  DEF WaitExpired, WaitPop, DropExpired, ExecuteRequest, ExecuteLogin, ioVars
<1>8. CASE \/ ExecuteClient \/ RouteDone \/ FinishMessage \/ StopAccepting \/ Discard
           \/ StopEndpoint \/ \E result \in {"written", "gave_up"} : BarrierEnds(result)
  BY <1>0, <1>8, UnchangedStays
  DEF ExecuteClient, RouteDone, FinishMessage, StopAccepting, Discard, StopEndpoint,
      BarrierEnds, ioVars
<1>9. CASE ExecuteClose
  BY <1>0, <1>9, BeginCloseStays DEF ExecuteClose, ioVars
<1>10. ASSUME NEW c \in Conn, RouteClient(c) \/ PublishState(c) PROVE StaysClosed /\ Quiet
  BY <1>0, <1>10, UnchangedStays, EnqueueStays DEF RouteClient, PublishState, ioVars
<1>11. ASSUME NEW c \in Conn, CloseRegistered(c) PROVE StaysClosed /\ Quiet
  BY <1>0, <1>11, UnchangedStays, BeginCloseStays DEF CloseRegistered, ioVars
<1>12. CASE Present
  BY <1>0, <1>12, UnchangedStays, EnqueueStays DEF Present, ioVars
<1>13. CASE JoinEndpoint
  BY <1>13 DEF JoinEndpoint, StaysClosed, ClosedEmpty
<1>14. CASE UNCHANGED vars
  BY <1>0, <1>14, UnchangedStays DEF vars, ioVars
<1>15. QED
  BY <1>1, <1>2, <1>3, <1>4, <1>5, <1>6, <1>7, <1>8, <1>9, <1>10, <1>11, <1>12, <1>13, <1>14
  DEF Next, IoNext, ServerNext, Terminated

LEMMA ClosedEmptyInvariant == Spec => []ClosedEmpty
<1>1. Init => ClosedEmpty
  BY DEF Init, ClosedEmpty
<1>2. TypeOK /\ ClosedEmpty /\ [Next]_vars => ClosedEmpty'
  BY StepStays DEF StaysClosed, ClosedEmpty
<1>3. QED
  BY <1>1, <1>2, TypeCorrect, PTL DEF Spec

\* begin_close is final whichever thread calls it: no later step of any thread
\* reopens the connection, queues output on it or takes a message from it.
THEOREM ClosingIsFinal == Spec => CloseIsFinal
<1>1. TypeOK /\ ClosedEmpty /\ [Next]_vars =>
        [\A c \in Conn : closing[c] => /\ closing'[c]
                                       /\ channel'[c] = <<>>
                                       /\ sending'[c] \in {None, sending[c]}]_vars
  BY StepStays DEF StaysClosed
<1>2. QED
  BY <1>1, TypeCorrect, ClosedEmptyInvariant, PTL DEF Spec, CloseIsFinal

-----------------------------------------------------------------------------
(***************************************************************************)
(* The connection gate                                                     *)
(***************************************************************************)

OpenPeers == {c \in Conn : peer[c] = "open"}

GateInv == IsFiniteSet(OpenPeers) /\ GateExact

\* accept_peers takes one slot for one new peer.
LEMMA GateAccept == ASSUME TypeOK, GateInv, NEW c \in Conn, AcceptPeer(c) PROVE GateInv'
<1>1. c \notin OpenPeers /\ OpenPeers' = OpenPeers \cup {c}
  BY DEF OpenPeers, AcceptPeer, TypeOK, IoType
<1>2. IsFiniteSet(OpenPeers') /\ Cardinality(OpenPeers') = Cardinality(OpenPeers) + 1
  BY <1>1, FS_AddElement DEF GateInv
<1>3. gate' = gate + 1 /\ gate < ConnectionLimit
  BY DEF AcceptPeer
<1>4. QED
  BY <1>2, <1>3, LimitAssumption DEF GateInv, GateExact, OpenPeers, TypeOK, IoType

\* close_peer gives back the slot of a peer that is still open, and only once.
LEMMA GateClose ==
  ASSUME TypeOK, CloseInv, GateInv, NEW c \in Conn, ClosePeer(c) PROVE GateInv'
<1>1. c \in OpenPeers /\ OpenPeers' = OpenPeers \ {c}
  BY NamesAssumption DEF OpenPeers, ClosePeer, CloseInv, TypeOK, IoType
<1>2. IsFiniteSet(OpenPeers') /\ Cardinality(OpenPeers') = Cardinality(OpenPeers) - 1
  BY <1>1, FS_RemoveElement DEF GateInv
<1>3. gate' = gate - 1
  BY DEF ClosePeer
<1>4. QED
  BY <1>2, <1>3, LimitAssumption DEF GateInv, GateExact, OpenPeers, TypeOK, IoType

\* stop() gives back the slots of all the peers the event loop left open.
LEMMA GateJoin == ASSUME TypeOK, GateInv, JoinEndpoint PROVE GateInv'
<1>1. OpenPeers' = {}
  BY DEF OpenPeers, JoinEndpoint, TypeOK, IoType
<1>2. gate' = 0
  BY DEF JoinEndpoint, GateInv, GateExact, TypeOK, IoType
<1>3. QED
  BY <1>1, <1>2, FS_EmptySet, LimitAssumption DEF GateInv, GateExact, OpenPeers

LEMMA GateFrame == ASSUME GateInv, UNCHANGED <<peer, gate>> PROVE GateInv'
  BY DEF GateInv, GateExact, OpenPeers

LEMMA GateStep == ASSUME TypeOK, CloseInv, GateInv, [Next]_vars PROVE GateInv'
<1>1. ASSUME NEW c \in Conn,
             \/ Dispatch(c) \/ PrepareOutput(c) \/ SendPending(c) \/ PeerEnds(c) \/ ExpirePeer(c)
      PROVE  GateInv'
  BY <1>1, GateFrame DEF Dispatch, PrepareOutput, SendPending, PeerEnds, ExpirePeer, ioVars
<1>2. CASE IoExit \/ ConsoleSubmit \/ LeaseExpires \/ UNCHANGED vars
  BY <1>2, GateFrame DEF IoExit, ConsoleSubmit, LeaseExpires, vars, ioVars
<1>3. CASE WaitExpired \/ WaitPop \/ DropExpired \/ ExecuteRequest \/ ExecuteLogin
  BY <1>3, GateFrame DEF WaitExpired, WaitPop, DropExpired, ExecuteRequest, ExecuteLogin, ioVars
<1>4. CASE \/ ExecuteClient \/ ExecuteClose \/ RouteDone \/ Present
           \/ \E result \in {"written", "gave_up"} : BarrierEnds(result)
  BY <1>4, GateFrame DEF ExecuteClient, ExecuteClose, RouteDone, Present, BarrierEnds, ioVars
<1>5. CASE FinishMessage \/ StopAccepting \/ Discard \/ StopEndpoint
  BY <1>5, GateFrame DEF FinishMessage, StopAccepting, Discard, StopEndpoint, ioVars
<1>6. CASE \E c \in Conn : RouteClient(c) \/ PublishState(c) \/ CloseRegistered(c)
  BY <1>6, GateFrame DEF RouteClient, PublishState, CloseRegistered, ioVars
<1>7. QED
  BY <1>1, <1>2, <1>3, <1>4, <1>5, <1>6, GateAccept, GateClose, GateJoin
  DEF Next, IoNext, ServerNext, Terminated

\* tcp_connection_gate: the slots in use are exactly the open peers and never
\* exceed the licensed limit, over accepts, closes and the shutdown.
THEOREM GateCountsPeers == Spec => []GateExact
<1>1. Init => GateInv
  <2> SUFFICES ASSUME Init PROVE GateInv
    OBVIOUS
  <2>1. OpenPeers = {} /\ gate = 0
    BY DEF Init, OpenPeers
  <2>2. GateExact <=> gate = Cardinality(OpenPeers) /\ gate <= ConnectionLimit
    BY DEF GateExact, OpenPeers
  <2>3. QED
    BY <2>1, <2>2, FS_EmptySet, LimitAssumption DEF GateInv
<1>2. TypeOK /\ CloseInv /\ GateInv /\ [Next]_vars => GateInv'
  BY GateStep
<1>3. GateInv => GateExact
  BY DEF GateInv
<1>4. QED
  BY <1>1, <1>2, <1>3, TypeCorrect, CloseInvariant, PTL DEF Spec

-----------------------------------------------------------------------------
(***************************************************************************)
(* The shutdown leaves nothing behind                                      *)
(***************************************************************************)

\* The queue is refused and emptied before the endpoint stops, the message of
\* the iteration is gone before shutdown() begins, and the event loop has ended
\* before its peers are cleared.
StopInv ==
  /\ pc \in {"discard", "close", "join", "stopped"} => ~accepting /\ queue = <<>>
  /\ pc # "discard" => discarded = <<>>
  /\ pc \in {"wait", "stopped"} \cup Stopping => current = NoMessage
  /\ pc = "stopped" => ioExited /\ \A c \in Conn : peer[c] # "open" /\ sending[c] = None

LEMMA StopInvFrame ==
  ASSUME StopInv, UNCHANGED <<pc, accepting, discarded, current>>,
         pc # "stopped" \/ UNCHANGED <<ioExited, peer, sending>>,
         ~accepting => UNCHANGED queue
  PROVE  StopInv'
  BY DEF StopInv

LEMMA StopInvIo == ASSUME TypeOK, CloseInv, StopInv, IoNext PROVE StopInv'
<1>1. pc = "stopped" => \A c \in Conn : due # c
  BY NamesAssumption DEF CloseInv, StopInv
<1>2. ASSUME NEW c \in Conn,
             AcceptPeer(c) \/ PrepareOutput(c) \/ SendPending(c) \/ PeerEnds(c) \/ ExpirePeer(c)
      PROVE  StopInv'
  <2>1. pc # "stopped"
    BY <1>2 DEF AcceptPeer, PrepareOutput, SendPending, PeerEnds, ExpirePeer, IoReady, StopInv
  <2>2. QED
    BY <1>2, <2>1, StopInvFrame
    DEF AcceptPeer, PrepareOutput, SendPending, PeerEnds, ExpirePeer, serverVars, queueVars
<1>3. ASSUME NEW c \in Conn, Dispatch(c) PROVE StopInv'
  <2>1. pc # "stopped"
    BY <1>3 DEF Dispatch, IoReady, StopInv
  <2>2. UNCHANGED accepting /\ (~accepting => UNCHANGED queue)
    BY <1>3 DEF Dispatch, DispatchDuplicate, DispatchRejected, DispatchControl, Push, queueVars
  <2>3. QED
    BY <1>3, <2>1, <2>2, StopInvFrame DEF Dispatch, serverVars
<1>4. ASSUME NEW c \in Conn, ClosePeer(c) PROVE StopInv'
  BY <1>1, <1>4, StopInvFrame DEF ClosePeer, Push, serverVars
<1>5. CASE IoExit
  <2>1. pc # "stopped"
    BY <1>5 DEF IoExit, IoReady, StopInv
  <2>2. QED
    BY <1>5, <2>1, StopInvFrame DEF IoExit, serverVars, queueVars
<1>6. QED
  BY <1>2, <1>3, <1>4, <1>5 DEF IoNext

LEMMA StopInvServer == ASSUME TypeOK, StopInv, ServerNext PROVE StopInv'
<1> USE DEF StopInv, Stopping
<1>1. CASE WaitExpired \/ WaitPop \/ DropExpired \/ ExecuteRequest \/ ExecuteLogin
  BY <1>1 DEF WaitExpired, WaitPop, DropExpired, ExecuteRequest, ExecuteLogin, Starts
<1>2. CASE \/ ExecuteClient \/ ExecuteClose \/ RouteDone \/ Present
           \/ \E result \in {"written", "gave_up"} : BarrierEnds(result)
  BY <1>2 DEF ExecuteClient, ExecuteClose, RouteDone, Present, BarrierEnds, Starts
<1>3. CASE FinishMessage
  BY <1>3 DEF FinishMessage
<1>4. CASE StopAccepting
  BY <1>4 DEF StopAccepting
<1>5. CASE Discard \/ StopEndpoint
  BY <1>5 DEF Discard, StopEndpoint, queueVars
<1>6. CASE \E c \in Conn : RouteClient(c) \/ PublishState(c)
  BY <1>6 DEF RouteClient, PublishState
<1>7. CASE \E c \in Conn : CloseRegistered(c)
  BY <1>7 DEF CloseRegistered, queueVars
<1>8. CASE JoinEndpoint
  BY <1>8 DEF JoinEndpoint, queueVars
<1>9. QED
  BY <1>1, <1>2, <1>3, <1>4, <1>5, <1>6, <1>7, <1>8 DEF ServerNext

LEMMA StopInvOthers ==
  ASSUME StopInv, ConsoleSubmit \/ LeaseExpires \/ UNCHANGED vars PROVE StopInv'
<1>1. CASE ConsoleSubmit
  BY <1>1, StopInvFrame DEF ConsoleSubmit, Push, serverVars, ioVars
<1>2. CASE LeaseExpires \/ UNCHANGED vars
  BY <1>2, StopInvFrame DEF LeaseExpires, vars, serverVars, queueVars, ioVars
<1>3. QED
  BY <1>1, <1>2

\* server::shutdown destroys every holder of a connection object before it
\* returns: queued, discarded and executed messages, peers and send buffers.
THEOREM ShutdownReleasesAll == Spec => []StoppedIsClean
<1>1. Init => StopInv
  BY DEF Init, StopInv, Stopping
<1>2. TypeOK /\ CloseInv /\ StopInv /\ [Next]_vars => StopInv'
  BY StopInvIo, StopInvServer, StopInvOthers DEF Next, Terminated
<1>3. StopInv => StoppedIsClean
  BY NamesAssumption
  DEF StopInv, StoppedIsClean, Alive, NoMessage, ControlMessage
<1>4. QED
  BY <1>1, <1>2, <1>3, TypeCorrect, CloseInvariant, PTL DEF Spec

-----------------------------------------------------------------------------
(***************************************************************************)
(* How many elements of a sequence satisfy a condition, P being the set of *)
(* values that do                                                          *)
(***************************************************************************)

Positions(s, P) == {i \in DOMAIN s : s[i] \in P}

LEMMA PositionsFinite ==
  ASSUME NEW S, NEW s \in Seq(S), NEW P
  PROVE  IsFiniteSet(Positions(s, P)) /\ Cardinality(Positions(s, P)) \in Nat
<1>1. Positions(s, P) \in SUBSET (1..Len(s)) /\ Len(s) \in Nat
  BY DEF Positions
<1>2. IsFiniteSet(1..Len(s))
  BY <1>1, FS_Interval
<1>3. QED
  BY <1>1, <1>2, FS_Subset, FS_CardinalityType

LEMMA CountAppend ==
  ASSUME NEW S, NEW s \in Seq(S), NEW m \in S, NEW P
  PROVE  Cardinality(Positions(Append(s, m), P)) =
           Cardinality(Positions(s, P)) + (IF m \in P THEN 1 ELSE 0)
<1>1. /\ DOMAIN Append(s, m) = 1..(Len(s) + 1) /\ DOMAIN s = 1..Len(s) /\ Len(s) \in Nat
      /\ Append(s, m)[Len(s) + 1] = m
      /\ \A i \in 1..Len(s) : Append(s, m)[i] = s[i]
  BY AppendProperties
<1>2. CASE m \in P
  <2>1. /\ Positions(Append(s, m), P) = Positions(s, P) \cup {Len(s) + 1}
        /\ Len(s) + 1 \notin Positions(s, P)
    BY <1>1, <1>2 DEF Positions
  <2>2. QED
    BY <1>2, <2>1, PositionsFinite, FS_AddElement
<1>3. CASE m \notin P
  <2>1. Positions(Append(s, m), P) = Positions(s, P)
    BY <1>1, <1>3 DEF Positions
  <2>2. QED
    BY <1>3, <2>1, PositionsFinite
<1>4. QED
  BY <1>2, <1>3

LEMMA CountTail ==
  ASSUME NEW S, NEW s \in Seq(S), s # <<>>, NEW P
  PROVE  Cardinality(Positions(s, P)) =
           Cardinality(Positions(Tail(s), P)) + (IF Head(s) \in P THEN 1 ELSE 0)
<1> DEFINE from == Positions(Tail(s), P)
           to == Positions(s, P) \ {1}
           shift == [i \in from |-> i + 1]
<1>1. /\ DOMAIN s = 1..Len(s) /\ Len(s) \in Nat \ {0} /\ Head(s) = s[1]
      /\ Tail(s) \in Seq(S) /\ DOMAIN Tail(s) = 1..(Len(s) - 1)
      /\ \A i \in 1..(Len(s) - 1) : Tail(s)[i] = s[i + 1]
  BY HeadTailProperties
<1>2. shift \in Bijection(from, to)
  <2>1. \A i \in from : i \in 1..(Len(s) - 1) /\ i + 1 \in to
    BY <1>1 DEF Positions
  <2>2. shift \in [from -> to]
    BY <2>1
  <2>3. \A a, b \in from : shift[a] = shift[b] => a = b
    BY <2>1
  <2>4. \A t \in to : \E i \in from : shift[i] = t
    <3> SUFFICES ASSUME NEW t \in to PROVE \E i \in from : shift[i] = t
      OBVIOUS
    <3>1. t \in 2..Len(s) /\ s[t] \in P
      BY <1>1 DEF Positions
    <3>2. t - 1 \in 1..(Len(s) - 1) /\ Tail(s)[t - 1] = s[t]
      BY <1>1, <3>1
    <3>3. t - 1 \in from
      BY <1>1, <3>1, <3>2 DEF Positions
    <3>4. QED
      BY <3>1, <3>3
  <2>5. QED
    BY <2>2, <2>3, <2>4 DEF Bijection, Injection, Surjection, IsInjective
<1>3. IsFiniteSet(from) /\ Cardinality(from) \in Nat
  BY <1>1, PositionsFinite
<1>4. IsFiniteSet(to) /\ Cardinality(to) = Cardinality(from)
  BY <1>2, <1>3, FS_Bijection DEF ExistsBijection
<1>5. CASE Head(s) \in P
  <2>1. Positions(s, P) = to \cup {1} /\ 1 \notin to
    BY <1>1, <1>5 DEF Positions
  <2>2. QED
    BY <1>3, <1>4, <1>5, <2>1, FS_AddElement
<1>6. CASE Head(s) \notin P
  <2>1. Positions(s, P) = to
    BY <1>1, <1>6 DEF Positions
  <2> HIDE DEF from, to
  <2>2. QED
    BY <1>3, <1>4, <1>6, <2>1 DEF from
<1>7. QED
  BY <1>5, <1>6

-----------------------------------------------------------------------------
(***************************************************************************)
(* Request ids                                                             *)
(***************************************************************************)

\* A connection that was never accepted is named nowhere and holds nothing.
FreshInv ==
  \A c \in Conn : peer[c] = "new" =>
    /\ outstanding[c] = {} /\ channel[c] = <<>>
    /\ c \notin registry /\ c \notin targets /\ current.conn # c
    /\ \A i \in DOMAIN queue : queue[i].conn # c

\* The response in preparation carries the id of the message in hand and will
\* release it; a console request has none.
ReplyInv ==
  pc \in {"route", "present"} =>
    IF current.conn = Console
    THEN reply = None
    ELSE reply \in Responses /\ reply.release /\ reply.id = current.id

\* What the alternatives of the control-message variant carry.
LEMMA MessageFields ==
  ASSUME NEW m \in ControlMessages \cup {NoMessage}
  PROVE  /\ m.conn \in Conn \cup {Console}
         /\ m.type = "close" => m.id = NoId /\ m.conn \in Conn
         /\ m.conn = Console => m.id = NoId
         /\ m.type \in {"login", "client"} => m.conn \in Conn /\ m.id \in RequestIds
         /\ m.type = "request" /\ m.conn # Console => m.id \in RequestIds
  BY NamesAssumption DEF ControlMessages, NoMessage, ControlMessage

LEMMA ReplyStep == ASSUME TypeOK, ReplyInv, [Next]_vars PROVE ReplyInv'
<1>0. \A id, of, st : Response(id, of, st).release /\ Response(id, of, st).id = id
  BY DEF Response
<1>1. CASE ExecuteRequest
  <2>1. current.type = "request" /\ UNCHANGED current
    BY <1>1 DEF ExecuteRequest, Starts
  <2>2. current.kind \in RequestKinds /\ (current.conn # Console => current.id \in RequestIds)
    BY <2>1, NamesAssumption DEF TypeOK, QueueType, ControlMessages, NoMessage, ControlMessage
  <2>3. CASE current.conn = Console
    BY <1>1, <2>1, <2>3 DEF ReplyInv, ExecuteRequest
  <2>4. CASE current.conn # Console
    <3>1. PICK out \in ExecuteMessage(Mode, current.kind, slot) :
            reply' = Response(current.id, current.kind,
                       IF current.kind = "get_state" THEN out.slot.state ELSE NoState)
      BY <1>1, <2>4 DEF ExecuteRequest
    <3>2. out.slot.state \in ProjectStates
      BY <2>2, ExecuteMessageType DEF TypeOK, ServerType, Slots
    <3>3. reply' \in Responses
      BY <2>2, <2>4, <3>1, <3>2, ResponseType DEF Sources
    <3>4. QED
      BY <1>0, <2>1, <2>4, <3>1, <3>3 DEF ReplyInv
  <2>5. QED
    BY <2>3, <2>4
<1>2. CASE ExecuteLogin
  <2>1. current.id \in RequestIds /\ current.conn \in Conn /\ UNCHANGED current
    BY <1>2, MessageFields DEF ExecuteLogin, Starts, TypeOK, QueueType
  <2>2. PICK st \in ProjectStates \cup {NoState} : reply' = Response(current.id, "login", st)
    BY <1>2 DEF ExecuteLogin, TypeOK, ServerType, Slots
  <2>3. QED
    BY <1>0, <2>1, <2>2, ResponseType, NamesAssumption DEF ReplyInv, Sources
<1>3. CASE ExecuteClient
  <2>1. current.id \in RequestIds /\ current.conn \in Conn /\ UNCHANGED current
    BY <1>3, MessageFields DEF ExecuteClient, Starts, TypeOK, QueueType
  <2>2. reply' = Response(current.id, "client", NoState)
    BY <1>3 DEF ExecuteClient
  <2>3. QED
    BY <1>0, <2>1, <2>2, ResponseType, NamesAssumption DEF ReplyInv, Sources
<1>4. CASE RouteDone \/ \E c \in Conn : RouteClient(c)
  BY <1>4 DEF RouteDone, RouteClient, ReplyInv
<1>5. CASE WaitExpired \/ WaitPop \/ DropExpired \/ ExecuteClose \/ Present \/ FinishMessage
  BY <1>5 DEF WaitExpired, WaitPop, DropExpired, ExecuteClose, Present, FinishMessage, ReplyInv
<1>6. CASE StopAccepting \/ Discard \/ StopEndpoint \/ JoinEndpoint
  BY <1>6 DEF StopAccepting, Discard, StopEndpoint, JoinEndpoint, ReplyInv
<1>7. CASE \/ \E c \in Conn : PublishState(c) \/ CloseRegistered(c)
           \/ \E result \in {"written", "gave_up"} : BarrierEnds(result)
  BY <1>7 DEF PublishState, CloseRegistered, BarrierEnds, ReplyInv
<1>8. CASE IoNext
  <2>1. UNCHANGED serverVars
    BY <1>8
    DEF IoNext, AcceptPeer, Dispatch, PrepareOutput, SendPending, PeerEnds, ExpirePeer, ClosePeer,
        IoExit
  <2>2. QED
    BY <2>1 DEF serverVars, ReplyInv
<1>9. CASE ConsoleSubmit \/ LeaseExpires \/ UNCHANGED vars
  BY <1>9 DEF ConsoleSubmit, LeaseExpires, vars, serverVars, ReplyInv
<1>10. QED
  BY <1>1, <1>2, <1>3, <1>4, <1>5, <1>6, <1>7, <1>8, <1>9 DEF Next, ServerNext, Terminated

\* Only the channel of the connection concerned changes.
LEMMA EnqueueOthers ==
  ASSUME TypeOK, NEW c \in Conn, NEW m, Enqueue(c, m) \/ BeginClose(c)
  PROVE  \A x \in Conn : x # c => channel'[x] = channel[x] /\ closing'[x] = closing[x]
<1>1. CASE Enqueue(c, m)
  BY <1>1 DEF Enqueue, BeginClose, TypeOK, ConnectionType
<1>2. CASE BeginClose(c)
  BY <1>2 DEF BeginClose, TypeOK, ConnectionType
<1>3. QED
  BY <1>1, <1>2

\* A push adds the pushed message, if anything.
LEMMA PushNames ==
  ASSUME TypeOK, NEW m \in ControlMessages, Push(m), NEW c, m.conn # c,
         \A i \in DOMAIN queue : queue[i].conn # c
  PROVE  \A i \in DOMAIN queue' : queue'[i].conn # c
<1>1. CASE accepting
  BY <1>1, PushPositions DEF TypeOK, QueueType
<1>2. CASE ~accepting
  BY <1>2 DEF Push
<1>3. QED
  BY <1>1, <1>2

LEMMA FreshIo == ASSUME TypeOK, CloseInv, FreshInv, IoNext PROVE FreshInv'
<1> USE DEF FreshInv
<1>1. ASSUME NEW c \in Conn, AcceptPeer(c) PROVE FreshInv'
  BY <1>1 DEF AcceptPeer, serverVars, queueVars, TypeOK, IoType
<1>2. ASSUME NEW c \in Conn, Dispatch(c) PROVE FreshInv'
  <2>1. PICK m \in Frames(c) :
          DispatchDuplicate(c, m) \/ DispatchRejected(c, m) \/ DispatchControl(c, m)
    BY <1>2 DEF Dispatch
  <2>2. peer[c] = "open" /\ UNCHANGED <<peer, registry, targets, current>>
    BY <1>2 DEF Dispatch, serverVars
  <2>3. m \in ControlMessages /\ m.conn = c
    BY FramesType
  <2>4. \A x \in Conn : x # c => channel'[x] = channel[x] /\ outstanding'[x] = outstanding[x]
    BY <2>1, EnqueueOthers
    DEF DispatchDuplicate, DispatchRejected, DispatchControl, TypeOK, ConnectionType
  <2>5. \A x \in Conn : peer[x] = "new" => \A i \in DOMAIN queue' : queue'[i].conn # x
    BY <2>1, <2>2, <2>3, PushNames
    DEF DispatchDuplicate, DispatchRejected, DispatchControl, queueVars
  <2>6. QED
    BY <2>2, <2>4, <2>5
<1>3. ASSUME NEW c \in Conn, PrepareOutput(c) \/ SendPending(c) PROVE FreshInv'
  <2>1. /\ peer[c] = "open" /\ TakeOutput(c)
        /\ UNCHANGED <<peer, registry, targets, current, queue>>
    BY <1>3 DEF PrepareOutput, SendPending, serverVars, queueVars
  <2>2. \A x \in Conn : x # c => channel'[x] = channel[x] /\ outstanding'[x] = outstanding[x]
    <3>1. \A x \in Conn : x # c => outstanding'[x] = outstanding[x]
      BY <2>1 DEF TakeOutput, Released, TypeOK, ConnectionType
    <3>2. \A x \in Conn : x # c => channel'[x] = channel[x]
      BY <2>1 DEF TakeOutput, BeginClose, TypeOK, ConnectionType
    <3>3. QED
      BY <3>1, <3>2
  <2>3. QED
    BY <2>1, <2>2
<1>4. ASSUME NEW c \in Conn, PeerEnds(c) \/ ExpirePeer(c) PROVE FreshInv'
  <2>1. UNCHANGED <<peer, registry, targets, current, queue, outstanding>>
    BY <1>4 DEF PeerEnds, ExpirePeer, serverVars, queueVars, ioVars
  <2>2. \A x \in Conn : channel'[x] \in {channel[x], <<>>}
    BY <1>4 DEF PeerEnds, ExpirePeer, BeginClose, TypeOK, ConnectionType
  <2>3. QED
    BY <2>1, <2>2
<1>5. ASSUME NEW c \in Conn, ClosePeer(c) PROVE FreshInv'
  <2> DEFINE m == ControlMessage("close", c, NoId, None, {})
  <2>1. peer[c] = "open" /\ peer' = [peer EXCEPT ![c] = "gone"] /\ Push(m)
    BY <1>5, NamesAssumption DEF ClosePeer, CloseInv
  <2>2. m \in ControlMessages /\ m.conn = c
    BY DEF ControlMessage, ControlMessages
  <2>3. UNCHANGED <<registry, targets, current, outstanding>>
    BY <1>5 DEF ClosePeer, serverVars
  <2>4. \A x \in Conn : channel'[x] \in {channel[x], <<>>}
    BY <1>5 DEF ClosePeer, BeginClose, TypeOK, ConnectionType
  <2> HIDE DEF m
  <2>5. \A x \in Conn : peer'[x] = "new" => peer[x] = "new" /\ x # c
    BY <2>1 DEF TypeOK, IoType
  <2>6. \A x \in Conn : peer'[x] = "new" => \A i \in DOMAIN queue' : queue'[i].conn # x
    BY <2>1, <2>2, <2>5, PushNames
  <2>7. QED
    BY <2>3, <2>4, <2>5, <2>6
<1>6. CASE IoExit
  BY <1>6 DEF IoExit, serverVars, queueVars
<1>7. QED
  BY <1>1, <1>2, <1>3, <1>4, <1>5, <1>6 DEF IoNext

LEMMA FreshServer == ASSUME TypeOK, FreshInv, ReplyInv, ServerNext PROVE FreshInv'
<1> USE DEF FreshInv
<1>0. NoMessage.conn \notin Conn
  BY NamesAssumption DEF NoMessage, ControlMessage
<1>1. CASE WaitExpired \/ DropExpired \/ ExecuteRequest \/ FinishMessage
  BY <1>0, <1>1 DEF WaitExpired, DropExpired, ExecuteRequest, FinishMessage, queueVars, ioVars
<1>2. CASE WaitPop
  <2>1. /\ current' = queue[1] /\ 1 \in DOMAIN queue
        /\ \A i \in DOMAIN queue' : i + 1 \in DOMAIN queue /\ queue'[i] = queue[i + 1]
    BY <1>2, PopPositions DEF WaitPop, TypeOK, QueueType
  <2>2. UNCHANGED <<peer, outstanding, channel, registry, targets>>
    BY <1>2 DEF WaitPop, ioVars
  <2>3. QED
    BY <2>1, <2>2
<1>3. CASE ExecuteLogin
  BY <1>3 DEF ExecuteLogin, queueVars, ioVars
<1>4. CASE ExecuteClient \/ RouteDone
  BY <1>4 DEF ExecuteClient, RouteDone, queueVars, ioVars
<1>5. CASE ExecuteClose
  <2>1. \A x \in Conn : channel'[x] \in {channel[x], <<>>}
    BY <1>5 DEF ExecuteClose, BeginClose, TypeOK, ConnectionType
  <2>2. QED
    BY <1>0, <1>5, <2>1 DEF ExecuteClose, queueVars, ioVars
<1>6. ASSUME NEW c \in Conn, RouteClient(c) \/ PublishState(c) PROVE FreshInv'
  <2>1. /\ c \in targets /\ targets' = targets \ {c}
        /\ UNCHANGED <<peer, outstanding, registry, current, queue>>
    BY <1>6 DEF RouteClient, PublishState, queueVars, ioVars
  <2>2. \A x \in Conn : x # c => channel'[x] = channel[x]
    BY <1>6, EnqueueOthers DEF RouteClient, PublishState
  <2>3. QED
    BY <2>1, <2>2
<1>7. ASSUME NEW c \in Conn, CloseRegistered(c) PROVE FreshInv'
  <2>1. \A x \in Conn : channel'[x] \in {channel[x], <<>>}
    BY <1>7 DEF CloseRegistered, BeginClose, TypeOK, ConnectionType
  <2>2. QED
    BY <1>7, <2>1 DEF CloseRegistered, queueVars, ioVars
<1>8. CASE Present
  <2>1. \A x \in Conn : x # current.conn => channel'[x] = channel[x]
    <3>1. CASE reply = None
      BY <1>8, <3>1 DEF Present
    <3>2. CASE reply # None
      <4>1. current.conn \in Conn
        BY <1>8, <3>2, MessageFields DEF ReplyInv, Present, TypeOK, QueueType
      <4>2. QED
        BY <1>8, <3>2, <4>1, EnqueueOthers DEF Present
    <3>3. QED
      BY <3>1, <3>2
  <2>2. QED
    BY <1>8, <2>1 DEF Present, queueVars, ioVars
<1>9. CASE \E result \in {"written", "gave_up"} : BarrierEnds(result)
  BY <1>9 DEF BarrierEnds, queueVars, ioVars
<1>10. CASE StopAccepting \/ Discard \/ StopEndpoint
  BY <1>10 DEF StopAccepting, Discard, StopEndpoint, queueVars, ioVars
<1>11. CASE JoinEndpoint
  BY <1>11 DEF JoinEndpoint, queueVars
<1>12. QED
  BY <1>1, <1>2, <1>3, <1>4, <1>5, <1>6, <1>7, <1>8, <1>9, <1>10, <1>11 DEF ServerNext

LEMMA FreshOthers ==
  ASSUME TypeOK, FreshInv, ConsoleSubmit \/ LeaseExpires \/ UNCHANGED vars PROVE FreshInv'
<1>1. CASE ConsoleSubmit
  <2>1. PICK kind \in Kinds : Push(ControlMessage("request", Console, NoId, kind, {}))
    BY <1>1 DEF ConsoleSubmit
  <2> DEFINE m == ControlMessage("request", Console, NoId, kind, {})
  <2>2. m \in ControlMessages /\ m.conn \notin Conn
    BY KindsAssumption, NamesAssumption DEF ControlMessage, ControlMessages
  <2>3. UNCHANGED <<peer, outstanding, channel, registry, targets, current>>
    BY <1>1 DEF ConsoleSubmit, serverVars, ioVars
  <2> HIDE DEF m
  <2>4. \A x \in Conn : peer[x] = "new" => \A i \in DOMAIN queue' : queue'[i].conn # x
    BY <2>1, <2>2, PushNames DEF FreshInv, m
  <2>5. QED
    BY <2>3, <2>4 DEF FreshInv
<1>2. CASE LeaseExpires \/ UNCHANGED vars
  BY <1>2 DEF LeaseExpires, vars, serverVars, queueVars, ioVars, FreshInv
<1>3. QED
  BY <1>1, <1>2

LEMMA FreshInvariant == Spec => [](FreshInv /\ ReplyInv)
<1>1. Init => FreshInv /\ ReplyInv
  BY NamesAssumption DEF Init, FreshInv, ReplyInv, NoMessage, ControlMessage
<1>2. TypeOK /\ CloseInv /\ FreshInv /\ ReplyInv /\ [Next]_vars => (FreshInv /\ ReplyInv)'
  BY ReplyStep, FreshIo, FreshServer, FreshOthers DEF Next, Terminated
<1>3. QED
  BY <1>1, <1>2, TypeCorrect, CloseInvariant, PTL DEF Spec

\* The three places of a carrier of id on connection c.
QueueCount(c, id) ==
  Cardinality({i \in DOMAIN queue : queue[i].conn = c /\ queue[i].id = id})

InHand(c, id) ==
  IF pc \in {"recheck", "route", "present"} /\ current.conn = c /\ current.id = id THEN 1 ELSE 0

Releases(m, id) == m.type = "response" /\ m.release /\ m.id = id

ChannelCount(c, id) == Cardinality({i \in DOMAIN channel[c] : Releases(channel[c][i], id)})

LEMMA CarriersSum ==
  ASSUME NEW c, NEW id
  PROVE  Carriers(c, id) = QueueCount(c, id) + InHand(c, id) + ChannelCount(c, id)
  BY DEF Carriers, QueueCount, InHand, ChannelCount, Releases

LEMMA CountsAreNat ==
  ASSUME TypeOK, NEW c \in Conn, NEW id
  PROVE  QueueCount(c, id) \in Nat /\ ChannelCount(c, id) \in Nat /\ InHand(c, id) \in 0..1
<1> DEFINE P == {m \in ControlMessages : m.conn = c /\ m.id = id}
           R == {m \in OutboundMessages : Releases(m, id)}
<1>1. queue \in Seq(ControlMessages) /\ channel[c] \in Seq(OutboundMessages)
  BY DEF TypeOK, QueueType, ConnectionType
<1>2. QueueCount(c, id) = Cardinality(Positions(queue, P))
  <2>1. {i \in DOMAIN queue : queue[i].conn = c /\ queue[i].id = id} = Positions(queue, P)
    BY <1>1 DEF Positions
  <2>2. QED
    BY <2>1 DEF QueueCount
<1>3. ChannelCount(c, id) = Cardinality(Positions(channel[c], R))
  <2>1. {i \in DOMAIN channel[c] : Releases(channel[c][i], id)} = Positions(channel[c], R)
    BY <1>1 DEF Positions
  <2>2. QED
    BY <2>1 DEF ChannelCount
<1>4. InHand(c, id) \in 0..1
  BY DEF InHand
<1> HIDE DEF P, R
<1>5. QED
  BY <1>1, <1>2, <1>3, <1>4, PositionsFinite

\* request_queue::push adds one carrier of the id the message names.
LEMMA QueueCountPush ==
  ASSUME TypeOK, NEW m \in ControlMessages, Push(m), accepting, NEW c, NEW id
  PROVE  QueueCount(c, id)' =
           QueueCount(c, id) + (IF m.conn = c /\ m.id = id THEN 1 ELSE 0)
<1> DEFINE P == {x \in ControlMessages : x.conn = c /\ x.id = id}
<1>1. queue \in Seq(ControlMessages) /\ queue' = Append(queue, m)
  BY DEF TypeOK, QueueType, Push
<1>2. queue' \in Seq(ControlMessages)
  BY <1>1
<1>3. QueueCount(c, id) = Cardinality(Positions(queue, P))
  <2>1. {i \in DOMAIN queue : queue[i].conn = c /\ queue[i].id = id} = Positions(queue, P)
    BY <1>1 DEF Positions
  <2>2. QED
    BY <2>1 DEF QueueCount
<1>4. QueueCount(c, id)' = Cardinality(Positions(queue', P))
  <2>1. {i \in DOMAIN queue' : queue'[i].conn = c /\ queue'[i].id = id} = Positions(queue', P)
    BY <1>2 DEF Positions
  <2>2. QED
    BY <2>1 DEF QueueCount
<1>5. m \in P <=> m.conn = c /\ m.id = id
  OBVIOUS
<1> HIDE DEF P
<1>6. QED
  BY <1>1, <1>3, <1>4, <1>5, CountAppend

\* wait_pop_until removes the carrier it takes.
LEMMA QueueCountPop ==
  ASSUME TypeOK, queue # <<>>, queue' = Tail(queue), NEW c, NEW id
  PROVE  QueueCount(c, id) = QueueCount(c, id)' +
           (IF Head(queue).conn = c /\ Head(queue).id = id THEN 1 ELSE 0)
<1> DEFINE P == {x \in ControlMessages : x.conn = c /\ x.id = id}
<1>1. /\ queue \in Seq(ControlMessages) /\ queue' \in Seq(ControlMessages)
      /\ Head(queue) \in ControlMessages
  BY DEF TypeOK, QueueType
<1>3. QueueCount(c, id) = Cardinality(Positions(queue, P))
  <2>1. {i \in DOMAIN queue : queue[i].conn = c /\ queue[i].id = id} = Positions(queue, P)
    BY <1>1 DEF Positions
  <2>2. QED
    BY <2>1 DEF QueueCount
<1>4. QueueCount(c, id)' = Cardinality(Positions(queue', P))
  <2>1. {i \in DOMAIN queue' : queue'[i].conn = c /\ queue'[i].id = id} = Positions(queue', P)
    BY <1>1 DEF Positions
  <2>2. QED
    BY <2>1 DEF QueueCount
<1>5. Head(queue) \in P <=> Head(queue).conn = c /\ Head(queue).id = id
  BY <1>1
<1> HIDE DEF P
<1>6. QED
  BY <1>1, <1>3, <1>4, <1>5, CountTail

\* The channel of a connection that is still open after enqueue_*() has gained
\* the message; the other channels are as they were.
LEMMA ChannelCountEnqueue ==
  ASSUME TypeOK, NEW c \in Conn, NEW m \in OutboundMessages, Enqueue(c, m),
         NEW x \in Conn, ~closing'[x], NEW id
  PROVE  /\ ~closing[x]
         /\ ChannelCount(x, id)' =
              ChannelCount(x, id) + (IF x = c /\ Releases(m, id) THEN 1 ELSE 0)
<1> DEFINE R == {y \in OutboundMessages : Releases(y, id)}
<1>1. CASE x # c
  <2>1. channel'[x] = channel[x] /\ closing'[x] = closing[x]
    BY <1>1, EnqueueOthers
  <2>2. ChannelCount(x, id)' = ChannelCount(x, id)
    BY <2>1 DEF ChannelCount
  <2>3. QED
    BY <1>1, <2>1, <2>2, CountsAreNat
<1>2. CASE x = c
  <2>1. HasRoom(c) /\ ~closing[c] /\ channel[c] \in Seq(OutboundMessages)
        /\ channel'[c] = Append(channel[c], m)
    BY <1>2 DEF Enqueue, HasRoom, BeginClose, TypeOK, ConnectionType
  <2>2. {i \in DOMAIN channel[c] : Releases(channel[c][i], id)} = Positions(channel[c], R)
    BY <2>1 DEF Positions
  <2>3. {i \in DOMAIN channel'[c] : Releases(channel'[c][i], id)} = Positions(channel'[c], R)
    <3>1. channel'[c] \in Seq(OutboundMessages)
      BY <2>1
    <3>2. QED
      BY <3>1 DEF Positions
  <2>4. m \in R <=> Releases(m, id)
    OBVIOUS
  <2> HIDE DEF R
  <2>5. Cardinality(Positions(channel'[c], R)) =
          Cardinality(Positions(channel[c], R)) + (IF m \in R THEN 1 ELSE 0)
    BY <2>1, CountAppend
  <2>6. QED
    BY <1>2, <2>1, <2>2, <2>3, <2>4, <2>5 DEF ChannelCount
<1>3. QED
  BY <1>1, <1>2

\* The writer removes the message at the head of a channel.
LEMMA ChannelCountTail ==
  ASSUME TypeOK, NEW c \in Conn, channel[c] # <<>>, channel'[c] = Tail(channel[c]), NEW id
  PROVE  ChannelCount(c, id) =
           ChannelCount(c, id)' + (IF Releases(Head(channel[c]), id) THEN 1 ELSE 0)
<1> DEFINE R == {y \in OutboundMessages : Releases(y, id)}
<1>1. /\ channel[c] \in Seq(OutboundMessages) /\ channel'[c] \in Seq(OutboundMessages)
      /\ Head(channel[c]) \in OutboundMessages
  BY DEF TypeOK, ConnectionType
<1>2. {i \in DOMAIN channel[c] : Releases(channel[c][i], id)} = Positions(channel[c], R)
  BY <1>1 DEF Positions
<1>3. {i \in DOMAIN channel'[c] : Releases(channel'[c][i], id)} = Positions(channel'[c], R)
  BY <1>1 DEF Positions
<1>4. Head(channel[c]) \in R <=> Releases(Head(channel[c]), id)
  BY <1>1
<1> HIDE DEF R
<1>5. Cardinality(Positions(channel[c], R)) =
        Cardinality(Positions(Tail(channel[c]), R)) + (IF Head(channel[c]) \in R THEN 1 ELSE 0)
  BY <1>1, CountTail
<1>6. QED
  BY <1>2, <1>3, <1>4, <1>5 DEF ChannelCount

\* OutstandingExact in terms of the three counts.
Exact(c) ==
  \A id \in RequestIds :
    QueueCount(c, id) + InHand(c, id) + ChannelCount(c, id) = IF id \in outstanding[c] THEN 1 ELSE 0

Live(c) == pc \in Serving /\ peer[c] = "open" /\ ~closing[c]

ExactInv == \A c \in Conn : Live(c) => Exact(c)

LEMMA ExactMeans == ExactInv => OutstandingExact
<1> SUFFICES ASSUME ExactInv, pc \in Serving, NEW c \in Conn, peer[c] = "open", ~closing[c],
                    NEW id \in RequestIds
             PROVE  Carriers(c, id) = IF id \in outstanding[c] THEN 1 ELSE 0
  BY DEF OutstandingExact
<1>1. Exact(c)
  BY DEF ExactInv, Live
<1>2. QED
  BY <1>1, CarriersSum DEF Exact

\* A step that moves no carrier of c.
LEMMA ExactFrame ==
  ASSUME NEW c \in Conn, Exact(c), outstanding'[c] = outstanding[c], channel'[c] = channel[c],
         UNCHANGED queue, \A id \in RequestIds : InHand(c, id)' = InHand(c, id)
  PROVE  Exact(c)'
<1>1. \A id : QueueCount(c, id)' = QueueCount(c, id) /\ ChannelCount(c, id)' = ChannelCount(c, id)
  BY DEF QueueCount, ChannelCount
<1>2. QED
  BY <1>1 DEF Exact

\* accept_peers: the connection is fresh, so nothing carries an id of it.
LEMMA ExactAccept ==
  ASSUME TypeOK, FreshInv, ExactInv, NEW c \in Conn, AcceptPeer(c) PROVE ExactInv'
<1> SUFFICES ASSUME NEW x \in Conn, Live(x)' PROVE Exact(x)'
  BY DEF ExactInv
<1>1. UNCHANGED <<pc, current, queue, closing, channel, outstanding>>
  BY DEF AcceptPeer, serverVars, queueVars
<1>2. \A id : InHand(x, id)' = InHand(x, id)
  BY <1>1 DEF InHand
<1>3. CASE x # c
  <2>1. Live(x)
    BY <1>1, <1>3 DEF Live, AcceptPeer, TypeOK, IoType
  <2>2. QED
    BY <1>1, <1>2, <2>1, ExactFrame DEF ExactInv
<1>4. CASE x = c
  <2>1. /\ outstanding[c] = {} /\ channel[c] = <<>> /\ current.conn # c
        /\ \A i \in DOMAIN queue : queue[i].conn # c
    BY DEF AcceptPeer, FreshInv
  <2>2. \A id : InHand(c, id) = 0
    BY <2>1 DEF InHand
  <2>3. \A id : QueueCount(c, id) = 0
    <3> SUFFICES ASSUME NEW id PROVE QueueCount(c, id) = 0
      OBVIOUS
    <3>1. {i \in DOMAIN queue : queue[i].conn = c /\ queue[i].id = id} = {}
      BY <2>1
    <3>2. QED
      BY <3>1, FS_EmptySet DEF QueueCount
  <2>4. \A id : ChannelCount(c, id) = 0
    <3> SUFFICES ASSUME NEW id PROVE ChannelCount(c, id) = 0
      OBVIOUS
    <3>1. {i \in DOMAIN channel[c] : Releases(channel[c][i], id)} = {}
      BY <2>1
    <3>2. QED
      BY <3>1, FS_EmptySet DEF ChannelCount
  <2>5. Exact(c)
    BY <2>1, <2>2, <2>3, <2>4 DEF Exact
  <2>6. QED
    BY <1>1, <1>2, <1>4, <2>5, ExactFrame
<1>5. QED
  BY <1>3, <1>4

\* One frame: reserve_request and the push, or the response of the transport.
LEMMA ExactDispatch ==
  ASSUME TypeOK, RegistryInv, ExactInv, NEW c \in Conn, Dispatch(c) PROVE ExactInv'
<1> SUFFICES ASSUME NEW x \in Conn, Live(x)' PROVE Exact(x)'
  BY DEF ExactInv
<1>1. PICK m \in Frames(c) :
        DispatchDuplicate(c, m) \/ DispatchRejected(c, m) \/ DispatchControl(c, m)
  BY DEF Dispatch
<1>2. m \in ControlMessages /\ m.id \in RequestIds /\ m.conn = c
  BY FramesType
<1>3. UNCHANGED <<pc, current, peer>> /\ pc \in Serving /\ accepting
  BY DEF Dispatch, serverVars, Live, RegistryInv
<1>4. \A id : InHand(x, id)' = InHand(x, id)
  BY <1>3 DEF InHand
<1>5. outstanding \in [Conn -> SUBSET RequestIds]
  BY DEF TypeOK, ConnectionType
<1>6. CASE DispatchDuplicate(c, m)
  <2> DEFINE d == DuplicateResponse(m.id)
  <2>1. d \in OutboundMessages /\ \A id : ~Releases(d, id)
    BY <1>2, DuplicateType DEF OutboundMessages, DuplicateResponse, Releases
  <2>2. Enqueue(c, d) /\ UNCHANGED <<outstanding, queue>>
    BY <1>6 DEF DispatchDuplicate, queueVars
  <2> HIDE DEF d
  <2>3. ~closing[x] /\ \A id : ChannelCount(x, id)' = ChannelCount(x, id)
    BY <2>1, <2>2, ChannelCountEnqueue, CountsAreNat DEF Live
  <2>4. Exact(x)
    BY <1>3, <2>3 DEF ExactInv, Live
  <2>5. \A id : QueueCount(x, id)' = QueueCount(x, id)
    BY <2>2 DEF QueueCount
  <2>6. QED
    BY <1>4, <2>2, <2>3, <2>4, <2>5 DEF Exact
<1>7. CASE DispatchRejected(c, m)
  <2> DEFINE d == Response(m.id, "rejected", NoState)
  <2>1. d \in OutboundMessages /\ \A id : Releases(d, id) <=> id = m.id
    BY <1>2, ResponseType DEF OutboundMessages, Response, Releases, Sources
  <2>2. /\ Enqueue(c, d) /\ UNCHANGED queue /\ m.id \notin outstanding[c]
        /\ outstanding' = [outstanding EXCEPT ![c] = @ \cup {m.id}]
    BY <1>7 DEF DispatchRejected, queueVars
  <2> HIDE DEF d
  <2>3. ~closing[x]
    BY <2>1, <2>2, ChannelCountEnqueue DEF Live
  <2>4. \A id : ChannelCount(x, id)' =
                  ChannelCount(x, id) + (IF x = c /\ id = m.id THEN 1 ELSE 0)
    BY <2>1, <2>2, ChannelCountEnqueue DEF Live
  <2>5. Exact(x)
    BY <1>3, <2>3 DEF ExactInv, Live
  <2>6. \A id : QueueCount(x, id)' = QueueCount(x, id)
    BY <2>2 DEF QueueCount
  <2>7. \A id \in RequestIds : id \in outstanding'[x] <=> id \in outstanding[x] \/ (x = c /\ id = m.id)
    BY <1>5, <2>2
  <2>8. QED
    BY <1>4, <2>2, <2>4, <2>5, <2>6, <2>7, CountsAreNat DEF Exact
<1>8. CASE DispatchControl(c, m)
  <2>1. /\ Push(m) /\ UNCHANGED <<closing, channel>> /\ m.id \notin outstanding[c]
        /\ outstanding' = [outstanding EXCEPT ![c] = @ \cup {m.id}]
    BY <1>3, <1>8 DEF DispatchControl
  <2>2. \A id : QueueCount(x, id)' =
                  QueueCount(x, id) + (IF x = c /\ id = m.id THEN 1 ELSE 0)
    BY <1>2, <1>3, <2>1, QueueCountPush
  <2>3. \A id : ChannelCount(x, id)' = ChannelCount(x, id)
    BY <2>1 DEF ChannelCount
  <2>4. Exact(x)
    BY <1>3, <2>1 DEF ExactInv, Live
  <2>5. \A id \in RequestIds : id \in outstanding'[x] <=> id \in outstanding[x] \/ (x = c /\ id = m.id)
    BY <1>5, <2>1
  <2>6. QED
    BY <1>4, <2>1, <2>2, <2>3, <2>4, <2>5, CountsAreNat DEF Exact
<1>9. QED
  BY <1>1, <1>6, <1>7, <1>8

\* try_next releases the id of the response it takes from the channel.
LEMMA ExactTake ==
  ASSUME TypeOK, ExactInv, NEW c \in Conn, TakeOutput(c),
         UNCHANGED <<pc, current, peer, queue>>
  PROVE  ExactInv'
<1> SUFFICES ASSUME NEW x \in Conn, Live(x)' PROVE Exact(x)'
  BY DEF ExactInv
<1>1. \A id : InHand(x, id)' = InHand(x, id)
  BY DEF InHand
<1>2. \A id : QueueCount(x, id)' = QueueCount(x, id)
  BY DEF QueueCount
<1>3. CASE UNCHANGED <<closing, channel, outstanding>>
  BY <1>1, <1>3, ExactFrame DEF ExactInv, Live
<1>4. CASE ~UNCHANGED <<closing, channel, outstanding>>
  <2>1. channel[c] # <<>> /\ outstanding' = Released(c, Head(channel[c]))
    BY <1>4 DEF TakeOutput
  <2>2. CASE BeginClose(c)
    <3>1. x # c /\ closing[x] = closing'[x] /\ channel'[x] = channel[x]
      BY <2>2 DEF BeginClose, Live, TypeOK, ConnectionType
    <3>2. outstanding'[x] = outstanding[x]
      BY <2>1, <3>1 DEF Released, TypeOK, ConnectionType
    <3>3. Exact(x)
      BY <3>1 DEF ExactInv, Live
    <3>4. QED
      BY <1>1, <3>1, <3>2, <3>3, ExactFrame
  <2>3. CASE channel' = [channel EXCEPT ![c] = Tail(@)] /\ UNCHANGED closing
    <3>1. Exact(x)
      BY <2>3 DEF ExactInv, Live
    <3>2. CASE x # c
      <4>1. channel'[x] = channel[x] /\ outstanding'[x] = outstanding[x]
        BY <2>1, <2>3, <3>2 DEF Released, TypeOK, ConnectionType
      <4>2. QED
        BY <1>1, <3>1, <4>1, ExactFrame
    <3>3. CASE x = c
      <4> DEFINE h == Head(channel[c])
      <4>1. channel'[c] = Tail(channel[c])
        BY <2>3 DEF TypeOK, ConnectionType
      <4>2. \A id : ChannelCount(c, id) = ChannelCount(c, id)' + (IF Releases(h, id) THEN 1 ELSE 0)
        BY <2>1, <4>1, ChannelCountTail
      <4>3. \A id \in RequestIds :
              id \in outstanding'[c] <=> id \in outstanding[c] /\ ~Releases(h, id)
        BY <2>1 DEF Released, Releases, TypeOK, ConnectionType
      <4>4. \A id : ChannelCount(c, id)' \in Nat
        <5>1. channel'[c] \in Seq(OutboundMessages)
          BY <2>1, <4>1 DEF TypeOK, ConnectionType
        <5>2. \A id : {i \in DOMAIN channel'[c] : Releases(channel'[c][i], id)}
                         \in SUBSET (1..Len(channel'[c]))
          BY <5>1
        <5>3. IsFiniteSet(1..Len(channel'[c]))
          BY <5>1, FS_Interval
        <5>4. QED
          BY <5>2, <5>3, FS_Subset, FS_CardinalityType DEF ChannelCount
      <4> HIDE DEF h
      <4>5. QED
        BY <1>1, <1>2, <3>1, <3>3, <4>2, <4>3, <4>4, CountsAreNat DEF Exact
    <3>4. QED
      BY <3>2, <3>3
  <2>4. QED
    BY <1>4, <2>2, <2>3 DEF TakeOutput
<1>5. QED
  BY <1>3, <1>4

\* A close carries no request id: the connection that closes drops out, and
\* the others keep their carriers.
LEMMA ExactClosing ==
  ASSUME TypeOK, ExactInv, NEW c \in Conn, BeginClose(c), UNCHANGED <<pc, current, outstanding>>,
         \A x \in Conn : x # c => peer'[x] = peer[x],
         \A x \in Conn : \A id \in RequestIds : QueueCount(x, id)' = QueueCount(x, id)
  PROVE  ExactInv'
<1> SUFFICES ASSUME NEW x \in Conn, Live(x)' PROVE Exact(x)'
  BY DEF ExactInv
<1>1. x # c /\ closing'[x] = closing[x] /\ channel'[x] = channel[x]
  BY DEF BeginClose, Live, TypeOK, ConnectionType
<1>2. Exact(x)
  BY <1>1 DEF ExactInv, Live
<1>3. \A id : InHand(x, id)' = InHand(x, id) /\ ChannelCount(x, id)' = ChannelCount(x, id)
  BY <1>1 DEF InHand, ChannelCount
<1>4. QED
  BY <1>2, <1>3 DEF Exact

\* A step that moves no carrier of any connection.
LEMMA ExactStays ==
  ASSUME ExactInv, UNCHANGED <<current, peer, closing, channel, outstanding, queue>>,
         pc' \in Serving => pc \in Serving,
         (pc \in {"recheck", "route", "present"} <=> pc' \in {"recheck", "route", "present"})
           \/ pc' \notin Serving
  PROVE  ExactInv'
<1> SUFFICES ASSUME NEW x \in Conn, Live(x)' PROVE Exact(x)'
  BY DEF ExactInv
<1>1. \A id : InHand(x, id)' = InHand(x, id)
  BY DEF InHand, Live
<1>2. QED
  BY <1>1, ExactFrame DEF ExactInv, Live

LEMMA ExactIo ==
  ASSUME TypeOK, CloseInv, RegistryInv, FreshInv, ExactInv, IoNext PROVE ExactInv'
<1>1. ASSUME NEW c \in Conn, PrepareOutput(c) \/ SendPending(c) PROVE ExactInv'
  BY <1>1, ExactTake DEF PrepareOutput, SendPending, serverVars, queueVars
<1>2. ASSUME NEW c \in Conn, PeerEnds(c) PROVE ExactInv'
  BY <1>2, ExactStays DEF PeerEnds, serverVars, queueVars
<1>3. ASSUME NEW c \in Conn, ExpirePeer(c) PROVE ExactInv'
  <2>1. BeginClose(c) /\ UNCHANGED <<pc, current, outstanding, peer, queue>>
    BY <1>3 DEF ExpirePeer, serverVars, queueVars, ioVars
  <2>2. \A x, id : QueueCount(x, id)' = QueueCount(x, id)
    BY <2>1 DEF QueueCount
  <2>3. QED
    BY <2>1, <2>2, ExactClosing
<1>4. ASSUME NEW c \in Conn, ClosePeer(c) PROVE ExactInv'
  <2> DEFINE m == ControlMessage("close", c, NoId, None, {})
  <2>1. /\ BeginClose(c) /\ UNCHANGED <<pc, current, outstanding>> /\ Push(m)
        /\ \A x \in Conn : x # c => peer'[x] = peer[x]
    BY <1>4 DEF ClosePeer, serverVars, TypeOK, IoType
  <2>2. m \in ControlMessages /\ m.id \notin RequestIds
    BY NamesAssumption DEF ControlMessage, ControlMessages
  <2> HIDE DEF m
  <2>3. \A x \in Conn : \A id \in RequestIds : QueueCount(x, id)' = QueueCount(x, id)
    <3>1. CASE accepting
      BY <2>1, <2>2, <3>1, QueueCountPush, CountsAreNat
    <3>2. CASE ~accepting
      BY <2>1, <3>2 DEF Push, QueueCount
    <3>3. QED
      BY <3>1, <3>2
  <2>4. QED
    BY <2>1, <2>3, ExactClosing
<1>5. CASE IoExit
  BY <1>5, ExactStays DEF IoExit, serverVars, queueVars
<1>6. QED
  BY <1>1, <1>2, <1>3, <1>4, <1>5, ExactAccept, ExactDispatch DEF IoNext

\* enqueue_response moves the id from the message in hand to the channel.
LEMMA ExactPresent == ASSUME TypeOK, ReplyInv, ExactInv, Present PROVE ExactInv'
<1> SUFFICES ASSUME NEW x \in Conn, Live(x)' PROVE Exact(x)'
  BY DEF ExactInv
<1>1. /\ pc = "present" /\ pc' \in {"barrier", "publish"} /\ pc \in Serving
      /\ UNCHANGED <<current, peer, queue, outstanding>>
  BY DEF Present, queueVars, ioVars, Serving
<1>2. \A id : InHand(x, id)' = 0 /\ QueueCount(x, id)' = QueueCount(x, id)
  BY <1>1 DEF InHand, QueueCount
<1>3. CASE current.conn = Console
  <2>1. UNCHANGED <<closing, channel>>
    BY <1>1, <1>3 DEF Present, ReplyInv
  <2>2. \A id : InHand(x, id) = 0 /\ ChannelCount(x, id)' = ChannelCount(x, id)
    BY <1>3, <2>1, NamesAssumption DEF InHand, ChannelCount
  <2>3. Exact(x)
    BY <1>1, <2>1 DEF ExactInv, Live
  <2>4. QED
    BY <1>1, <1>2, <2>2, <2>3 DEF Exact
<1>4. CASE current.conn # Console
  <2>1. /\ current.conn \in Conn /\ reply \in OutboundMessages /\ reply # None
        /\ Enqueue(current.conn, reply)
    BY <1>1, <1>4, MessageFields, NoneAssumption
    DEF Present, ReplyInv, TypeOK, QueueType, OutboundMessages
  <2>2. \A id : Releases(reply, id) <=> id = current.id
    BY <1>1, <1>4 DEF ReplyInv, Releases, Responses
  <2>3. ~closing[x]
    BY <2>1, ChannelCountEnqueue DEF Live
  <2>4. \A id : ChannelCount(x, id)' =
                  ChannelCount(x, id) + (IF x = current.conn /\ id = current.id THEN 1 ELSE 0)
    BY <2>1, <2>2, ChannelCountEnqueue DEF Live
  <2>5. \A id : InHand(x, id) = IF x = current.conn /\ id = current.id THEN 1 ELSE 0
    BY <1>1 DEF InHand
  <2>6. Exact(x)
    BY <1>1, <2>3 DEF ExactInv, Live
  <2>7. QED
    BY <1>1, <1>2, <2>4, <2>5, <2>6, CountsAreNat DEF Exact
<1>5. QED
  BY <1>3, <1>4

\* An event, which answers nothing, reaches the channel of a session.
LEMMA ExactEvent ==
  ASSUME TypeOK, ExactInv, NEW c \in Conn, RouteClient(c) \/ PublishState(c) PROVE ExactInv'
<1> SUFFICES ASSUME NEW x \in Conn, Live(x)' PROVE Exact(x)'
  BY DEF ExactInv
<1>1. UNCHANGED <<pc, current, peer, queue, outstanding>>
  BY DEF RouteClient, PublishState, queueVars, ioVars
<1>2. ~closing[x] /\ \A id : ChannelCount(x, id)' = ChannelCount(x, id)
  <2>1. CASE UNCHANGED <<closing, channel>>
    BY <2>1 DEF ChannelCount, Live
  <2>2. CASE ~UNCHANGED <<closing, channel>>
    <3>1. PICK m \in Events : Enqueue(c, m)
      <4>1. [type |-> "client_action"] \in Events
        BY DEF Events
      <4>2. [type |-> "server_state", old |-> old, new |-> slot.state] \in Events
        BY DEF Events, TypeOK, ServerType, Slots
      <4>3. QED
        BY <2>2, <4>1, <4>2 DEF RouteClient, PublishState
    <3>2. m \in OutboundMessages /\ \A id : ~Releases(m, id)
      BY <3>1 DEF OutboundMessages, Events, Releases
    <3>3. QED
      BY <3>1, <3>2, ChannelCountEnqueue, CountsAreNat DEF Live
  <2>3. QED
    BY <2>1, <2>2
<1>3. Exact(x)
  BY <1>1, <1>2 DEF ExactInv, Live
<1>4. \A id : InHand(x, id)' = InHand(x, id) /\ QueueCount(x, id)' = QueueCount(x, id)
  BY <1>1 DEF InHand, QueueCount
<1>5. QED
  BY <1>1, <1>2, <1>3, <1>4 DEF Exact

LEMMA ExactServer ==
  ASSUME TypeOK, ReplyInv, ExactInv, ServerNext PROVE ExactInv'
<1>1. CASE \/ WaitExpired \/ DropExpired \/ StopAccepting \/ Discard \/ StopEndpoint \/ JoinEndpoint
           \/ \E c \in Conn : CloseRegistered(c)
  <2>1. pc' \notin Serving
    BY <1>1 DEF WaitExpired, DropExpired, StopAccepting, Discard, StopEndpoint, JoinEndpoint,
                CloseRegistered, Serving
  <2>2. QED
    BY <2>1 DEF ExactInv, Live
<1>2. CASE WaitPop
  <2> SUFFICES ASSUME NEW x \in Conn, Live(x)' PROVE Exact(x)'
    BY DEF ExactInv
  <2>1. /\ pc = "wait" /\ pc \in Serving /\ pc' = "recheck" /\ queue # <<>>
        /\ queue' = Tail(queue) /\ current' = Head(queue)
        /\ UNCHANGED <<peer, closing, channel, outstanding>>
    BY <1>2 DEF WaitPop, ioVars, Serving
  <2>2. \A id : QueueCount(x, id) = QueueCount(x, id)' +
                  (IF Head(queue).conn = x /\ Head(queue).id = id THEN 1 ELSE 0)
    BY <2>1, QueueCountPop
  <2>3. \A id : InHand(x, id) = 0 /\ ChannelCount(x, id)' = ChannelCount(x, id)
    BY <2>1 DEF InHand, ChannelCount
  <2>4. \A id : InHand(x, id)' = IF Head(queue).conn = x /\ Head(queue).id = id THEN 1 ELSE 0
    BY <2>1 DEF InHand
  <2>5. Exact(x)
    BY <2>1 DEF ExactInv, Live
  <2>6. \A id \in RequestIds :
          QueueCount(x, id)' + InHand(x, id)' = QueueCount(x, id) + InHand(x, id)
    BY <2>2, <2>3, <2>4, CountsAreNat
  <2>7. QED
    BY <2>1, <2>3, <2>5, <2>6 DEF Exact
<1>3. CASE ExecuteRequest \/ ExecuteLogin \/ ExecuteClient
  BY <1>3, ExactStays
  DEF ExecuteRequest, ExecuteLogin, ExecuteClient, Starts, queueVars, ioVars, Serving
<1>4. CASE ExecuteClose
  <2> SUFFICES ASSUME NEW x \in Conn, Live(x)' PROVE Exact(x)'
    BY DEF ExactInv
  <2>1. /\ pc = "recheck" /\ pc \in Serving /\ pc' = "wait" /\ BeginClose(current.conn)
        /\ UNCHANGED <<peer, queue, outstanding>>
    BY <1>4 DEF ExecuteClose, Starts, queueVars, ioVars, Serving
  <2>2. current.conn # x /\ closing'[x] = closing[x] /\ channel'[x] = channel[x]
    BY <2>1 DEF BeginClose, Live, TypeOK, ConnectionType
  <2>3. \A id : InHand(x, id)' = InHand(x, id)
    BY <2>1, <2>2 DEF InHand
  <2>4. QED
    BY <2>1, <2>2, <2>3, ExactFrame DEF ExactInv, Live
<1>5. CASE RouteDone \/ FinishMessage
  <2>1. CASE RouteDone
    BY <2>1, ExactStays DEF RouteDone, queueVars, ioVars, Serving
  <2>2. CASE FinishMessage
    <3> SUFFICES ASSUME NEW x \in Conn, Live(x)' PROVE Exact(x)'
      BY DEF ExactInv
    <3>1. /\ pc = "publish" /\ pc \in Serving /\ pc' \in {"shutdown", "wait"}
          /\ UNCHANGED <<peer, closing, channel, queue, outstanding>>
      BY <2>2 DEF FinishMessage, queueVars, ioVars, Serving
    <3>2. \A id : InHand(x, id)' = InHand(x, id)
      BY <3>1 DEF InHand
    <3>3. QED
      BY <3>1, <3>2, ExactFrame DEF ExactInv, Live
  <2>3. QED
    BY <1>5, <2>1, <2>2
<1>6. CASE \E result \in {"written", "gave_up"} : BarrierEnds(result)
  BY <1>6, ExactStays DEF BarrierEnds, queueVars, ioVars, Serving
<1>7. QED
  BY <1>1, <1>2, <1>3, <1>4, <1>5, <1>6, ExactPresent, ExactEvent DEF ServerNext

LEMMA ExactOthers ==
  ASSUME TypeOK, RegistryInv, ExactInv, ConsoleSubmit \/ LeaseExpires \/ UNCHANGED vars
  PROVE  ExactInv'
<1>1. CASE ConsoleSubmit
  <2> SUFFICES ASSUME NEW x \in Conn, Live(x)' PROVE Exact(x)'
    BY DEF ExactInv
  <2>1. PICK kind \in Kinds : Push(ControlMessage("request", Console, NoId, kind, {}))
    BY <1>1 DEF ConsoleSubmit
  <2> DEFINE m == ControlMessage("request", Console, NoId, kind, {})
  <2>2. m \in ControlMessages /\ m.conn \notin Conn
    BY KindsAssumption, NamesAssumption DEF ControlMessage, ControlMessages
  <2>3. UNCHANGED <<pc, current, peer, closing, channel, outstanding>>
    BY <1>1 DEF ConsoleSubmit, serverVars, ioVars
  <2>4. accepting /\ Exact(x)
    BY <2>3 DEF RegistryInv, ExactInv, Live
  <2> HIDE DEF m
  <2>5. \A id : QueueCount(x, id)' = QueueCount(x, id)
    BY <2>1, <2>2, <2>4, QueueCountPush, CountsAreNat DEF m
  <2>6. \A id : InHand(x, id)' = InHand(x, id) /\ ChannelCount(x, id)' = ChannelCount(x, id)
    BY <2>3 DEF InHand, ChannelCount
  <2>7. QED
    BY <2>3, <2>4, <2>5, <2>6 DEF Exact
<1>2. CASE LeaseExpires \/ UNCHANGED vars
  BY <1>2, ExactStays DEF LeaseExpires, vars, serverVars, queueVars, ioVars
<1>3. QED
  BY <1>1, <1>2

LEMMA RegistryInvariant == Spec => []RegistryInv
<1>1. Init => RegistryInv
  BY DEF Init, RegistryInv
<1>2. TypeOK /\ RegistryInv /\ [Next]_vars => RegistryInv'
  BY RegistryInvIo, RegistryInvServer, RegistryInvOthers DEF Next, Terminated
<1>3. QED
  BY <1>1, <1>2, TypeCorrect, PTL DEF Spec

\* Every accepted request is answered exactly once while its connection lives:
\* its id is outstanding exactly while one queued message, the message in hand
\* or one releasing response in the channel carries it.
THEOREM IdsAreReleasedOnce == Spec => []OutstandingExact
<1>1. Init => ExactInv
  BY DEF Init, ExactInv, Live
<1>2. TypeOK /\ CloseInv /\ RegistryInv /\ FreshInv /\ ReplyInv /\ ExactInv /\ [Next]_vars => ExactInv'
  BY ExactIo, ExactServer, ExactOthers DEF Next, Terminated
<1>3. QED
  BY <1>1, <1>2, ExactMeans, TypeCorrect, CloseInvariant, RegistryInvariant, FreshInvariant, PTL
  DEF Spec

-----------------------------------------------------------------------------
(***************************************************************************)
(* LoginBoundary: what a logged-in client has read, what is being sent to  *)
(* it and what is queued for it always tell an unbroken chain of project   *)
(* states that ends in the Server's own.                                   *)
(***************************************************************************)

(***************************************************************************)
(* The inductive invariant.  While a request is executed the chain of a    *)
(* session ends one state behind, in old, until publish_server_state has   *)
(* visited it.  A connection that has not logged in has been told nothing, *)
(* and neither has the one whose LOGIN response is about to be queued.     *)
(***************************************************************************)

\* LOGIN was committed and its response is the next thing to be enqueued.
Joining(c) ==
  pc = "present" /\ current.type = "login" /\ current.conn = c /\ reply.state # NoState

\* The state in which the chain of c ends.
Reached(c) ==
  IF \/ pc = "present" /\ current.type = "request"
     \/ pc \in {"barrier", "publish"} /\ c \in targets
  THEN old ELSE slot.state

Untold(c) == view[c].state = NoState /\ News(Stream(c)) = {}

Informed(c) ==
  /\ c \in registry /\ ~Joining(c) => Chain(Stream(c), view[c].state, Reached(c))
  /\ ~loggedIn[c] \/ Joining(c) => Untold(c)

ChainInv == \A c \in Conn : pc \in Serving /\ ~closing[c] => Informed(c)

\* Only sessions that logged in are registered, send requests, or are visited
\* by publish_server_state.
SessionInv ==
  /\ \A c \in registry : loggedIn[c]
  /\ \A i \in DOMAIN queue :
       queue[i].type = "request" /\ queue[i].conn \in Conn => loggedIn[queue[i].conn]
  /\ current.type = "request" /\ current.conn \in Conn => loggedIn[current.conn]
  /\ pc \in {"barrier", "publish"} => targets \subseteq registry

\* Messages are routed for CLIENT only; a LOGIN response with a state payload
\* goes to a session that LOGIN has just made.
HandInv ==
  /\ pc = "route" => current.type = "client"
  /\ \A c \in Conn : Joining(c) => loggedIn[c]

\* A response with a state payload reports the state the Server is in, and the
\* request it answers has not moved it.
PayloadInv ==
  pc \in {"route", "present"} /\ current.conn \in Conn =>
    /\ reply.state \in {NoState, slot.state}
    /\ reply.state # NoState =>
         \/ current.type = "request" /\ old = slot.state
         \/ current.type = "login"

-----------------------------------------------------------------------------
(***************************************************************************)
(* Chains                                                                  *)
(***************************************************************************)

\* A message without a state payload does not matter.
LEMMA ChainAppendOther ==
  ASSUME NEW S, NEW s \in Seq(S), NEW m \in S, ~BearsState(m)
  PROVE  /\ News(Append(s, m)) = News(s)
         /\ \A v, e : Chain(s, v, e) => Chain(Append(s, m), v, e)
<1> DEFINE t == Append(s, m)
<1>1. /\ DOMAIN t = 1..(Len(s) + 1) /\ DOMAIN s = 1..Len(s) /\ Len(s) \in Nat
      /\ t[Len(s) + 1] = m
      /\ \A i \in 1..Len(s) : t[i] = s[i]
  BY AppendProperties
<1>2. News(t) = News(s)
  BY <1>1 DEF News
<1>3. \A i \in News(s) : t[i] = s[i]
  BY <1>1 DEF News
<1> HIDE DEF t
<1>4. ASSUME NEW v, NEW e, Chain(s, v, e) PROVE Chain(t, v, e)
  BY <1>2, <1>3, <1>4 DEF Chain
<1>5. QED
  BY <1>2, <1>4 DEF t

\* A message that follows the end of the chain extends it.
LEMMA ChainAppendNews ==
  ASSUME NEW S, NEW s \in Seq(S), NEW m \in S, BearsState(m), NEW v, NEW e,
         Chain(s, v, e), Follows(m, e)
  PROVE  Chain(Append(s, m), v, Told(m))
<1> DEFINE n == Len(s) + 1
           t == Append(s, m)
<1>1. /\ DOMAIN t = 1..n /\ DOMAIN s = 1..Len(s) /\ Len(s) \in Nat
      /\ t[n] = m
      /\ \A i \in 1..Len(s) : t[i] = s[i]
  BY AppendProperties
<1>2. News(t) = News(s) \cup {n}
  BY <1>1 DEF News
<1>3. \A i \in News(s) : i \in Nat /\ i < n /\ t[i] = s[i]
  BY <1>1 DEF News
<1>4. n \in Nat
  BY <1>1
<1> HIDE DEF n, t
<1>5. ASSUME NEW i \in News(t), \A k \in News(t) : i <= k PROVE Follows(t[i], v)
  <2>1. CASE i \in News(s)
    BY <1>2, <1>3, <1>5, <2>1 DEF Chain
  <2>2. CASE i = n
    <3>1. ASSUME NEW k \in News(s) PROVE FALSE
      <4>1. k \in Nat /\ k < n /\ n <= k
        BY <1>2, <1>3, <1>5, <2>2
      <4>2. QED
        BY <1>4, <4>1
    <3>2. QED
      BY <1>1, <2>2, <3>1 DEF Chain
  <2>3. QED
    BY <1>2, <2>1, <2>2
<1>6. ASSUME NEW i \in News(t), NEW j \in News(t), i < j, \A k \in News(t) : k <= i \/ j <= k
      PROVE  Follows(t[j], Told(t[i]))
  <2>1. CASE j \in News(s)
    <3>1. i \in News(s)
      BY <1>2, <1>3, <1>4, <1>6, <2>1
    <3>2. \A k \in News(s) : k <= i \/ j <= k
      BY <1>2, <1>6
    <3>3. QED
      BY <1>3, <1>6, <2>1, <3>1, <3>2 DEF Chain
  <2>2. CASE j = n
    <3>1. i \in News(s)
      BY <1>2, <1>4, <1>6, <2>2
    <3>2. \A k \in News(s) : k <= i
      BY <1>2, <1>3, <1>4, <1>6, <2>2, <3>1
    <3>3. Told(s[i]) = e
      BY <3>1, <3>2 DEF Chain
    <3>4. QED
      BY <1>1, <1>3, <2>2, <3>1, <3>3
  <2>3. QED
    BY <1>2, <2>1, <2>2
<1>7. ASSUME NEW i \in News(t), \A k \in News(t) : k <= i PROVE Told(t[i]) = Told(m)
  BY <1>1, <1>2, <1>3, <1>4, <1>7
<1>8. News(t) # {}
  BY <1>2
<1>9. QED
  BY <1>5, <1>6, <1>7, <1>8 DEF Chain, t

\* What the client is told by the head of the stream is where the rest starts.
LEMMA ChainTail ==
  ASSUME NEW S, NEW s \in Seq(S), s # <<>>, NEW v, NEW e, Chain(s, v, e)
  PROVE  Chain(Tail(s), IF BearsState(Head(s)) THEN Told(Head(s)) ELSE v, e)
<1> DEFINE t == Tail(s)
           w == IF BearsState(Head(s)) THEN Told(Head(s)) ELSE v
<1>1. /\ DOMAIN s = 1..Len(s) /\ Len(s) \in Nat \ {0} /\ Head(s) = s[1]
      /\ DOMAIN t = 1..(Len(s) - 1)
      /\ \A i \in 1..(Len(s) - 1) : t[i] = s[i + 1]
  BY HeadTailProperties
<1>2. \A i \in News(t) : i \in Nat /\ i > 0 /\ i + 1 \in News(s) /\ t[i] = s[i + 1]
  BY <1>1 DEF News
<1>3. \A k \in News(s) : /\ k \in Nat
                          /\ \/ k = 1 /\ BearsState(Head(s))
                             \/ k > 1 /\ k - 1 \in News(t)
  BY <1>1 DEF News
<1>4. BearsState(Head(s)) => 1 \in News(s)
  BY <1>1 DEF News
<1> HIDE DEF t
<1>5. ASSUME NEW i \in News(t), \A k \in News(t) : i <= k PROVE Follows(t[i], w)
  <2>1. CASE BearsState(Head(s))
    <3>1. \A k \in News(s) : k <= 1 \/ i + 1 <= k
      BY <1>2, <1>3, <1>5
    <3>2. Follows(s[i + 1], Told(s[1]))
      BY <1>2, <1>4, <2>1, <3>1 DEF Chain
    <3>3. QED
      BY <1>1, <1>2, <2>1, <3>2
  <2>2. CASE ~BearsState(Head(s))
    <3>1. \A k \in News(s) : i + 1 <= k
      BY <1>2, <1>3, <1>5, <2>2
    <3>2. QED
      BY <1>2, <2>2, <3>1 DEF Chain
  <2>3. QED
    BY <2>1, <2>2
<1>6. ASSUME NEW i \in News(t), NEW j \in News(t), i < j, \A k \in News(t) : k <= i \/ j <= k
      PROVE  Follows(t[j], Told(t[i]))
  <2>1. ASSUME NEW k \in News(s) PROVE k <= i + 1 \/ j + 1 <= k
    <3>1. CASE k = 1
      BY <1>2, <3>1
    <3>2. CASE k # 1
      <4>1. k \in Nat /\ k - 1 \in News(t) /\ (k - 1 <= i \/ j <= k - 1)
        BY <1>3, <1>6, <3>2
      <4>2. QED
        BY <1>2, <4>1
    <3>3. QED
      BY <3>1, <3>2
  <2>2. QED
    BY <1>2, <1>6, <2>1 DEF Chain
<1>7. ASSUME NEW i \in News(t), \A k \in News(t) : k <= i PROVE Told(t[i]) = e
  <2>1. \A k \in News(s) : k <= i + 1
    BY <1>2, <1>3, <1>7
  <2>2. QED
    BY <1>2, <2>1 DEF Chain
<1>8. ASSUME News(t) = {} PROVE w = e
  <2>1. CASE BearsState(Head(s))
    <3>1. \A k \in News(s) : k <= 1
      BY <1>3, <1>8
    <3>2. QED
      BY <1>1, <1>4, <2>1, <3>1 DEF Chain
  <2>2. CASE ~BearsState(Head(s))
    BY <1>3, <1>8, <2>2 DEF Chain
  <2>3. QED
    BY <2>1, <2>2
<1>9. QED
  BY <1>5, <1>6, <1>7, <1>8 DEF Chain, t

\* A stream without news stays without news when it is read.
LEMMA NewsTail ==
  ASSUME NEW S, NEW s \in Seq(S), s # <<>>, News(s) = {}
  PROVE  News(Tail(s)) = {} /\ ~BearsState(Head(s))
  BY HeadTailProperties DEF News

-----------------------------------------------------------------------------
(***************************************************************************)
(* Sessions and payloads                                                   *)
(***************************************************************************)

\* A logged-in connection stays logged in.
LEMMA LoginStays == ASSUME TypeOK, [Next]_vars PROVE \A c \in Conn : loggedIn[c] => loggedIn'[c]
<1>1. CASE ExecuteLogin
  BY <1>1 DEF ExecuteLogin, TypeOK, ConnectionType
<1>2. CASE IoNext \/ ConsoleSubmit \/ LeaseExpires \/ UNCHANGED vars
  BY <1>2
  DEF IoNext, AcceptPeer, Dispatch, PrepareOutput, SendPending, PeerEnds, ExpirePeer, ClosePeer,
      IoExit, ConsoleSubmit, LeaseExpires, vars
<1>3. CASE WaitExpired \/ WaitPop \/ DropExpired \/ ExecuteRequest \/ ExecuteClient \/ ExecuteClose
  BY <1>3 DEF WaitExpired, WaitPop, DropExpired, ExecuteRequest, ExecuteClient, ExecuteClose
<1>4. CASE \E c \in Conn : RouteClient(c) \/ PublishState(c) \/ CloseRegistered(c)
  BY <1>4 DEF RouteClient, PublishState, CloseRegistered
<1>5. CASE RouteDone \/ Present \/ FinishMessage \/ \E result \in {"written", "gave_up"} : BarrierEnds(result)
  BY <1>5 DEF RouteDone, Present, FinishMessage, BarrierEnds
<1>6. CASE StopAccepting \/ Discard \/ StopEndpoint \/ JoinEndpoint
  BY <1>6 DEF StopAccepting, Discard, StopEndpoint, JoinEndpoint
<1>7. QED
  BY <1>1, <1>2, <1>3, <1>4, <1>5, <1>6 DEF Next, ServerNext, Terminated

\* A step that adds neither a message nor a registration.
LEMMA SessionFrame ==
  ASSUME TypeOK, SessionInv, [Next]_vars, UNCHANGED <<queue, current>>, registry' \subseteq registry,
         pc' \in {"barrier", "publish"} => targets' \subseteq registry'
  PROVE  SessionInv'
<1>1. \A c \in Conn : loggedIn[c] => loggedIn'[c]
  BY LoginStays
<1>2. registry \subseteq Conn
  BY DEF TypeOK, ServerType
<1>3. QED
  BY <1>1, <1>2 DEF SessionInv

\* A pushed request comes from the console or from a session.
LEMMA SessionPush ==
  ASSUME TypeOK, SessionInv, NEW m \in ControlMessages, Push(m),
         UNCHANGED <<current, registry, pc, targets, loggedIn>>,
         m.type = "request" /\ m.conn \in Conn => loggedIn[m.conn]
  PROVE  SessionInv'
<1>1. CASE accepting
  <2>1. \A i \in DOMAIN queue' : queue'[i] = m \/ (i \in DOMAIN queue /\ queue'[i] = queue[i])
    BY <1>1, PushPositions DEF TypeOK, QueueType
  <2>2. QED
    BY <2>1 DEF SessionInv
<1>2. CASE ~accepting
  <2>1. UNCHANGED queue
    BY <1>2 DEF Push
  <2>2. QED
    BY <2>1 DEF SessionInv
<1>3. QED
  BY <1>1, <1>2

LEMMA SessionIo == ASSUME TypeOK, SessionInv, IoNext PROVE SessionInv'
<1>0. [Next]_vars
  BY DEF Next
<1>1. ASSUME NEW c \in Conn,
             \/ AcceptPeer(c) \/ PrepareOutput(c) \/ SendPending(c) \/ PeerEnds(c) \/ ExpirePeer(c)
      PROVE  SessionInv'
  BY <1>0, <1>1, SessionFrame
  DEF AcceptPeer, PrepareOutput, SendPending, PeerEnds, ExpirePeer, serverVars, queueVars, SessionInv
<1>2. CASE IoExit
  BY <1>0, <1>2, SessionFrame DEF IoExit, serverVars, queueVars, SessionInv
<1>3. ASSUME NEW c \in Conn, ClosePeer(c) PROVE SessionInv'
  <2> DEFINE m == ControlMessage("close", c, NoId, None, {})
  <2>1. Push(m) /\ UNCHANGED <<current, registry, pc, targets, loggedIn>>
    BY <1>3 DEF ClosePeer, serverVars
  <2>2. m \in ControlMessages /\ m.type # "request"
    BY DEF ControlMessage, ControlMessages
  <2> HIDE DEF m
  <2>3. QED
    BY <2>1, <2>2, SessionPush
<1>4. ASSUME NEW c \in Conn, Dispatch(c) PROVE SessionInv'
  <2>1. PICK m \in Frames(c) :
          DispatchDuplicate(c, m) \/ DispatchRejected(c, m) \/ DispatchControl(c, m)
    BY <1>4 DEF Dispatch
  <2>2. m \in ControlMessages /\ m.conn = c
    BY FramesType
  <2>3. UNCHANGED <<current, registry, pc, targets, loggedIn>>
    BY <1>4 DEF Dispatch, serverVars
  <2>4. CASE DispatchControl(c, m)
    BY <2>2, <2>3, <2>4, SessionPush DEF DispatchControl
  <2>5. CASE ~DispatchControl(c, m)
    BY <1>0, <2>1, <2>3, <2>5, SessionFrame
    DEF DispatchDuplicate, DispatchRejected, queueVars, SessionInv
  <2>6. QED
    BY <2>4, <2>5
<1>5. QED
  BY <1>1, <1>2, <1>3, <1>4 DEF IoNext

LEMMA SessionServer == ASSUME TypeOK, SessionInv, ServerNext PROVE SessionInv'
<1>0. [Next]_vars
  BY DEF Next
<1>1. CASE \/ WaitExpired \/ DropExpired \/ FinishMessage \/ StopAccepting
  BY <1>1 DEF WaitExpired, DropExpired, FinishMessage, StopAccepting, SessionInv, queueVars,
              NoMessage, ControlMessage
<1>2. CASE WaitPop
  <2>1. /\ current' = queue[1] /\ 1 \in DOMAIN queue
        /\ \A i \in DOMAIN queue' : i + 1 \in DOMAIN queue /\ queue'[i] = queue[i + 1]
    BY <1>2, PopPositions DEF WaitPop, TypeOK, QueueType
  <2>2. UNCHANGED <<loggedIn, registry, targets>> /\ pc' = "recheck"
    BY <1>2 DEF WaitPop
  <2>3. QED
    BY <2>1, <2>2 DEF SessionInv
<1>3. CASE ExecuteLogin
  <2>1. /\ UNCHANGED <<queue, current>> /\ pc' = "present"
        /\ \A c \in registry' : c \in registry \/ (c = current.conn /\ loggedIn'[c])
    <3>1. current.conn \in Conn
      BY <1>3, MessageFields DEF ExecuteLogin, Starts, TypeOK, QueueType
    <3>2. QED
      BY <1>3, <3>1 DEF ExecuteLogin, queueVars, TypeOK, ConnectionType
  <2>2. \A c \in Conn : loggedIn[c] => loggedIn'[c]
    BY <1>0, LoginStays
  <2>3. registry \subseteq Conn
    BY DEF TypeOK, ServerType
  <2>4. QED
    BY <2>1, <2>2, <2>3 DEF SessionInv
<1>4. CASE ExecuteClose
  BY <1>4 DEF ExecuteClose, SessionInv, queueVars, NoMessage, ControlMessage
<1>5. CASE ExecuteRequest \/ ExecuteClient \/ RouteDone \/ Present
  BY <1>0, <1>5, SessionFrame DEF ExecuteRequest, ExecuteClient, RouteDone, Present, queueVars
<1>6. CASE \E c \in Conn : RouteClient(c) \/ PublishState(c) \/ CloseRegistered(c)
  BY <1>0, <1>6, SessionFrame DEF RouteClient, PublishState, CloseRegistered, queueVars, SessionInv
<1>7. CASE Discard \/ StopEndpoint \/ JoinEndpoint
  BY <1>0, <1>7, SessionFrame DEF Discard, StopEndpoint, JoinEndpoint, queueVars
<1>8. CASE \E result \in {"written", "gave_up"} : BarrierEnds(result)
  BY <1>0, <1>8, SessionFrame DEF BarrierEnds, queueVars, SessionInv
<1>9. QED
  BY <1>1, <1>2, <1>3, <1>4, <1>5, <1>6, <1>7, <1>8 DEF ServerNext

LEMMA SessionOthers ==
  ASSUME TypeOK, SessionInv, ConsoleSubmit \/ LeaseExpires \/ UNCHANGED vars PROVE SessionInv'
<1>1. CASE ConsoleSubmit
  <2>1. PICK kind \in Kinds : Push(ControlMessage("request", Console, NoId, kind, {}))
    BY <1>1 DEF ConsoleSubmit
  <2> DEFINE m == ControlMessage("request", Console, NoId, kind, {})
  <2>2. m \in ControlMessages /\ m.conn \notin Conn
    BY KindsAssumption, NamesAssumption DEF ControlMessage, ControlMessages
  <2>3. UNCHANGED <<current, registry, pc, targets, loggedIn>>
    BY <1>1 DEF ConsoleSubmit, serverVars
  <2> HIDE DEF m
  <2>4. QED
    BY <2>1, <2>2, <2>3, SessionPush DEF m
<1>2. CASE LeaseExpires \/ UNCHANGED vars
  BY <1>2 DEF LeaseExpires, vars, serverVars, queueVars, SessionInv
<1>3. QED
  BY <1>1, <1>2

\* GET_STATE is the only request whose response has a payload; it moves nothing.
LEMMA GetStateStays ==
  ASSUME NEW sl PROVE \A out \in ExecuteMessage(Mode, "get_state", sl) : out.slot = sl
  BY DEF ExecuteMessage, Execute, Outcome

LEMMA PayloadStep == ASSUME TypeOK, PayloadInv, [Next]_vars PROVE PayloadInv'
<1>0. \A id, of, st : Response(id, of, st).state = st
  BY DEF Response
<1>1. CASE ExecuteRequest
  <2> SUFFICES ASSUME current.conn \in Conn
               PROVE  /\ reply'.state \in {NoState, slot'.state}
                      /\ reply'.state # NoState => current.type = "request" /\ old' = slot'.state
    BY <1>1 DEF PayloadInv, ExecuteRequest
  <2>1. current.type = "request" /\ old' = slot.state
    BY <1>1 DEF ExecuteRequest, Starts
  <2>2. PICK out \in ExecuteMessage(Mode, current.kind, slot) :
          /\ slot' = out.slot
          /\ reply' = Response(current.id, current.kind,
                        IF current.kind = "get_state" THEN out.slot.state ELSE NoState)
    BY <1>1, NamesAssumption DEF ExecuteRequest
  <2>3. CASE current.kind = "get_state"
    <3>1. slot' = slot
      BY <2>2, <2>3, GetStateStays
    <3>2. QED
      BY <1>0, <2>1, <2>2, <2>3, <3>1
  <2>4. CASE current.kind # "get_state"
    BY <1>0, <2>2, <2>4
  <2>5. QED
    BY <2>3, <2>4
<1>2. CASE ExecuteLogin
  BY <1>0, <1>2 DEF ExecuteLogin, Starts, PayloadInv
<1>3. CASE ExecuteClient
  BY <1>0, <1>3 DEF ExecuteClient, PayloadInv
<1>4. CASE RouteDone \/ \E c \in Conn : RouteClient(c)
  BY <1>4 DEF RouteDone, RouteClient, PayloadInv
<1>5. CASE WaitExpired \/ WaitPop \/ DropExpired \/ ExecuteClose \/ Present \/ FinishMessage
  BY <1>5 DEF WaitExpired, WaitPop, DropExpired, ExecuteClose, Present, FinishMessage, PayloadInv
<1>6. CASE StopAccepting \/ Discard \/ StopEndpoint \/ JoinEndpoint
  BY <1>6 DEF StopAccepting, Discard, StopEndpoint, JoinEndpoint, PayloadInv
<1>7. CASE \/ \E c \in Conn : PublishState(c) \/ CloseRegistered(c)
           \/ \E result \in {"written", "gave_up"} : BarrierEnds(result)
  BY <1>7 DEF PublishState, CloseRegistered, BarrierEnds, PayloadInv
<1>8. CASE IoNext
  <2>1. UNCHANGED serverVars
    BY <1>8
    DEF IoNext, AcceptPeer, Dispatch, PrepareOutput, SendPending, PeerEnds, ExpirePeer, ClosePeer,
        IoExit
  <2>2. QED
    BY <2>1 DEF serverVars, PayloadInv
<1>9. CASE ConsoleSubmit \/ LeaseExpires \/ UNCHANGED vars
  BY <1>9 DEF ConsoleSubmit, LeaseExpires, vars, serverVars, PayloadInv
<1>10. QED
  BY <1>1, <1>2, <1>3, <1>4, <1>5, <1>6, <1>7, <1>8, <1>9 DEF Next, ServerNext, Terminated

-----------------------------------------------------------------------------
(***************************************************************************)
(* The stream of a connection                                              *)
(***************************************************************************)

LEMMA StreamType ==
  ASSUME TypeOK, NEW c \in Conn
  PROVE  /\ Stream(c) \in Seq(OutboundMessages)
         /\ sending[c] = None => Stream(c) = channel[c]
         /\ sending[c] # None => /\ Stream(c) # <<>>
                                 /\ Head(Stream(c)) = sending[c]
                                 /\ Tail(Stream(c)) = channel[c]
<1>1. channel[c] \in Seq(OutboundMessages) /\ sending[c] \in OutboundMessages \cup {None}
  BY DEF TypeOK, ConnectionType, IoType
<1>2. CASE sending[c] = None
  <2>1. Stream(c) = <<>> \o channel[c]
    BY <1>2 DEF Stream
  <2>2. QED
    BY <1>1, <1>2, <2>1, ConcatEmptySeq
<1>3. CASE sending[c] # None
  <2>1. Stream(c) = <<sending[c]>> \o channel[c]
    BY <1>3 DEF Stream
  <2>2. <<sending[c]>> \in Seq(OutboundMessages)
    BY <1>1, <1>3
  <2>3. QED
    BY <1>1, <1>3, <2>1, <2>2, ConcatSimplifications
<1>4. QED
  BY <1>2, <1>3

\* Appending commutes with a prefix.
LEMMA AppendConcat ==
  ASSUME NEW S, NEW p \in Seq(S), NEW q \in Seq(S), NEW m \in S
  PROVE  p \o Append(q, m) = Append(p \o q, m)
<1>1. p \o q \in Seq(S) /\ Append(q, m) \in Seq(S)
  OBVIOUS
<1>2. /\ p \o Append(q, m) \in Seq(S) /\ Append(p \o q, m) \in Seq(S)
      /\ Len(p \o Append(q, m)) = Len(p) + Len(q) + 1
      /\ Len(Append(p \o q, m)) = Len(p) + Len(q) + 1
  BY <1>1
<1>3. ASSUME NEW i \in 1..(Len(p) + Len(q) + 1)
      PROVE  (p \o Append(q, m))[i] = Append(p \o q, m)[i]
  BY <1>1, <1>2, <1>3
<1>4. QED
  BY <1>2, <1>3, SeqEqual

\* enqueue_*() appends to the stream.
LEMMA StreamEnqueue ==
  ASSUME TypeOK, NEW c \in Conn, NEW m \in OutboundMessages, Enqueue(c, m), UNCHANGED sending,
         NEW x \in Conn, ~closing'[x]
  PROVE  ~closing[x] /\ Stream(x)' = IF x = c THEN Append(Stream(x), m) ELSE Stream(x)
<1>1. CASE x # c
  BY <1>1, EnqueueOthers DEF Stream
<1>2. CASE x = c
  <2>1. ~closing[c] /\ channel'[c] = Append(channel[c], m)
    BY <1>2 DEF Enqueue, HasRoom, BeginClose, TypeOK, ConnectionType
  <2>2. channel[c] \in Seq(OutboundMessages) /\ sending[c] \in OutboundMessages \cup {None}
    BY DEF TypeOK, ConnectionType, IoType
  <2> DEFINE p == IF sending[c] = None THEN <<>> ELSE <<sending[c]>>
  <2>3. p \in Seq(OutboundMessages) /\ Stream(c) = p \o channel[c]
        /\ Stream(c)' = p \o Append(channel[c], m)
    BY <2>1, <2>2 DEF Stream
  <2> HIDE DEF p
  <2>4. p \o Append(channel[c], m) = Append(p \o channel[c], m)
    BY <2>2, <2>3, AppendConcat
  <2>5. QED
    BY <1>2, <2>1, <2>3, <2>4
<1>3. QED
  BY <1>1, <1>2

-----------------------------------------------------------------------------
(***************************************************************************)
(* The chains                                                              *)
(***************************************************************************)

\* What the step of another thread leaves alone.
LEMMA InformedFrame ==
  ASSUME NEW c \in Conn, Informed(c),
         UNCHANGED <<pc, current, reply, targets, old, slot, registry, loggedIn>>,
         Stream(c)' = Stream(c), view'[c] = view[c]
  PROVE  Informed(c)'
<1>1. (Joining(c) <=> Joining(c)') /\ Reached(c)' = Reached(c)
  BY DEF Joining, Reached
<1>2. QED
  BY <1>1 DEF Informed, Untold

\* Output that bears no state may be appended at any time.
LEMMA InformedOther ==
  ASSUME TypeOK, NEW c \in Conn, NEW m \in OutboundMessages, Enqueue(c, m), ~BearsState(m),
         UNCHANGED <<pc, current, reply, old, slot, registry, loggedIn, sending, view>>,
         targets' = targets \/ pc \notin {"barrier", "publish"}, ChainInv
  PROVE  ChainInv'
<1> SUFFICES ASSUME NEW x \in Conn, pc \in Serving, ~closing'[x] PROVE Informed(x)'
  BY DEF ChainInv
<1>1. ~closing[x] /\ Stream(x)' = IF x = c THEN Append(Stream(x), m) ELSE Stream(x)
  BY StreamEnqueue
<1>2. Stream(x) \in Seq(OutboundMessages)
  BY StreamType
<1>3. News(Stream(x)') = News(Stream(x))
  BY <1>1, <1>2, ChainAppendOther
<1>4. \A v, e : Chain(Stream(x), v, e) => Chain(Stream(x)', v, e)
  BY <1>1, <1>2, ChainAppendOther
<1>5. Informed(x)
  BY <1>1 DEF ChainInv
<1>6. (Joining(x) <=> Joining(x)') /\ Reached(x)' = Reached(x)
  BY DEF Joining, Reached
<1>7. QED
  BY <1>3, <1>4, <1>5, <1>6 DEF Informed, Untold

\* The close of a connection ends its chain and leaves the others alone.
LEMMA InformedClosing ==
  ASSUME TypeOK, ChainInv, NEW c, BeginClose(c),
         UNCHANGED <<pc, current, reply, targets, old, slot, registry, loggedIn, view>>,
         \A x \in Conn : x # c => sending'[x] = sending[x]
  PROVE  ChainInv'
<1> SUFFICES ASSUME NEW x \in Conn, pc \in Serving, ~closing'[x] PROVE Informed(x)'
  BY DEF ChainInv
<1>1. x # c /\ ~closing[x] /\ channel'[x] = channel[x]
  BY DEF BeginClose, TypeOK, ConnectionType
<1>2. Stream(x)' = Stream(x)
  BY <1>1 DEF Stream
<1>3. QED
  BY <1>1, <1>2, InformedFrame DEF ChainInv

\* What Seen makes of a message, in terms of the chain.
LEMMA SeenState ==
  ASSUME NEW m \in OutboundMessages, NEW v
  PROVE  Seen(v, m).state = IF BearsState(m) THEN Told(m) ELSE v.state
<1>1. m.type \in {"response", "server_state", "client_action"}
  BY DEF OutboundMessages, Responses, Events
<1>2. CASE m.type = "server_state"
  BY <1>2 DEF Seen, BearsState, Told
<1>3. CASE m.type = "response"
  BY <1>3 DEF Seen, BearsState, Told
<1>4. CASE m.type = "client_action"
  BY <1>4 DEF Seen, BearsState, Told
<1>5. QED
  BY <1>1, <1>2, <1>3, <1>4

\* The writer: the message that was sent has been told, the rest of the stream
\* is as it was.
LEMMA ChainTake ==
  ASSUME TypeOK, ChainInv, NEW c \in Conn, PrepareOutput(c) \/ SendPending(c) PROVE ChainInv'
<1> SUFFICES ASSUME NEW x \in Conn, pc' \in Serving, ~closing'[x] PROVE Informed(x)'
  BY DEF ChainInv
<1>1. /\ UNCHANGED <<pc, current, reply, targets, old, slot, registry, loggedIn>>
      /\ TakeOutput(c)
  BY DEF PrepareOutput, SendPending, serverVars
<1>2. view' = view \/ view' = [view EXCEPT ![c] = Seen(@, sending[c])]
  BY DEF PrepareOutput, SendPending, clientVars
<1>3. ASSUME x # c PROVE ~closing[x] /\ Stream(x)' = Stream(x) /\ view'[x] = view[x]
  <2>1. channel'[x] = channel[x] /\ sending'[x] = sending[x] /\ closing'[x] = closing[x]
    BY <1>1, <1>3 DEF TakeOutput, BeginClose, TypeOK, ConnectionType, IoType
  <2>2. view'[x] = view[x]
    BY <1>2, <1>3 DEF TypeOK, ClientType
  <2>3. QED
    BY <2>1, <2>2 DEF Stream
<1>4. CASE x # c
  BY <1>1, <1>3, <1>4, InformedFrame DEF ChainInv
<1>5. CASE x = c
  <2>1. /\ channel \in [Conn -> Seq(OutboundMessages)] /\ closing \in [Conn -> BOOLEAN]
        /\ sending \in [Conn -> OutboundMessages \cup {None}]
    BY DEF TypeOK, ConnectionType, IoType
  <2>2. ~closing[c]
    BY <1>1, <1>5, <2>1 DEF TakeOutput, BeginClose
  <2>3. Informed(c)
    BY <1>1, <2>2 DEF ChainInv
  <2>4. \/ channel[c] = <<>> /\ channel'[c] = <<>> /\ sending'[c] = None
        \/ /\ channel[c] # <<>> /\ channel'[c] = Tail(channel[c])
           /\ sending'[c] = Head(channel[c])
    <3>1. ~BeginClose(c)
      BY <1>5, <2>1 DEF BeginClose
    <3>2. QED
      BY <1>1, <2>1, <2>2, <3>1 DEF TakeOutput
  <2>5. Stream(c)' = channel[c]
    <3>1. CASE channel[c] = <<>>
      BY <2>4, <3>1 DEF Stream
    <3>2. CASE channel[c] # <<>>
      <4>1. Head(channel[c]) \in OutboundMessages /\ Tail(channel[c]) \in Seq(OutboundMessages)
        BY <2>1, <3>2
      <4>2. Stream(c)' = <<Head(channel[c])>> \o Tail(channel[c])
        BY <2>4, <3>2, <4>1, NoneAssumption DEF Stream
      <4>3. QED
        BY <2>1, <3>2, <4>2, HeadTailProperties, SMT
    <3>3. QED
      BY <3>1, <3>2
  <2>6. CASE PrepareOutput(c)
    <3>1. Stream(c) = channel[c] /\ view' = view
      BY <2>6, StreamType DEF PrepareOutput, clientVars
    <3>2. QED
      BY <1>1, <1>5, <2>3, <2>5, <3>1, InformedFrame
  <2>7. CASE SendPending(c)
    <3>1. /\ sending[c] # None /\ sending[c] \in OutboundMessages
          /\ Stream(c) \in Seq(OutboundMessages) /\ Stream(c) # <<>>
          /\ Head(Stream(c)) = sending[c] /\ Stream(c)' = Tail(Stream(c))
      BY <2>1, <2>5, <2>7, StreamType DEF SendPending
    <3>2. view'[c].state = IF BearsState(sending[c]) THEN Told(sending[c]) ELSE view[c].state
      <4>1. view'[c] = Seen(view[c], sending[c])
        BY <2>7 DEF SendPending, TypeOK, ClientType
      <4>2. QED
        BY <3>1, <4>1, SeenState
    <3>3. (Joining(c) <=> Joining(c)') /\ Reached(c)' = Reached(c)
      BY <1>1 DEF Joining, Reached
    <3>4. \A e : Chain(Stream(c), view[c].state, e) => Chain(Stream(c)', view'[c].state, e)
      BY <3>1, <3>2, ChainTail
    <3>5. Untold(c) => Untold(c)'
      BY <3>1, <3>2, NewsTail DEF Untold
    <3>6. QED
      BY <1>1, <1>5, <2>3, <3>3, <3>4, <3>5 DEF Informed
  <2>8. QED
    BY <2>6, <2>7
<1>6. QED
  BY <1>4, <1>5

\* A step that neither sends nor reads anything of c, nor moves its boundary.
LEMMA InformedMove ==
  ASSUME NEW c \in Conn, Informed(c), Stream(c)' = Stream(c), view'[c] = view[c],
         loggedIn'[c] = loggedIn[c], registry' \subseteq registry,
         Joining(c)' <=> Joining(c), c \in registry => Reached(c)' = Reached(c)
  PROVE  Informed(c)'
  BY DEF Informed, Untold

LEMMA ChainIo == ASSUME TypeOK, ChainInv, IoNext PROVE ChainInv'
<1>1. ASSUME UNCHANGED <<pc, current, reply, targets, old, slot, registry, loggedIn, view>>,
             UNCHANGED <<closing, channel, sending>>
      PROVE  ChainInv'
  <2>1. \A c : Stream(c)' = Stream(c)
    BY <1>1 DEF Stream
  <2>2. QED
    BY <1>1, <2>1, InformedFrame DEF ChainInv
<1>2. ASSUME NEW c \in Conn, AcceptPeer(c) \/ PeerEnds(c) PROVE ChainInv'
  BY <1>1, <1>2 DEF AcceptPeer, PeerEnds, serverVars, clientVars
<1>3. CASE IoExit
  BY <1>1, <1>3 DEF IoExit, serverVars, clientVars
<1>4. ASSUME NEW c \in Conn, PrepareOutput(c) \/ SendPending(c) PROVE ChainInv'
  BY <1>4, ChainTake
<1>5. ASSUME NEW c \in Conn, ExpirePeer(c) \/ ClosePeer(c) PROVE ChainInv'
  <2>1. /\ BeginClose(c)
        /\ UNCHANGED <<pc, current, reply, targets, old, slot, registry, loggedIn, view>>
    BY <1>5 DEF ExpirePeer, ClosePeer, serverVars, clientVars
  <2>2. \A x \in Conn : x # c => sending'[x] = sending[x]
    BY <1>5 DEF ExpirePeer, ClosePeer, ioVars, TypeOK, IoType
  <2>3. QED
    BY <2>1, <2>2, InformedClosing
<1>6. ASSUME NEW c \in Conn, Dispatch(c) PROVE ChainInv'
  <2>1. PICK m \in Frames(c) :
          DispatchDuplicate(c, m) \/ DispatchRejected(c, m) \/ DispatchControl(c, m)
    BY <1>6 DEF Dispatch
  <2>2. m.id \in RequestIds
    BY DEF Frames, ControlMessage
  <2>3. UNCHANGED <<pc, current, reply, targets, old, slot, registry, loggedIn, view, sending>>
    BY <1>6 DEF Dispatch, serverVars
  <2>4. CASE DispatchDuplicate(c, m)
    <3>1. /\ DuplicateResponse(m.id) \in OutboundMessages
          /\ ~BearsState(DuplicateResponse(m.id))
      BY <2>2 DEF DuplicateResponse, OutboundMessages, Responses, Sources, BearsState
    <3>2. Enqueue(c, DuplicateResponse(m.id))
      BY <2>4 DEF DispatchDuplicate
    <3>3. QED
      BY <2>3, <3>1, <3>2, InformedOther
  <2>5. CASE DispatchRejected(c, m)
    <3>1. /\ Response(m.id, "rejected", NoState) \in OutboundMessages
          /\ ~BearsState(Response(m.id, "rejected", NoState))
      BY <2>2 DEF Response, OutboundMessages, Responses, Sources, BearsState
    <3>2. Enqueue(c, Response(m.id, "rejected", NoState))
      BY <2>5 DEF DispatchRejected
    <3>3. QED
      BY <2>3, <3>1, <3>2, InformedOther
  <2>6. CASE DispatchControl(c, m)
    BY <1>1, <2>3, <2>6 DEF DispatchControl
  <2>7. QED
    BY <2>1, <2>4, <2>5, <2>6
<1>7. QED
  BY <1>2, <1>3, <1>4, <1>5, <1>6 DEF IoNext

LEMMA HandStep == ASSUME TypeOK, HandInv, [Next]_vars PROVE HandInv'
<1>0. \A c \in Conn : loggedIn[c] => loggedIn'[c]
  BY LoginStays
<1>1. CASE ExecuteLogin
  <2>1. current.conn \in Conn
    BY <1>1, MessageFields DEF ExecuteLogin, Starts, TypeOK, QueueType
  <2>2. Response(current.id, "login", NoState).state = NoState
    BY DEF Response
  <2>3. reply'.state # NoState => loggedIn'[current.conn]
    BY <1>1, <2>1, <2>2 DEF ExecuteLogin, TypeOK, ConnectionType
  <2>4. pc' = "present" /\ current' = current
    BY <1>1 DEF ExecuteLogin
  <2>5. QED
    BY <2>3, <2>4 DEF HandInv, Joining
<1>2. CASE ExecuteRequest \/ ExecuteClient
  BY <1>2 DEF ExecuteRequest, ExecuteClient, Starts, HandInv, Joining
<1>3. CASE RouteDone \/ \E c \in Conn : RouteClient(c)
  BY <1>3 DEF RouteDone, RouteClient, HandInv, Joining
<1>4. CASE WaitExpired \/ WaitPop \/ DropExpired \/ ExecuteClose \/ Present \/ FinishMessage
  BY <1>4 DEF WaitExpired, WaitPop, DropExpired, ExecuteClose, Present, FinishMessage, HandInv,
              Joining
<1>5. CASE StopAccepting \/ Discard \/ StopEndpoint \/ JoinEndpoint
  BY <1>5 DEF StopAccepting, Discard, StopEndpoint, JoinEndpoint, HandInv, Joining
<1>6. CASE \/ \E c \in Conn : PublishState(c) \/ CloseRegistered(c)
           \/ \E result \in {"written", "gave_up"} : BarrierEnds(result)
  BY <1>6 DEF PublishState, CloseRegistered, BarrierEnds, HandInv, Joining
<1>7. CASE IoNext
  <2>1. UNCHANGED serverVars
    BY <1>7
    DEF IoNext, AcceptPeer, Dispatch, PrepareOutput, SendPending, PeerEnds, ExpirePeer, ClosePeer,
        IoExit
  <2>2. QED
    BY <1>0, <2>1 DEF serverVars, HandInv, Joining
<1>8. CASE ConsoleSubmit \/ LeaseExpires \/ UNCHANGED vars
  BY <1>0, <1>8 DEF ConsoleSubmit, LeaseExpires, vars, serverVars, HandInv, Joining
<1>9. QED
  BY <1>1, <1>2, <1>3, <1>4, <1>5, <1>6, <1>7, <1>8 DEF Next, ServerNext, Terminated

\* Steps of the control thread that send nothing.
LEMMA ChainQuiet ==
  ASSUME TypeOK, HandInv, ChainInv,
         \/ WaitPop \/ ExecuteRequest \/ ExecuteClient \/ RouteDone \/ FinishMessage
         \/ \E result \in {"written", "gave_up"} : BarrierEnds(result)
  PROVE  ChainInv'
<1> SUFFICES ASSUME NEW c \in Conn, pc' \in Serving, ~closing'[c] PROVE Informed(c)'
  BY DEF ChainInv
<1>1. /\ UNCHANGED <<closing, channel, sending, view, loggedIn, registry>> /\ pc \in Serving
  BY DEF WaitPop, ExecuteRequest, ExecuteClient, RouteDone, FinishMessage, BarrierEnds, Starts,
         ioVars, clientVars, Serving
<1>2. Informed(c) /\ Stream(c)' = Stream(c)
  BY <1>1 DEF ChainInv, Stream
<1>3. (Joining(c)' <=> Joining(c)) /\ Reached(c)' = Reached(c)
  <2>1. CASE WaitPop \/ FinishMessage
    BY <2>1 DEF WaitPop, FinishMessage, Joining, Reached
  <2>2. CASE ExecuteRequest
    BY <2>2 DEF ExecuteRequest, Starts, Joining, Reached
  <2>3. CASE ExecuteClient
    BY <2>3 DEF ExecuteClient, Starts, Joining, Reached
  <2>4. CASE RouteDone
    BY <2>4 DEF RouteDone, HandInv, Joining, Reached
  <2>5. CASE \E result \in {"written", "gave_up"} : BarrierEnds(result)
    BY <2>5 DEF BarrierEnds, Joining, Reached
  <2>6. QED
    BY <2>1, <2>2, <2>3, <2>4, <2>5
<1>4. QED
  BY <1>1, <1>2, <1>3, InformedMove

\* The LOGIN boundary: the new session has been told nothing yet.
LEMMA ChainLogin == ASSUME TypeOK, ChainInv, ExecuteLogin PROVE ChainInv'
<1> SUFFICES ASSUME NEW c \in Conn, pc' \in Serving, ~closing'[c] PROVE Informed(c)'
  BY DEF ChainInv
<1>1. /\ UNCHANGED <<closing, channel, sending, view, current, slot>>
      /\ pc = "recheck" /\ pc' = "present" /\ current.type = "login"
  BY DEF ExecuteLogin, Starts, ioVars, clientVars
<1>2. Informed(c) /\ Stream(c)' = Stream(c)
  BY <1>1 DEF ChainInv, Stream, Serving
<1>3. ~Joining(c) /\ Reached(c)' = Reached(c)
  BY <1>1 DEF Joining, Reached
<1>4. CASE UNCHANGED <<loggedIn, registry>> /\ reply' = Response(current.id, "login", NoState)
  <2>1. ~Joining(c)'
    BY <1>4 DEF Joining, Response
  <2>2. QED
    BY <1>1, <1>2, <1>3, <1>4, <2>1, InformedMove
<1>5. CASE /\ CommitsLogin(current.conn)
           /\ loggedIn' = [loggedIn EXCEPT ![current.conn] = TRUE]
           /\ registry' = registry \cup {current.conn}
           /\ reply' = Response(current.id, "login", slot.state)
  <2>1. CASE c = current.conn
    <3>1. slot.state # NoState
      BY DEF TypeOK, ServerType, Slots, ProjectStates, NoState
    <3>2. Joining(c)'
      BY <1>1, <1>5, <2>1, <3>1 DEF Joining, Response
    <3>3. Untold(c)
      BY <1>2, <1>5, <2>1 DEF CommitsLogin, Informed
    <3>4. QED
      BY <1>1, <1>2, <3>2, <3>3 DEF Informed, Untold
  <2>2. CASE c # current.conn
    <3>1. ~Joining(c)' /\ loggedIn'[c] = loggedIn[c] /\ (c \in registry' <=> c \in registry)
      BY <1>1, <1>5, <2>2 DEF Joining, TypeOK, ConnectionType
    <3>2. QED
      BY <1>1, <1>2, <1>3, <3>1 DEF Informed, Untold
  <2>3. QED
    BY <2>1, <2>2
<1>6. QED
  BY <1>4, <1>5 DEF ExecuteLogin

LEMMA ChainRoute == ASSUME TypeOK, HandInv, ChainInv, NEW c \in Conn, RouteClient(c) PROVE ChainInv'
<1>1. /\ UNCHANGED <<pc, current, reply, old, slot, registry, loggedIn, sending, view>>
      /\ pc = "route"
  BY DEF RouteClient, ioVars, clientVars
<1>2. CASE Enqueue(c, [type |-> "client_action"])
  <2>1. [type |-> "client_action"] \in OutboundMessages /\ ~BearsState([type |-> "client_action"])
    BY DEF OutboundMessages, Events, BearsState
  <2>2. QED
    BY <1>1, <1>2, <2>1, InformedOther
<1>3. CASE UNCHANGED <<closing, channel>>
  <2> SUFFICES ASSUME NEW x \in Conn, pc' \in Serving, ~closing'[x] PROVE Informed(x)'
    BY DEF ChainInv
  <2>1. Informed(x) /\ Stream(x)' = Stream(x)
    BY <1>1, <1>3 DEF ChainInv, Stream
  <2>2. (Joining(x)' <=> Joining(x)) /\ Reached(x)' = Reached(x)
    BY <1>1 DEF Joining, Reached
  <2>3. QED
    BY <1>1, <2>1, <2>2, InformedMove
<1>4. QED
  BY <1>2, <1>3 DEF RouteClient

LEMMA ChainClose == ASSUME TypeOK, ChainInv, ExecuteClose PROVE ChainInv'
<1> SUFFICES ASSUME NEW x \in Conn, pc' \in Serving, ~closing'[x] PROVE Informed(x)'
  BY DEF ChainInv
<1>1. /\ BeginClose(current.conn) /\ registry' = registry \ {current.conn}
      /\ pc = "recheck" /\ pc' = "wait" /\ UNCHANGED <<slot, sending, view, loggedIn>>
  BY DEF ExecuteClose, Starts, ioVars, clientVars
<1>2. ~closing[x] /\ channel'[x] = channel[x]
  BY <1>1 DEF BeginClose, TypeOK, ConnectionType
<1>3. Informed(x) /\ Stream(x)' = Stream(x)
  BY <1>1, <1>2 DEF ChainInv, Stream, Serving
<1>4. ~Joining(x)' /\ ~Joining(x) /\ Reached(x)' = Reached(x)
  BY <1>1 DEF Joining, Reached
<1>5. QED
  BY <1>1, <1>3, <1>4, InformedMove

\* The boundary does not move for anyone when the response is queued: either
\* publish_server_state is going to visit the session, or nothing changed.
LEMMA PresentBoundary ==
  ASSUME TypeOK, Present, NEW x \in Conn
  PROVE  ~Joining(x)' /\ (x \in registry => Reached(x)' = Reached(x))
<1>1. /\ pc = "present" /\ pc' \in {"barrier", "publish"}
      /\ UNCHANGED <<current, old, slot, registry>>
      /\ targets' = IF current.type = "request" /\ old # slot.state THEN registry ELSE {}
  BY DEF Present
<1>2. ~Joining(x)'
  BY <1>1 DEF Joining
<1>3. ASSUME x \in registry PROVE Reached(x)' = Reached(x)
  <2>1. CASE current.type = "request"
    BY <1>1, <1>3, <2>1 DEF Reached
  <2>2. CASE current.type # "request"
    BY <1>1, <2>2 DEF Reached
  <2>3. QED
    BY <2>1, <2>2
<1>4. QED
  BY <1>2, <1>3

LEMMA ChainPresent ==
  ASSUME TypeOK, ReplyInv, SessionInv, PayloadInv, HandInv, ChainInv, Present PROVE ChainInv'
<1> SUFFICES ASSUME NEW x \in Conn, pc' \in Serving, ~closing'[x] PROVE Informed(x)'
  BY DEF ChainInv
<1> DEFINE c == current.conn
<1>1. /\ UNCHANGED <<current, old, slot, registry, loggedIn, sending, view>>
      /\ pc = "present" /\ pc \in Serving
  BY DEF Present, ioVars, clientVars, Serving
<1>2. ~Joining(x)' /\ (x \in registry => Reached(x)' = Reached(x))
  BY PresentBoundary
<1>3. ASSUME ~closing[x], Stream(x)' = Stream(x), ~Joining(x) PROVE Informed(x)'
  BY <1>1, <1>2, <1>3, InformedMove DEF ChainInv
<1>4. CASE c = Console
  <2>1. reply = None
    BY <1>1, <1>4 DEF ReplyInv
  <2>2. UNCHANGED <<closing, channel>>
    BY <2>1 DEF Present
  <2>3. ~Joining(x)
    BY <1>4, NamesAssumption DEF Joining
  <2>4. Stream(x)' = Stream(x)
    BY <1>1, <2>2 DEF Stream
  <2>5. QED
    BY <1>3, <2>2, <2>3, <2>4
<1>5. CASE c # Console
  <2>1. c \in Conn
    BY <1>5, MessageFields DEF TypeOK, QueueType
  <2>2. reply \in Responses /\ reply \in OutboundMessages /\ reply # None
    BY <1>1, <1>5, NoneAssumption DEF ReplyInv, OutboundMessages
  <2>3. Enqueue(c, reply)
    BY <2>2 DEF Present
  <2>4. ~closing[x] /\ Stream(x)' = IF x = c THEN Append(Stream(x), reply) ELSE Stream(x)
    BY <1>1, <2>1, <2>2, <2>3, StreamEnqueue
  <2>5. Informed(x) /\ Stream(x) \in Seq(OutboundMessages)
    BY <1>1, <2>4, StreamType DEF ChainInv
  <2>6. CASE x # c
    BY <1>3, <2>4, <2>6 DEF Joining
  <2>7. CASE x = c /\ reply.state = NoState
    <3>1. ~BearsState(reply) /\ ~Joining(x)
      BY <2>2, <2>7 DEF BearsState, Joining, Responses
    <3>2. /\ News(Stream(x)') = News(Stream(x))
          /\ \A v, e : Chain(Stream(x), v, e) => Chain(Stream(x)', v, e)
      BY <2>2, <2>4, <2>5, <2>7, <3>1, ChainAppendOther
    <3>3. QED
      BY <1>1, <1>2, <2>5, <3>1, <3>2 DEF Informed, Untold
  <2>8. CASE x = c /\ reply.state # NoState
    <3>1. /\ reply.state = slot.state
          /\ \/ current.type = "request" /\ old = slot.state
             \/ current.type = "login"
      BY <1>1, <2>1, <2>8 DEF PayloadInv
    <3>2. BearsState(reply) /\ Told(reply) = slot.state
      BY <2>2, <2>8, <3>1 DEF BearsState, Told, Responses
    <3>3. Follows(reply, NoState) /\ Follows(reply, slot.state)
      BY <2>2, <3>1 DEF Follows, Responses
    <3>4. CASE current.type = "login"
      <4>1. Joining(x)
        BY <1>1, <2>8, <3>4 DEF Joining
      <4>2. loggedIn[x] /\ Untold(x)
        BY <2>5, <4>1 DEF HandInv, Informed
      <4>3. Chain(Stream(x), view[x].state, NoState)
        BY <4>2 DEF Untold, Chain
      <4>4. Chain(Stream(x)', view[x].state, slot.state)
        BY <2>2, <2>4, <2>5, <2>8, <3>2, <3>3, <4>3, ChainAppendNews
      <4>5. Reached(x)' = slot.state \/ x \notin registry
        BY <1>1, <1>2, <3>4 DEF Reached
      <4>6. QED
        BY <1>1, <1>2, <4>2, <4>4, <4>5 DEF Informed
    <3>5. CASE current.type = "request" /\ old = slot.state
      <4>1. loggedIn[x] /\ ~Joining(x) /\ Reached(x) = slot.state
        BY <1>1, <2>1, <2>8, <3>5 DEF SessionInv, Joining, Reached
      <4>2. ASSUME x \in registry PROVE Chain(Stream(x)', view[x].state, slot.state)
        <5>1. Chain(Stream(x), view[x].state, slot.state)
          BY <2>5, <4>1, <4>2 DEF Informed
        <5>2. QED
          BY <2>2, <2>4, <2>5, <2>8, <3>2, <3>3, <5>1, ChainAppendNews
      <4>3. QED
        BY <1>1, <1>2, <4>1, <4>2 DEF Informed
    <3>6. QED
      BY <3>1, <3>4, <3>5
  <2>9. QED
    BY <2>6, <2>7, <2>8
<1>6. QED
  BY <1>4, <1>5

\* publish_server_state brings one session up to date.
LEMMA ChainPublish ==
  ASSUME TypeOK, SessionInv, ChainInv, NEW c \in Conn, PublishState(c) PROVE ChainInv'
<1> SUFFICES ASSUME NEW x \in Conn, pc' \in Serving, ~closing'[x] PROVE Informed(x)'
  BY DEF ChainInv
<1> DEFINE m == [type |-> "server_state", old |-> old, new |-> slot.state]
<1>1. /\ UNCHANGED <<pc, current, reply, old, slot, registry, loggedIn, sending, view>>
      /\ pc = "publish" /\ c \in targets /\ targets' = targets \ {c} /\ pc \in Serving
  BY DEF PublishState, ioVars, clientVars, Serving
<1>2. c \in registry /\ loggedIn[c]
  BY <1>1 DEF SessionInv
<1>3. m \in OutboundMessages /\ BearsState(m) /\ Told(m) = slot.state /\ Follows(m, old)
  BY DEF TypeOK, ServerType, Slots, OutboundMessages, Events, BearsState, Told, Follows
<1>4. Enqueue(c, m)
  BY <1>2 DEF PublishState
<1> HIDE DEF m
<1>5. ~closing[x] /\ Stream(x)' = IF x = c THEN Append(Stream(x), m) ELSE Stream(x)
  BY <1>1, <1>3, <1>4, StreamEnqueue
<1>6. Informed(x) /\ Stream(x) \in Seq(OutboundMessages)
  BY <1>1, <1>5, StreamType DEF ChainInv
<1>7. ~Joining(x) /\ ~Joining(x)'
  BY <1>1 DEF Joining
<1>8. CASE x # c
  <2>1. Reached(x)' = Reached(x)
    BY <1>1, <1>8 DEF Reached
  <2>2. QED
    BY <1>1, <1>5, <1>6, <1>7, <1>8, <2>1, InformedMove
<1>9. CASE x = c
  <2>1. Reached(x) = old /\ Reached(x)' = slot.state
    BY <1>1, <1>9 DEF Reached
  <2>2. Chain(Stream(x), view[x].state, old)
    BY <1>2, <1>6, <1>7, <1>9, <2>1 DEF Informed
  <2>3. Chain(Stream(x)', view[x].state, slot.state)
    BY <1>3, <1>5, <1>6, <1>9, <2>2, ChainAppendNews
  <2>4. QED
    BY <1>1, <1>2, <1>7, <1>9, <2>1, <2>3 DEF Informed
<1>10. QED
  BY <1>8, <1>9

LEMMA ChainServer ==
  ASSUME TypeOK, ReplyInv, SessionInv, PayloadInv, HandInv, ChainInv, ServerNext PROVE ChainInv'
<1>1. CASE \/ WaitPop \/ ExecuteRequest \/ ExecuteClient \/ RouteDone \/ FinishMessage
           \/ \E result \in {"written", "gave_up"} : BarrierEnds(result)
  BY <1>1, ChainQuiet
<1>2. CASE \/ WaitExpired \/ DropExpired \/ StopAccepting \/ Discard \/ StopEndpoint
           \/ JoinEndpoint \/ \E c \in Conn : CloseRegistered(c)
  BY <1>2 DEF WaitExpired, DropExpired, StopAccepting, Discard, StopEndpoint, JoinEndpoint,
              CloseRegistered, ChainInv, Serving
<1>3. CASE ExecuteLogin \/ ExecuteClose \/ Present
  BY <1>3, ChainLogin, ChainClose, ChainPresent
<1>4. CASE \E c \in Conn : RouteClient(c) \/ PublishState(c)
  BY <1>4, ChainRoute, ChainPublish
<1>5. QED
  BY <1>1, <1>2, <1>3, <1>4 DEF ServerNext

LEMMA ChainOthers ==
  ASSUME ChainInv, ConsoleSubmit \/ LeaseExpires \/ UNCHANGED vars PROVE ChainInv'
<1>1. /\ UNCHANGED <<pc, current, reply, targets, old, slot, registry, loggedIn, view>>
      /\ UNCHANGED <<closing, channel, sending>>
  BY DEF ConsoleSubmit, LeaseExpires, vars, serverVars, ioVars, clientVars
<1>2. \A c : Stream(c)' = Stream(c)
  BY <1>1 DEF Stream
<1>3. QED
  BY <1>1, <1>2, InformedFrame DEF ChainInv

-----------------------------------------------------------------------------
(***************************************************************************)
(* The theorem                                                             *)
(***************************************************************************)

StreamInv == SessionInv /\ PayloadInv /\ HandInv /\ ChainInv

LEMMA StreamInit == ASSUME Init PROVE StreamInv
<1>1. /\ pc = "wait" /\ registry = {} /\ queue = <<>> /\ current.type # "request"
      /\ \A c \in Conn : sending[c] = None /\ channel[c] = <<>> /\ view[c].state = NoState
  BY DEF Init, NoMessage, ControlMessage
<1>2. ASSUME NEW c \in Conn PROVE Informed(c)
  <2>1. Stream(c) = <<>>
    BY <1>1 DEF Stream
  <2>2. News(Stream(c)) = {}
    BY <2>1 DEF News
  <2>3. QED
    BY <1>1, <2>2 DEF Informed, Untold
<1>3. QED
  BY <1>1, <1>2 DEF StreamInv, SessionInv, PayloadInv, HandInv, Joining, ChainInv

LEMMA StreamStep ==
  ASSUME TypeOK, ReplyInv, StreamInv, [Next]_vars PROVE StreamInv'
<1>1. SessionInv'
  BY SessionIo, SessionServer, SessionOthers DEF StreamInv, Next, Terminated
<1>2. PayloadInv' /\ HandInv'
  BY PayloadStep, HandStep DEF StreamInv
<1>3. ChainInv'
  BY ChainIo, ChainServer, ChainOthers DEF StreamInv, Next, Terminated
<1>4. QED
  BY <1>1, <1>2, <1>3 DEF StreamInv

LEMMA StreamMeans == ASSUME TypeOK, StreamInv PROVE LoginBoundary
<1> SUFFICES ASSUME NEW c \in registry, ~closing[c],
                    pc \in {"wait", "recheck"} \/ (pc = "publish" /\ c \notin targets)
             PROVE  Chain(Stream(c), view[c].state, slot.state)
  BY DEF LoginBoundary, UnbrokenChain
<1>1. c \in Conn /\ pc \in Serving
  BY DEF TypeOK, ServerType, Serving
<1>2. ~Joining(c) /\ Reached(c) = slot.state
  BY DEF Joining, Reached
<1>3. QED
  BY <1>1, <1>2 DEF StreamInv, ChainInv, Informed

\* For every set of connections, every channel capacity and every interleaving
\* of the control thread with the writer: a session misses no state change
\* after LOGIN (execute_login, publish_server_state).
THEOREM SessionsMissNoChange == Spec => []LoginBoundary
<1>1. Init => StreamInv
  BY StreamInit
<1>2. TypeOK /\ ReplyInv /\ StreamInv /\ [Next]_vars => StreamInv'
  BY StreamStep
<1>3. TypeOK /\ StreamInv => LoginBoundary
  BY StreamMeans
<1>4. QED
  BY <1>1, <1>2, <1>3, TypeCorrect, FreshInvariant, PTL DEF Spec
=============================================================================
