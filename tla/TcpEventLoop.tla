---------------------------- MODULE TcpEventLoop ----------------------------
(***************************************************************************)
(* One pass of the event loop of a TCP endpoint                            *)
(* (tcp_endpoint::implementation::run) against its sockets, the wake-up    *)
(* socket and the control thread.  Communication lets any peer fail at any *)
(* time; this module asks how the loop finds out: which peer an entry of   *)
(* the poll vector is applied to, and whether a wake-up can be lost.       *)
(***************************************************************************)
EXTENDS Integers, Sequences, FiniteSets, SequencesExt

CONSTANTS
  Conn,            \* client sockets, each used once
  ConnectionLimit, \* tcp_connection_gate::limit
  OutputBudget,    \* bound: messages the control thread enqueues per connection
  MaxElsewhere,    \* bound: connections of the other TCP endpoints, which share the gate
  PollMayFail,     \* may poll() return an error?
  Readers          \* the clients that keep reading

ASSUME LimitAssumption ==
  ConnectionLimit \in Nat /\ OutputBudget \in Nat /\ MaxElsewhere \in Nat
ASSUME PollAssumption == PollMayFail \in BOOLEAN
ASSUME ReadersAssumption == Readers \subseteq Conn

(***************************************************************************)
(* External: a client socket.  outside: not connected; backlog: waiting in *)
(* the listener; quiet; data: complete frames to read; ended: end of       *)
(* stream or a malformed frame; reset: the connection failed; closed: the  *)
(* endpoint closed it; refused: closed without ever becoming a peer.       *)
(***************************************************************************)
SocketStates == {"outside", "backlog", "quiet", "data", "ended", "reset", "closed", "refused"}

VARIABLES
  pc,        \* where run() is
  peers,     \* implementation::peers
  polled,    \* the poll vector: revents of the wake-up socket, listener and peers
  index,     \* the peer loop's index
  count,     \* the peer loop's peer_count
  sock,      \* external: the sockets
  buffer,    \* peer::send_buffer is not empty
  queued,    \* messages in the outbound channel
  enqueued,  \* messages enqueued so far (for the bound)
  closing,   \* communication_connection::closing
  posted,    \* close messages posted for the connection
  gate,      \* tcp_connection_gate::active
  elsewhere, \* slots of the gate held by the peers of the other TCP endpoints
  wake,      \* a datagram waits in the wake-up socket
  stopping   \* implementation::stopping

loopVars == <<pc, peers, polled, index, count>>
vars == <<loopVars, sock, buffer, queued, enqueued, closing, posted, gate, elsewhere, wake, stopping>>

Flags == {"in", "out", "err"}

\* The type invariant.
TypeOK ==
  /\ pc \in {"top", "poll", "drain", "accept", "peers", "exited", "stopped"}
  /\ peers \in Seq(Conn)
  /\ polled \in [wake : BOOLEAN, listener : BOOLEAN, peers : Seq(SUBSET Flags)]
  /\ index \in Nat \ {0}
  /\ count \in Nat
  /\ sock \in [Conn -> SocketStates]
  /\ buffer \in [Conn -> BOOLEAN]
  /\ queued \in [Conn -> Nat]
  /\ enqueued \in [Conn -> Nat]
  /\ closing \in [Conn -> BOOLEAN]
  /\ posted \in [Conn -> Nat]
  /\ gate \in Nat /\ elsewhere \in 0..MaxElsewhere
  /\ wake \in BOOLEAN
  /\ stopping \in BOOLEAN

NothingPolled == [wake |-> FALSE, listener |-> FALSE, peers |-> <<>>]

Init ==
  /\ pc = "top"
  /\ peers = <<>>
  /\ polled = NothingPolled
  /\ index = 1
  /\ count = 0
  /\ sock = [c \in Conn |-> "outside"]
  /\ buffer = [c \in Conn |-> FALSE]
  /\ queued = [c \in Conn |-> 0]
  /\ enqueued = [c \in Conn |-> 0]
  /\ closing = [c \in Conn |-> FALSE]
  /\ posted = [c \in Conn |-> 0]
  /\ gate = 0 /\ elsewhere = 0
  /\ wake = FALSE
  /\ stopping = FALSE

IsPeer(c) == \E i \in DOMAIN peers : peers[i] = c

-----------------------------------------------------------------------------
(***************************************************************************)
(* The event loop                                                          *)
(***************************************************************************)

\* The loop condition: the worker ends when stop() was requested.
LoopEnds ==
  /\ pc = "top" /\ stopping
  /\ pc' = "exited"
  /\ UNCHANGED <<peers, polled, index, count, sock, buffer, queued, enqueued, closing,
                 posted, gate, wake, stopping, elsewhere>>

\* Mutant: the loop over the peers ends at the first busy one.
PrepareOutput_StopsAtBusy ==
  /\ pc = "top" /\ ~stopping
  /\ LET free(i) == ~buffer[peers[i]] /\ ~closing[peers[i]] /\ queued[peers[i]] > 0
         ready == {peers[i] : i \in {j \in DOMAIN peers : \A k \in 1..j : free(k)}}
     IN  /\ buffer' = [c \in Conn |-> buffer[c] \/ c \in ready]
         /\ queued' = [c \in Conn |-> IF c \in ready THEN queued[c] - 1 ELSE queued[c]]
  /\ pc' = "poll"
  /\ UNCHANGED <<peers, polled, index, count, sock, enqueued, closing, posted, gate, wake,
                 stopping, elsewhere>>

\* prepare_output: fill every empty send buffer.  The messages of the peers in
\* tooLarge do not encode into one frame, so their connections close.
PrepareOutput ==
  /\ pc = "top" /\ ~stopping
  /\ LET ready == {c \in Conn : IsPeer(c) /\ ~buffer[c] /\ ~closing[c] /\ queued[c] > 0}
     IN  \E tooLarge \in SUBSET ready :
           /\ buffer' = [c \in Conn |-> buffer[c] \/ c \in ready \ tooLarge]
           /\ queued' = [c \in Conn |-> CASE c \in tooLarge -> 0
                                          [] c \in ready \ tooLarge -> queued[c] - 1
                                          [] OTHER -> queued[c]]
           /\ closing' = [c \in Conn |-> closing[c] \/ c \in tooLarge]
           /\ wake' = (wake \/ tooLarge # {})
  /\ pc' = "poll"
  /\ UNCHANGED <<peers, polled, index, count, sock, enqueued, posted, gate, stopping, elsewhere>>

\* revents of one peer: readable, writable if it asked for it, failed.
Revents(c) ==
  (IF sock[c] \in {"data", "ended"} THEN {"in"} ELSE {})
    \cup (IF buffer[c] /\ sock[c] # "reset" THEN {"out"} ELSE {})
    \cup (IF sock[c] = "reset" THEN {"err"} ELSE {})

Descriptors ==
  [wake |-> wake,
   listener |-> \E c \in Conn : sock[c] = "backlog",
   peers |-> [i \in DOMAIN peers |-> Revents(peers[i])]]

SomeEvent(d) == d.wake \/ d.listener \/ \E i \in DOMAIN d.peers : d.peers[i] # {}

\* poll() returns a positive count.
PollEvents ==
  /\ pc = "poll"
  /\ SomeEvent(Descriptors)
  /\ polled' = Descriptors
  /\ pc' = "drain"
  /\ UNCHANGED <<peers, index, count, sock, buffer, queued, enqueued, closing, posted,
                 gate, wake, stopping, elsewhere>>

\* poll() returns zero after one second: the pass skips the peer loop.
PollTimeout ==
  /\ pc = "poll"
  /\ ~SomeEvent(Descriptors)
  /\ pc' = "top"
  /\ UNCHANGED <<peers, polled, index, count, sock, buffer, queued, enqueued, closing,
                 posted, gate, wake, stopping, elsewhere>>

\* poll() returns an error: the worker ends.
PollFails ==
  /\ pc = "poll"
  /\ PollMayFail
  /\ pc' = "exited"
  /\ UNCHANGED <<peers, polled, index, count, sock, buffer, queued, enqueued, closing,
                 posted, gate, wake, stopping, elsewhere>>

\* drain_wakeup
Drain ==
  /\ pc = "drain"
  /\ wake' = (wake /\ ~polled.wake)
  /\ pc' = IF polled.listener THEN "accept" ELSE "peers"
  /\ count' = Len(peers)
  /\ index' = 1
  /\ UNCHANGED <<peers, polled, sock, buffer, queued, enqueued, closing, posted, gate,
                 stopping, elsewhere>>

\* accept_peers: one accepted socket; one the gate refuses is closed at once.
AcceptPeer(c) ==
  /\ pc = "accept"
  /\ sock[c] = "backlog"
  /\ IF gate < ConnectionLimit
     THEN /\ gate' = gate + 1
          /\ peers' = Append(peers, c)
          /\ sock' = [sock EXCEPT ![c] = "quiet"]
     ELSE /\ sock' = [sock EXCEPT ![c] = "refused"]
          /\ UNCHANGED <<gate, peers, elsewhere>>
  /\ UNCHANGED <<pc, polled, index, count, buffer, queued, enqueued, closing, posted, wake,
                 stopping, elsewhere>>

\* accept() would block: the peer loop starts with the peers there are now.
AcceptDone ==
  /\ pc = "accept"
  /\ \A c \in Conn : sock[c] # "backlog"
  /\ count' = Len(peers)
  /\ pc' = "peers"
  /\ UNCHANGED <<peers, polled, index, sock, buffer, queued, enqueued, closing, posted, gate,
                 wake, stopping, elsewhere>>

\* The peer loop goes on: index is below peer_count, inside peers and inside
\* the poll vector.
InRange == index <= count /\ index <= Len(peers) /\ index <= Len(polled.peers)

\* receive() returns true: everything that arrived was read and well formed.
ReceiveOk(c) == sock[c] \in {"quiet", "data"}

\* send() of a non-empty buffer: what the socket may do with it.
SendFails(c) == buffer[c] /\ sock[c] \in {"ended", "reset"}
SendBlocks(c) == buffer[c] /\ sock[c] # "reset"
SendFinishes(c) == buffer[c] => sock[c] # "reset"

\* Mutant: the erase runs after the index was advanced.
CloseAndErase_WrongIndex(c) ==
  /\ closing' = [closing EXCEPT ![c] = TRUE]
  /\ queued' = [queued EXCEPT ![c] = 0]
  /\ buffer' = [buffer EXCEPT ![c] = FALSE]
  /\ sock' = [sock EXCEPT ![c] = "closed"]
  /\ posted' = [posted EXCEPT ![c] = @ + 1]
  /\ gate' = gate - 1
  /\ wake' = TRUE
  /\ peers' = RemoveAt(peers, IF index < Len(peers) THEN index + 1 ELSE index)
  /\ UNCHANGED index

\* close_peer(value, true) and the erase: index stays where it is.
CloseAndErase(c) ==
  /\ closing' = [closing EXCEPT ![c] = TRUE]
  /\ queued' = [queued EXCEPT ![c] = 0]
  /\ buffer' = [buffer EXCEPT ![c] = FALSE]
  /\ sock' = [sock EXCEPT ![c] = "closed"]
  /\ posted' = [posted EXCEPT ![c] = @ + 1]
  /\ gate' = gate - 1
  /\ wake' = TRUE
  /\ peers' = RemoveAt(peers, index)
  /\ UNCHANGED index

\* The peer at index takes the events of the entry at index.  It is dead after
\* an error event, a failed receive(), a failed send_pending(), a next message
\* that does not encode, or when its connection is closing.
VisitDead ==
  /\ pc = "peers" /\ InRange
  /\ LET c == peers[index]
         events == polled.peers[index]
     IN  /\ \/ "err" \in events
            \/ "in" \in events /\ ~ReceiveOk(c)
            \/ "out" \in events /\ SendFails(c)
            \/ "out" \in events /\ SendFinishes(c) /\ queued[c] > 0
            \/ closing[c]
         /\ CloseAndErase(c)
  /\ UNCHANGED <<pc, polled, count, enqueued, stopping, elsewhere>>

\* It stays alive: receive() empties the socket.
StaysAlive(c, events) ==
  /\ "err" \notin events
  /\ "in" \in events => ReceiveOk(c)
  /\ ~closing[c]
  /\ sock' = IF "in" \in events THEN [sock EXCEPT ![c] = "quiet"] ELSE sock
  /\ index' = index + 1

\* No write event, or a send that would block.
VisitIdle ==
  /\ pc = "peers" /\ InRange
  /\ LET c == peers[index]
         events == polled.peers[index]
     IN  /\ StaysAlive(c, events)
         /\ "out" \in events => SendBlocks(c)
  /\ UNCHANGED <<pc, peers, polled, count, buffer, queued, enqueued, closing, posted, gate,
                 wake, stopping, elsewhere>>

\* send_pending() reaches the end of the buffer and takes the next message.
VisitSend(c) ==
  /\ pc = "peers" /\ InRange
  /\ c = peers[index]
  /\ "out" \in polled.peers[index] /\ SendFinishes(c)
  /\ StaysAlive(c, polled.peers[index])
  /\ buffer' = [buffer EXCEPT ![c] = queued[c] > 0]
  /\ queued' = [queued EXCEPT ![c] = IF @ > 0 THEN @ - 1 ELSE 0]
  /\ UNCHANGED <<pc, peers, polled, count, enqueued, closing, posted, gate, wake, stopping, elsewhere>>

PassDone ==
  /\ pc = "peers" /\ ~InRange
  /\ pc' = "top"
  /\ polled' = NothingPolled
  /\ index' = 1
  /\ count' = 0
  /\ UNCHANGED <<peers, sock, buffer, queued, enqueued, closing, posted, gate, wake, stopping, elsewhere>>

LoopNext ==
  \/ LoopEnds \/ PrepareOutput \/ PollEvents \/ PollTimeout \/ PollFails
  \/ Drain \/ AcceptDone \/ VisitDead \/ VisitIdle \/ PassDone
  \/ \E c \in Conn : AcceptPeer(c) \/ VisitSend(c)

-----------------------------------------------------------------------------
(***************************************************************************)
(* The clients and the control thread                                      *)
(***************************************************************************)

\* The client connects, sends frames, half-closes or sends garbage, or fails.
ClientMoves(c) ==
  /\ \/ sock[c] = "outside" /\ sock' = [sock EXCEPT ![c] = "backlog"]
     \/ sock[c] = "quiet" /\ sock' = [sock EXCEPT ![c] = "data"]
     \/ sock[c] \in {"quiet", "data"} /\ sock' = [sock EXCEPT ![c] = "ended"]
     \/ sock[c] \in {"quiet", "data", "ended"} /\ sock' = [sock EXCEPT ![c] = "reset"]
  /\ pc # "stopped"
  /\ UNCHANGED <<loopVars, buffer, queued, enqueued, closing, posted, gate, wake, stopping, elsewhere>>

\* enqueue_*(): the message, then notify_transport().
Enqueue(c) ==
  /\ IsPeer(c) /\ ~closing[c]
  /\ enqueued[c] < OutputBudget
  /\ enqueued' = [enqueued EXCEPT ![c] = @ + 1]
  /\ queued' = [queued EXCEPT ![c] = @ + 1]
  /\ wake' = TRUE
  /\ UNCHANGED <<loopVars, sock, buffer, closing, posted, gate, stopping, elsewhere>>

\* Mutant: begin_close() without its notify_transport().
BeginClose_NoWake(c) ==
  /\ IsPeer(c) /\ ~closing[c]
  /\ closing' = [closing EXCEPT ![c] = TRUE]
  /\ queued' = [queued EXCEPT ![c] = 0]
  /\ UNCHANGED <<loopVars, sock, buffer, enqueued, posted, gate, wake, stopping, elsewhere>>

\* begin_close() by the control thread, or by expire_peers() in DEMO mode.
BeginClose(c) ==
  /\ IsPeer(c) /\ ~closing[c]
  /\ closing' = [closing EXCEPT ![c] = TRUE]
  /\ queued' = [queued EXCEPT ![c] = 0]
  /\ wake' = TRUE
  /\ UNCHANGED <<loopVars, sock, buffer, enqueued, posted, gate, stopping, elsewhere>>

\* Another endpoint takes a slot of the shared gate, or gives one back.
ElsewhereAccepts ==
  /\ pc # "stopped" /\ elsewhere < MaxElsewhere
  /\ gate < ConnectionLimit
  /\ gate' = gate + 1 /\ elsewhere' = elsewhere + 1
  /\ UNCHANGED <<loopVars, sock, buffer, queued, enqueued, closing, posted, wake, stopping>>

ElsewhereCloses ==
  /\ pc # "stopped" /\ elsewhere > 0
  /\ gate' = gate - 1 /\ elsewhere' = elsewhere - 1
  /\ UNCHANGED <<loopVars, sock, buffer, queued, enqueued, closing, posted, wake, stopping>>

\* tcp_endpoint::stop(), the request and its wake().
RequestStop ==
  /\ ~stopping
  /\ stopping' = TRUE
  /\ wake' = TRUE
  /\ UNCHANGED <<loopVars, sock, buffer, queued, enqueued, closing, posted, gate, elsewhere>>

\* ... and after the join: close_peer(value, false) for every peer left.
StopJoins ==
  /\ pc = "exited" /\ stopping
  /\ closing' = [c \in Conn |-> closing[c] \/ IsPeer(c)]
  /\ queued' = [c \in Conn |-> IF IsPeer(c) THEN 0 ELSE queued[c]]
  /\ buffer' = [c \in Conn |-> FALSE]
  /\ sock' = [c \in Conn |-> CASE IsPeer(c) -> "closed"
                               [] sock[c] = "backlog" -> "refused"
                               [] OTHER -> sock[c]]
  /\ gate' = gate - Len(peers)
  /\ peers' = <<>>
  /\ pc' = "stopped"
  /\ UNCHANGED <<polled, index, count, enqueued, posted, wake, stopping, elsewhere>>

Stopped == pc = "stopped" /\ UNCHANGED vars

Next ==
  \/ LoopNext
  \/ \E c \in Conn : ClientMoves(c) \/ Enqueue(c) \/ BeginClose(c)
  \/ ElsewhereAccepts \/ ElsewhereCloses
  \/ RequestStop \/ StopJoins \/ Stopped

Spec == Init /\ [][Next]_vars

(***************************************************************************)
(* Fairness.  The worker thread keeps running: poll() returns after one    *)
(* second at the latest.  The clients in Readers read what is sent to      *)
(* them, so their sends finish; the others may never read.                 *)
(***************************************************************************)
FairSpec ==
  /\ Spec
  /\ WF_vars(LoopNext) /\ WF_vars(StopJoins)
  /\ \A c \in Readers : SF_vars(VisitSend(c))

-----------------------------------------------------------------------------
(***************************************************************************)
(* Properties                                                              *)
(***************************************************************************)

OpenSockets == {c \in Conn : sock[c] \in {"quiet", "data", "ended", "reset"}}

\* The peer table, the sockets, the gate and the posted close messages agree
\* whatever the pass has erased so far: the table holds each open socket once,
\* each entry occupies one slot of the shared gate, and every connection that left it in the loop
\* posted its close message exactly once (accept_peers, close_peer, the erase).
PeerTableExact ==
  /\ ToSet(peers) = OpenSockets
  /\ Len(peers) = Cardinality(OpenSockets) /\ gate = Len(peers) + elsewhere
  /\ gate <= ConnectionLimit
  /\ pc # "stopped" => \A c \in Conn : posted[c] = IF sock[c] = "closed" THEN 1 ELSE 0

\* A peer leaves the loop only for a reason of its own: its socket failed or
\* ended, its connection is closing, or its own next message did not encode.
ClosedForCause ==
  [][\A c \in Conn :
       sock[c] # "closed" /\ sock'[c] = "closed" =>
         sock[c] \in {"ended", "reset"} \/ closing[c] \/ queued[c] > 0 \/ stopping]_vars

\* A peer whose socket failed or whose connection another thread closed is
\* removed, even if no descriptor of it ever becomes ready: the wake-up of
\* begin_close() is not lost (drain_wakeup runs before the peer loop).
FailedIsClosed ==
  \A c \in Conn :
    (IsPeer(c) /\ (closing[c] \/ sock[c] \in {"ended", "reset"}))
      ~> (~IsPeer(c) \/ pc = "exited")

\* A client that reads gets its queued output even if another client never
\* reads again (prepare_output skips a busy peer and goes on).
OutputSent ==
  \A c \in Readers :
    (queued[c] > 0 \/ buffer[c])
      ~> ((queued[c] = 0 /\ ~buffer[c]) \/ closing[c] \/ pc = "exited")

=============================================================================
