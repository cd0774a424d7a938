------------------------- MODULE TcpEventLoopProofs -------------------------
(***************************************************************************)
(* The peer table of the TCP event loop: type correctness and              *)
(* PeerTableExact, for any set of sockets, any limit and any traffic of    *)
(* the other endpoints on the shared gate.                                 *)
(***************************************************************************)
EXTENDS TcpEventLoop, FiniteSetTheorems, SequenceTheorems, TLAPS

(***************************************************************************)
(* The inductive invariant.  Type correctness needs the table: the gate    *)
(* stays a natural number because every erased peer occupies a slot of it. *)
(***************************************************************************)

\* The table holds no socket twice.
Distinct(s) == \A i, j \in DOMAIN s : s[i] = s[j] => i = j

PostedOnce == pc # "stopped" => \A c \in Conn : posted[c] = IF sock[c] = "closed" THEN 1 ELSE 0

TableInv ==
  /\ Distinct(peers)
  /\ ToSet(peers) = OpenSockets
  /\ IsFiniteSet(OpenSockets) /\ Cardinality(OpenSockets) = Len(peers)
  /\ gate = Len(peers) + elsewhere
  /\ gate <= ConnectionLimit
  /\ PostedOnce

LoopInv == TypeOK /\ TableInv

Open == {"quiet", "data", "ended", "reset"}

-----------------------------------------------------------------------------
(***************************************************************************)
(* Tables                                                                  *)
(***************************************************************************)

\* push_back of a new element.
LEMMA AppendTable ==
  ASSUME NEW S, NEW s \in Seq(S), NEW e \in S, Distinct(s), e \notin ToSet(s)
  PROVE  /\ Append(s, e) \in Seq(S) /\ Len(Append(s, e)) = Len(s) + 1
         /\ Distinct(Append(s, e)) /\ ToSet(Append(s, e)) = ToSet(s) \cup {e}
<1> DEFINE t == Append(s, e)
<1>1. /\ t \in Seq(S) /\ Len(t) = Len(s) + 1 /\ Len(s) \in Nat
      /\ DOMAIN s = 1..Len(s) /\ DOMAIN t = 1..(Len(s) + 1)
      /\ t[Len(s) + 1] = e /\ \A i \in 1..Len(s) : t[i] = s[i]
  BY AppendProperties
<1>2. \A i \in DOMAIN s : s[i] # e
  BY DEF ToSet
<1> HIDE DEF t
<1>3. \A i \in DOMAIN t : i = Len(s) + 1 \/ i \in DOMAIN s
  BY <1>1
<1>4. Distinct(t)
  BY <1>1, <1>2, <1>3 DEF Distinct
<1>5. ToSet(t) = ToSet(s) \cup {e}
  <2>1. ASSUME NEW x \in ToSet(t) PROVE x \in ToSet(s) \cup {e}
    <3>1. PICK i \in DOMAIN t : x = t[i]
      BY DEF ToSet
    <3>2. QED
      BY <1>1, <1>3, <3>1 DEF ToSet
  <2>2. ASSUME NEW x \in ToSet(s) PROVE x \in ToSet(t)
    <3>1. PICK i \in DOMAIN s : x = s[i]
      BY DEF ToSet
    <3>2. i \in DOMAIN t /\ t[i] = x
      BY <1>1, <3>1
    <3>3. QED
      BY <3>2 DEF ToSet
  <2>3. e \in ToSet(t)
    <3>1. Len(s) + 1 \in DOMAIN t
      BY <1>1
    <3>2. QED
      BY <1>1, <3>1 DEF ToSet
  <2>4. QED
    BY <2>1, <2>2, <2>3
<1>6. QED
  BY <1>1, <1>4, <1>5 DEF t

\* erase of one position.
LEMMA RemoveTable ==
  ASSUME NEW S, NEW s \in Seq(S), NEW n \in DOMAIN s, Distinct(s)
  PROVE  /\ RemoveAt(s, n) \in Seq(S) /\ Len(RemoveAt(s, n)) = Len(s) - 1
         /\ Distinct(RemoveAt(s, n)) /\ ToSet(RemoveAt(s, n)) = ToSet(s) \ {s[n]}
<1> DEFINE t == RemoveAt(s, n)
           p == SubSeq(s, 1, n - 1)
           q == SubSeq(s, n + 1, Len(s))
<1>1. DOMAIN s = 1..Len(s) /\ Len(s) \in Nat /\ n \in 1..Len(s) /\ \A i \in 1..Len(s) : s[i] \in S
  OBVIOUS
<1>2. /\ p \in Seq(S) /\ Len(p) = n - 1
      /\ \A i \in 1..(n - 1) : p[i] = s[i]
  <2>1. 1 \in Int /\ n - 1 \in Int /\ \A i \in 1..(n - 1) : s[i] \in S
    BY <1>1
  <2>2. /\ p \in Seq(S) /\ Len(p) = IF 1 <= n - 1 THEN (n - 1) - 1 + 1 ELSE 0
        /\ \A i \in 1..((n - 1) - 1 + 1) : p[i] = s[1 + i - 1]
    BY <2>1, SubSeqProperties
  <2> HIDE DEF p
  <2>3. QED
    BY <1>1, <2>2
<1>3. /\ q \in Seq(S) /\ Len(q) = Len(s) - n
      /\ \A i \in 1..(Len(s) - n) : q[i] = s[n + i]
  <2>1. n + 1 \in Int /\ Len(s) \in Int /\ \A i \in (n + 1)..Len(s) : s[i] \in S
    BY <1>1
  <2>2. /\ q \in Seq(S) /\ Len(q) = IF n + 1 <= Len(s) THEN Len(s) - (n + 1) + 1 ELSE 0
        /\ \A i \in 1..(Len(s) - (n + 1) + 1) : q[i] = s[n + 1 + i - 1]
    BY <2>1, SubSeqProperties
  <2> HIDE DEF q
  <2>3. Len(q) = Len(s) - n
    BY <1>1, <2>2
  <2>4. ASSUME NEW i \in 1..(Len(s) - n) PROVE q[i] = s[n + i]
    <3>1. i \in 1..(Len(s) - (n + 1) + 1) /\ n + 1 + i - 1 = n + i
      BY <1>1
    <3>2. QED
      BY <2>2, <3>1
  <2>5. QED
    BY <2>2, <2>3, <2>4
<1>4. t = p \o q
  BY DEF RemoveAt
<1> HIDE DEF t, p, q
<1>5. /\ t \in Seq(S) /\ Len(t) = Len(s) - 1 /\ DOMAIN t = 1..(Len(s) - 1)
      /\ \A i \in 1..(Len(s) - 1) : t[i] = IF i <= Len(p) THEN p[i] ELSE q[i - Len(p)]
  <2>1. /\ t \in Seq(S) /\ Len(t) = Len(p) + Len(q)
        /\ \A i \in 1..(Len(p) + Len(q)) : t[i] = IF i <= Len(p) THEN p[i] ELSE q[i - Len(p)]
    BY <1>2, <1>3, <1>4, ConcatProperties
  <2>2. Len(p) + Len(q) = Len(s) - 1
    BY <1>1, <1>2, <1>3
  <2>3. QED
    BY <2>1, <2>2
<1>6. ASSUME NEW i \in 1..(Len(s) - 1) PROVE t[i] = IF i < n THEN s[i] ELSE s[i + 1]
  <2>1. CASE i < n
    <3>1. i \in 1..(n - 1) /\ i <= Len(p)
      BY <1>1, <1>2, <2>1
    <3>2. QED
      BY <1>2, <1>5, <2>1, <3>1
  <2>2. CASE ~(i < n)
    <3>1. /\ ~(i <= Len(p)) /\ i - Len(p) \in 1..(Len(s) - n) /\ n + (i - Len(p)) = i + 1
      BY <1>1, <1>2, <2>2
    <3>2. QED
      BY <1>3, <1>5, <2>2, <3>1
  <2>3. QED
    BY <2>1, <2>2
<1>7. Distinct(t)
  <2> SUFFICES ASSUME NEW i \in DOMAIN t, NEW j \in DOMAIN t, t[i] = t[j] PROVE i = j
    BY DEF Distinct
  <2> DEFINE f(k) == IF k < n THEN k ELSE k + 1
  <2>1. f(i) \in DOMAIN s /\ f(j) \in DOMAIN s /\ t[i] = s[f(i)] /\ t[j] = s[f(j)]
    BY <1>1, <1>5, <1>6
  <2>2. f(i) = f(j)
    BY <2>1 DEF Distinct
  <2>3. QED
    BY <1>1, <1>5, <2>2
<1>8. ToSet(t) = ToSet(s) \ {s[n]}
  <2>1. ASSUME NEW x \in ToSet(t) PROVE x \in ToSet(s) \ {s[n]}
    <3>1. PICK i \in DOMAIN t : x = t[i]
      BY DEF ToSet
    <3>2. PICK k \in DOMAIN s : x = s[k] /\ k # n
      <4>1. i \in 1..(Len(s) - 1) /\ t[i] = IF i < n THEN s[i] ELSE s[i + 1]
        BY <1>5, <1>6
      <4>2. CASE i < n
        <5>1. i \in 1..Len(s) /\ i # n
          BY <1>1, <4>1, <4>2
        <5>2. QED
          BY <1>1, <3>1, <4>1, <4>2, <5>1
      <4>3. CASE ~(i < n)
        <5>1. i + 1 \in 1..Len(s) /\ i + 1 # n
          BY <1>1, <4>1, <4>3
        <5>2. QED
          BY <1>1, <3>1, <4>1, <4>3, <5>1
      <4>4. QED
        BY <4>2, <4>3
    <3>3. QED
      BY <3>2 DEF ToSet, Distinct
  <2>2. ASSUME NEW x \in ToSet(s), x # s[n] PROVE x \in ToSet(t)
    <3>1. PICK k \in DOMAIN s : x = s[k]
      BY DEF ToSet
    <3>2. PICK i \in DOMAIN t : t[i] = x
      <4>1. CASE k < n
        <5>1. k \in DOMAIN t /\ t[k] = x
          BY <1>1, <1>5, <1>6, <3>1, <4>1
        <5>2. QED
          BY <5>1
      <4>2. CASE k > n
        <5>1. k - 1 \in DOMAIN t /\ t[k - 1] = x
          BY <1>1, <1>5, <1>6, <3>1, <4>2
        <5>2. QED
          BY <5>1
      <4>3. k # n
        BY <2>2, <3>1
      <4>4. QED
        BY <1>1, <4>1, <4>2, <4>3
    <3>3. QED
      BY <3>2 DEF ToSet
  <2>3. QED
    BY <2>1, <2>2
<1>9. QED
  BY <1>5, <1>7, <1>8 DEF t

-----------------------------------------------------------------------------
(***************************************************************************)
(* The peer table                                                          *)
(***************************************************************************)

\* A step that neither accepts nor closes a peer.
LEMMA TableFrame ==
  ASSUME TableInv, UNCHANGED <<peers, gate, elsewhere, posted>>,
         pc' # "stopped" => pc # "stopped",
         \A c \in Conn : /\ sock'[c] \in Open <=> sock[c] \in Open
                         /\ sock'[c] = "closed" <=> sock[c] = "closed"
  PROVE  TableInv'
<1>1. OpenSockets' = OpenSockets
  BY DEF OpenSockets, Open
<1>2. PostedOnce'
  BY DEF TableInv, PostedOnce
<1>3. QED
  BY <1>1, <1>2 DEF TableInv

LEMMA TableAccept == ASSUME TypeOK, TableInv, NEW c \in Conn, AcceptPeer(c) PROVE TableInv'
<1>1. /\ sock[c] = "backlog" /\ pc # "stopped" /\ UNCHANGED <<pc, elsewhere, posted>>
      /\ sock \in [Conn -> SocketStates] /\ peers \in Seq(Conn)
  BY DEF AcceptPeer, TypeOK
<1>2. CASE ~(gate < ConnectionLimit)
  <2>1. sock' = [sock EXCEPT ![c] = "refused"] /\ UNCHANGED <<gate, peers>>
    BY <1>2 DEF AcceptPeer
  <2>2. \A x \in Conn : /\ sock'[x] \in Open <=> sock[x] \in Open
                        /\ sock'[x] = "closed" <=> sock[x] = "closed"
    BY <1>1, <2>1 DEF Open
  <2>3. QED
    BY <1>1, <2>1, <2>2, TableFrame
<1>3. CASE gate < ConnectionLimit
  <2>1. /\ gate' = gate + 1 /\ peers' = Append(peers, c)
        /\ sock' = [sock EXCEPT ![c] = "quiet"]
    BY <1>3 DEF AcceptPeer
  <2>2. c \notin OpenSockets /\ OpenSockets' = OpenSockets \cup {c}
    BY <1>1, <2>1 DEF OpenSockets
  <2>3. /\ Len(peers') = Len(peers) + 1 /\ Distinct(peers')
        /\ ToSet(peers') = OpenSockets \cup {c}
    BY <1>1, <2>1, <2>2, AppendTable DEF TableInv
  <2>4. /\ IsFiniteSet(OpenSockets \cup {c})
        /\ Cardinality(OpenSockets \cup {c}) = Cardinality(OpenSockets) + 1
    BY <2>2, FS_AddElement DEF TableInv
  <2>5. PostedOnce'
    BY <1>1, <2>1 DEF TableInv, PostedOnce
  <2>6. gate' = Len(peers') + elsewhere' /\ gate' <= ConnectionLimit
    BY <1>1, <1>3, <2>1, <2>3, LimitAssumption DEF TableInv, TypeOK
  <2>7. Cardinality(OpenSockets') = Len(peers')
    BY <2>2, <2>3, <2>4 DEF TableInv
  <2>8. QED
    BY <2>2, <2>3, <2>4, <2>5, <2>6, <2>7 DEF TableInv
<1>4. QED
  BY <1>2, <1>3

\* The peer the loop visits is an open socket of the table.
LEMMA VisitedIsOpen ==
  ASSUME TypeOK, TableInv, InRange
  PROVE  /\ index \in DOMAIN peers /\ peers[index] \in Conn /\ peers[index] \in OpenSockets
         /\ index \in DOMAIN polled.peers /\ polled.peers[index] \in SUBSET Flags
<1>1. index \in DOMAIN peers /\ index \in DOMAIN polled.peers
  BY DEF TypeOK, InRange
<1>2. peers[index] \in Conn /\ polled.peers[index] \in SUBSET Flags
  BY <1>1 DEF TypeOK
<1>3. peers[index] \in ToSet(peers)
  BY <1>1 DEF ToSet
<1>4. QED
  BY <1>1, <1>2, <1>3 DEF TableInv

LEMMA TableErase ==
  ASSUME TypeOK, TableInv, pc = "peers", InRange, CloseAndErase(peers[index]),
         UNCHANGED <<pc, elsewhere>>
  PROVE  TableInv' /\ peers' \in Seq(Conn) /\ gate' \in Nat
<1> DEFINE c == peers[index]
<1>1. index \in DOMAIN peers /\ c \in Conn /\ c \in OpenSockets
  BY VisitedIsOpen
<1>2. /\ sock' = [sock EXCEPT ![c] = "closed"] /\ posted' = [posted EXCEPT ![c] = @ + 1]
      /\ gate' = gate - 1 /\ peers' = RemoveAt(peers, index)
  BY DEF CloseAndErase
<1>3. /\ peers' \in Seq(Conn) /\ Len(peers') = Len(peers) - 1 /\ Distinct(peers')
      /\ ToSet(peers') = OpenSockets \ {c}
  <2>1. peers \in Seq(Conn) /\ Distinct(peers) /\ ToSet(peers) = OpenSockets
    BY DEF TypeOK, TableInv
  <2>2. QED
    BY <1>1, <1>2, <2>1, RemoveTable
<1> HIDE DEF c
<1>4. OpenSockets' = OpenSockets \ {c}
  BY <1>1, <1>2 DEF TypeOK, OpenSockets
<1>5. /\ IsFiniteSet(OpenSockets \ {c})
      /\ Cardinality(OpenSockets \ {c}) = Cardinality(OpenSockets) - 1
  BY <1>1, FS_RemoveElement DEF TableInv
<1>6. PostedOnce'
  <2>1. sock[c] # "closed" /\ posted[c] = 0
    BY <1>1 DEF OpenSockets, TableInv, PostedOnce
  <2>2. sock'[c] = "closed" /\ posted'[c] = 1
    BY <1>1, <1>2, <2>1 DEF TypeOK
  <2>3. \A x \in Conn : x # c => sock'[x] = sock[x] /\ posted'[x] = posted[x]
    BY <1>2 DEF TypeOK
  <2>4. QED
    BY <2>2, <2>3 DEF TableInv, PostedOnce
<1>7. Len(peers) \in Nat /\ Len(peers) > 0
  BY <1>1 DEF TypeOK
<1>8. gate' = Len(peers') + elsewhere' /\ gate' <= ConnectionLimit /\ gate' \in Nat
  <2>1. gate = Len(peers) + elsewhere /\ gate <= ConnectionLimit /\ elsewhere' = elsewhere
    BY <1>2 DEF TableInv
  <2>2. gate' = gate - 1 /\ Len(peers') = Len(peers) - 1
    BY <1>2, <1>3
  <2>3. gate \in Nat /\ elsewhere \in Nat /\ ConnectionLimit \in Nat
    BY LimitAssumption DEF TypeOK
  <2>4. QED
    BY <1>7, <2>1, <2>2, <2>3
<1>9. Cardinality(OpenSockets') = Len(peers')
  BY <1>3, <1>4, <1>5 DEF TableInv
<1>10. QED
  BY <1>3, <1>4, <1>5, <1>6, <1>8, <1>9 DEF TableInv

LEMMA TableJoin == ASSUME TypeOK, TableInv, StopJoins PROVE TableInv' /\ gate' \in Nat
<1>1. /\ gate' = gate - Len(peers) /\ peers' = <<>> /\ pc' = "stopped" /\ UNCHANGED elsewhere
      /\ sock' = [c \in Conn |-> CASE IsPeer(c) -> "closed"
                                   [] sock[c] = "backlog" -> "refused"
                                   [] OTHER -> sock[c]]
  BY DEF StopJoins
<1>2. \A c \in Conn : IsPeer(c) <=> c \in OpenSockets
  BY DEF TableInv, IsPeer, ToSet
<1>3. ASSUME NEW c \in Conn PROVE c \notin OpenSockets'
  <2>1. CASE IsPeer(c)
    <3>1. sock[c] # "backlog"
      BY <1>2, <2>1 DEF OpenSockets
    <3>2. sock'[c] = "closed"
      BY <1>1, <2>1, <3>1
    <3>3. QED
      BY <3>2 DEF OpenSockets
  <2>2. CASE ~IsPeer(c)
    <3>1. sock'[c] \in {"refused", sock[c]}
      BY <1>1, <2>2
    <3>2. QED
      BY <1>2, <2>2, <3>1 DEF OpenSockets
  <2>3. QED
    BY <2>1, <2>2
<1>4. OpenSockets' = {}
  BY <1>3 DEF OpenSockets
<1>5. gate' = Len(peers') + elsewhere' /\ gate' <= ConnectionLimit /\ gate' \in Nat
  BY <1>1, LimitAssumption DEF TableInv, TypeOK
<1>6. ToSet(peers') = {} /\ Distinct(peers')
  BY <1>1 DEF ToSet, Distinct
<1>7. PostedOnce'
  BY <1>1 DEF PostedOnce
<1>8. QED
  BY <1>1, <1>4, <1>5, <1>6, <1>7, FS_EmptySet DEF TableInv

LEMMA TableVisit ==
  ASSUME TypeOK, TableInv, VisitIdle \/ \E c \in Conn : VisitSend(c) PROVE TableInv'
<1>1. /\ InRange /\ UNCHANGED <<peers, gate, elsewhere, posted, pc>>
      /\ StaysAlive(peers[index], polled.peers[index])
  BY DEF VisitIdle, VisitSend
<1>2. peers[index] \in Conn /\ peers[index] \in OpenSockets
  BY <1>1, VisitedIsOpen
<1>3. \A x \in Conn : /\ sock'[x] \in Open <=> sock[x] \in Open
                      /\ sock'[x] = "closed" <=> sock[x] = "closed"
  BY <1>1, <1>2 DEF StaysAlive, ReceiveOk, Open, OpenSockets, TypeOK
<1>4. QED
  BY <1>1, <1>3, TableFrame

LEMMA TableStep == ASSUME TypeOK, TableInv, [Next]_vars PROVE TableInv'
<1>1. CASE \/ LoopEnds \/ PrepareOutput \/ PollEvents \/ PollTimeout \/ PollFails
           \/ Drain \/ AcceptDone \/ PassDone
  BY <1>1, TableFrame
  DEF LoopEnds, PrepareOutput, PollEvents, PollTimeout, PollFails, Drain, AcceptDone, PassDone
<1>2. CASE VisitDead
  BY <1>2, TableErase DEF VisitDead
<1>3. CASE VisitIdle \/ \E c \in Conn : VisitSend(c)
  BY <1>3, TableVisit
<1>4. CASE \E c \in Conn : AcceptPeer(c)
  BY <1>4, TableAccept
<1>5. ASSUME NEW c \in Conn, ClientMoves(c) PROVE TableInv'
  <2>1. \A x \in Conn : /\ sock'[x] \in Open <=> sock[x] \in Open
                        /\ sock'[x] = "closed" <=> sock[x] = "closed"
    BY <1>5 DEF ClientMoves, TypeOK, Open
  <2>2. QED
    BY <1>5, <2>1, TableFrame DEF ClientMoves, loopVars
<1>6. CASE (\E c \in Conn : Enqueue(c) \/ BeginClose(c)) \/ RequestStop \/ UNCHANGED vars
  BY <1>6, TableFrame DEF Enqueue, BeginClose, RequestStop, vars, loopVars
<1>7. CASE ElsewhereAccepts \/ ElsewhereCloses
  <2>1. UNCHANGED <<peers, sock, posted, pc>> /\ OpenSockets' = OpenSockets
    BY <1>7 DEF ElsewhereAccepts, ElsewhereCloses, loopVars, OpenSockets
  <2>2. gate' = Len(peers') + elsewhere' /\ gate' <= ConnectionLimit
    BY <1>7, <2>1, LimitAssumption DEF ElsewhereAccepts, ElsewhereCloses, TableInv, TypeOK
  <2>3. QED
    BY <2>1, <2>2 DEF TableInv, PostedOnce
<1>8. CASE StopJoins
  BY <1>8, TableJoin
<1>9. QED
  BY <1>1, <1>2, <1>3, <1>4, <1>5, <1>6, <1>7, <1>8 DEF Next, LoopNext, Stopped

-----------------------------------------------------------------------------
(***************************************************************************)
(* Types                                                                   *)
(***************************************************************************)

\* The poll vector has one entry for each peer.
LEMMA DescriptorsType ==
  ASSUME TypeOK
  PROVE  Descriptors \in [wake : BOOLEAN, listener : BOOLEAN, peers : Seq(SUBSET Flags)]
<1> DEFINE r == [i \in DOMAIN peers |-> Revents(peers[i])]
<1>1. \A i \in 1..Len(peers) : Revents(peers[i]) \in SUBSET Flags
  BY DEF Revents, Flags
<1>2. Len(peers) \in Nat /\ DOMAIN peers = 1..Len(peers)
  BY DEF TypeOK
<1>3. r \in [1..Len(peers) -> SUBSET Flags]
  BY <1>1, <1>2
<1>4. r \in Seq(SUBSET Flags)
  BY <1>2, <1>3, SeqDef
<1> HIDE DEF r
<1>5. Descriptors = [wake |-> wake, listener |-> \E c \in Conn : sock[c] = "backlog", peers |-> r]
  BY DEF Descriptors, r
<1>6. (\E c \in Conn : sock[c] = "backlog") \in BOOLEAN
  OBVIOUS
<1>7. QED
  BY <1>4, <1>5, <1>6 DEF TypeOK

LEMMA TypeLoop ==
  ASSUME TypeOK, \/ LoopEnds \/ PollEvents \/ PollTimeout \/ PollFails \/ Drain \/ AcceptDone
                 \/ PassDone
  PROVE  TypeOK'
<1>1. CASE LoopEnds \/ PollTimeout \/ PollFails \/ AcceptDone
  BY <1>1 DEF TypeOK, LoopEnds, PollTimeout, PollFails, AcceptDone
<1>2. CASE PollEvents
  BY <1>2, DescriptorsType DEF TypeOK, PollEvents
<1>3. CASE Drain
  BY <1>3 DEF TypeOK, Drain
<1>4. CASE PassDone
  <2>1. <<>> \in Seq(SUBSET Flags)
    OBVIOUS
  <2>2. NothingPolled \in [wake : BOOLEAN, listener : BOOLEAN, peers : Seq(SUBSET Flags)]
    BY <2>1 DEF NothingPolled
  <2>3. QED
    BY <1>4, <2>2 DEF TypeOK, PassDone
<1>5. QED
  BY <1>1, <1>2, <1>3, <1>4

LEMMA TypePrepare == ASSUME TypeOK, PrepareOutput PROVE TypeOK'
<1> DEFINE ready == {c \in Conn : IsPeer(c) /\ ~buffer[c] /\ ~closing[c] /\ queued[c] > 0}
<1>1. PICK tooLarge \in SUBSET ready :
        /\ buffer' = [c \in Conn |-> buffer[c] \/ c \in ready \ tooLarge]
        /\ queued' = [c \in Conn |-> CASE c \in tooLarge -> 0
                                       [] c \in ready \ tooLarge -> queued[c] - 1
                                       [] OTHER -> queued[c]]
        /\ closing' = [c \in Conn |-> closing[c] \/ c \in tooLarge]
        /\ wake' = (wake \/ tooLarge # {})
  BY DEF PrepareOutput
<1>2. \A c \in Conn : c \in ready => queued[c] - 1 \in Nat
  BY DEF TypeOK
<1> HIDE DEF ready
<1>3. ASSUME NEW c \in Conn PROVE queued'[c] \in Nat
  <2>1. CASE c \in tooLarge
    BY <1>1, <2>1
  <2>2. CASE c \notin tooLarge /\ c \in ready
    BY <1>1, <1>2, <2>2
  <2>3. CASE c \notin tooLarge /\ c \notin ready
    BY <1>1, <2>3 DEF TypeOK
  <2>4. QED
    BY <2>1, <2>2, <2>3
<1>4. queued' \in [Conn -> Nat]
  BY <1>1, <1>3
<1>5. buffer' \in [Conn -> BOOLEAN] /\ closing' \in [Conn -> BOOLEAN] /\ wake' \in BOOLEAN
  BY <1>1, Zenon
<1>6. /\ pc' = "poll"
      /\ UNCHANGED <<peers, polled, index, count, sock, enqueued, posted, gate, stopping, elsewhere>>
  BY DEF PrepareOutput
<1>7. QED
  BY <1>4, <1>5, <1>6 DEF TypeOK

LEMMA TypeVisit ==
  ASSUME TypeOK, TableInv,
         VisitDead \/ VisitIdle \/ \E c \in Conn : VisitSend(c)
  PROVE  TypeOK'
<1>1. InRange /\ pc = "peers" /\ pc' = pc /\ UNCHANGED <<polled, count, enqueued, stopping, elsewhere>>
  BY DEF VisitDead, VisitIdle, VisitSend
<1>2. peers[index] \in Conn /\ sock[peers[index]] \in SocketStates
  BY <1>1, VisitedIsOpen DEF TypeOK
<1>3. CASE VisitDead
  <2>1. CloseAndErase(peers[index])
    BY <1>3 DEF VisitDead
  <2>2. peers' \in Seq(Conn) /\ gate' \in Nat
    BY <1>1, <2>1, TableErase
  <2>3. "closed" \in SocketStates
    BY DEF SocketStates
  <2>4. sock' \in [Conn -> SocketStates]
    BY <1>2, <2>1, <2>3 DEF TypeOK, CloseAndErase
  <2>5. /\ closing' \in [Conn -> BOOLEAN] /\ queued' \in [Conn -> Nat]
        /\ buffer' \in [Conn -> BOOLEAN] /\ posted' \in [Conn -> Nat]
    <3>1. closing' \in [Conn -> BOOLEAN] /\ buffer' \in [Conn -> BOOLEAN]
      BY <2>1 DEF TypeOK, CloseAndErase
    <3>2. queued' \in [Conn -> Nat]
      BY <2>1 DEF TypeOK, CloseAndErase
    <3>3. posted' = [posted EXCEPT ![peers[index]] = @ + 1] /\ posted \in [Conn -> Nat]
      BY <2>1 DEF TypeOK, CloseAndErase
    <3>4. posted' \in [Conn -> Nat]
      BY <1>2, <3>3
    <3>5. QED
      BY <3>1, <3>2, <3>4
  <2>6. wake' = TRUE /\ index' = index
    BY <2>1 DEF CloseAndErase
  <2>7. QED
    BY <1>1, <2>2, <2>4, <2>5, <2>6 DEF TypeOK
<1>4. ASSUME StaysAlive(peers[index], polled.peers[index])
      PROVE  sock' \in [Conn -> SocketStates] /\ index' \in Nat \ {0}
  <2>1. "quiet" \in SocketStates
    BY DEF SocketStates
  <2>2. sock' = sock \/ sock' = [sock EXCEPT ![peers[index]] = "quiet"]
    BY <1>4 DEF StaysAlive
  <2>3. sock' \in [Conn -> SocketStates]
    BY <1>2, <2>1, <2>2 DEF TypeOK
  <2>4. index' = index + 1 /\ index \in Nat \ {0}
    BY <1>4 DEF StaysAlive, TypeOK
  <2>5. index' \in Nat \ {0}
    BY ONLY <2>4
  <2>6. QED
    BY <2>3, <2>5
<1>5. CASE VisitIdle
  BY <1>1, <1>4, <1>5 DEF VisitIdle, TypeOK
<1>6. ASSUME NEW c \in Conn, VisitSend(c) PROVE TypeOK'
  <2>1. /\ buffer' = [buffer EXCEPT ![c] = queued[c] > 0]
        /\ queued' = [queued EXCEPT ![c] = IF @ > 0 THEN @ - 1 ELSE 0]
        /\ UNCHANGED <<peers, closing, posted, gate, wake>>
    BY <1>6 DEF VisitSend
  <2>2. buffer' \in [Conn -> BOOLEAN] /\ queued' \in [Conn -> Nat]
    BY <2>1 DEF TypeOK
  <2>3. sock' \in [Conn -> SocketStates] /\ index' \in Nat \ {0}
    BY <1>4, <1>6 DEF VisitSend
  <2>4. QED
    BY <1>1, <2>1, <2>2, <2>3 DEF TypeOK
<1>7. QED
  BY <1>3, <1>5, <1>6

LEMMA TypeAccept == ASSUME TypeOK, NEW c \in Conn, AcceptPeer(c) PROVE TypeOK'
<1>1. "quiet" \in SocketStates /\ "refused" \in SocketStates
  BY DEF SocketStates
<1>2. sock' = [sock EXCEPT ![c] = "quiet"] \/ sock' = [sock EXCEPT ![c] = "refused"]
  BY DEF AcceptPeer
<1>3. sock' \in [Conn -> SocketStates]
  BY <1>1, <1>2 DEF TypeOK
<1>4. gate' \in Nat /\ peers' \in Seq(Conn)
  <2>1. peers' = peers \/ peers' = Append(peers, c)
    BY DEF AcceptPeer
  <2>2. gate' = gate \/ gate' = gate + 1
    BY DEF AcceptPeer
  <2>3. peers \in Seq(Conn) /\ gate \in Nat
    BY DEF TypeOK
  <2>4. QED
    BY <2>1, <2>2, <2>3
<1>5. UNCHANGED <<pc, polled, index, count, buffer, queued, enqueued, closing, posted, wake,
                  stopping, elsewhere>>
  BY DEF AcceptPeer
<1>6. QED
  BY <1>3, <1>4, <1>5 DEF TypeOK

LEMMA TypeOthers ==
  ASSUME TypeOK, TableInv,
         \/ \E c \in Conn : ClientMoves(c) \/ Enqueue(c) \/ BeginClose(c)
         \/ ElsewhereAccepts \/ ElsewhereCloses \/ RequestStop \/ StopJoins \/ UNCHANGED vars
  PROVE  TypeOK'
<1>1. ASSUME NEW c \in Conn, ClientMoves(c) PROVE TypeOK'
  <2>1. sock' \in [Conn -> SocketStates]
    BY <1>1 DEF ClientMoves, TypeOK, SocketStates
  <2>2. QED
    BY <1>1, <2>1 DEF ClientMoves, TypeOK, loopVars
<1>2. ASSUME NEW c \in Conn, Enqueue(c) PROVE TypeOK'
  BY <1>2 DEF Enqueue, TypeOK, loopVars
<1>3. ASSUME NEW c \in Conn, BeginClose(c) PROVE TypeOK'
  BY <1>3 DEF BeginClose, TypeOK, loopVars
<1>4. CASE ElsewhereAccepts \/ ElsewhereCloses
  <2>1. gate' \in Nat /\ elsewhere' \in 0..MaxElsewhere
    BY <1>4, LimitAssumption DEF ElsewhereAccepts, ElsewhereCloses, TypeOK, TableInv
  <2>2. QED
    BY <1>4, <2>1 DEF ElsewhereAccepts, ElsewhereCloses, TypeOK, loopVars
<1>5. CASE RequestStop \/ UNCHANGED vars
  BY <1>5 DEF RequestStop, TypeOK, vars, loopVars
<1>6. CASE StopJoins
  <2>1. gate' \in Nat
    BY <1>6, TableJoin
  <2>2. sock' \in [Conn -> SocketStates]
    <3>1. sock' = [c \in Conn |-> CASE IsPeer(c) -> "closed"
                                    [] sock[c] = "backlog" -> "refused"
                                    [] OTHER -> sock[c]]
      BY <1>6 DEF StopJoins
    <3>2. ASSUME NEW c \in Conn PROVE sock'[c] \in SocketStates
      <4>1. sock'[c] \in {"closed", "refused", sock[c]}
        BY <3>1
      <4>2. QED
        BY <4>1 DEF TypeOK, SocketStates
    <3>3. QED
      BY <3>1, <3>2
  <2>3. queued' \in [Conn -> Nat]
    BY <1>6 DEF StopJoins, TypeOK
  <2>4. closing' \in [Conn -> BOOLEAN] /\ buffer' \in [Conn -> BOOLEAN]
    BY <1>6, Zenon DEF StopJoins
  <2>5. peers' \in Seq(Conn) /\ pc' = "stopped"
        /\ UNCHANGED <<polled, index, count, enqueued, posted, wake, stopping, elsewhere>>
    BY <1>6 DEF StopJoins
  <2>6. QED
    BY <2>1, <2>2, <2>3, <2>4, <2>5 DEF TypeOK
<1>7. QED
  BY <1>1, <1>2, <1>3, <1>4, <1>5, <1>6

-----------------------------------------------------------------------------
(***************************************************************************)
(* The theorems                                                            *)
(***************************************************************************)

LEMMA LoopInvariant == Spec => []LoopInv
<1>1. Init => LoopInv
  <2> SUFFICES ASSUME Init PROVE LoopInv
    OBVIOUS
  <2>1. <<>> \in Seq(SUBSET Flags) /\ <<>> \in Seq(Conn)
    OBVIOUS
  <2>2. TypeOK
    <3>1. "outside" \in SocketStates
      BY DEF SocketStates
    <3>2. NothingPolled \in [wake : BOOLEAN, listener : BOOLEAN, peers : Seq(SUBSET Flags)]
      BY <2>1 DEF NothingPolled
    <3>3. /\ sock \in [Conn -> SocketStates] /\ buffer \in [Conn -> BOOLEAN]
          /\ queued \in [Conn -> Nat] /\ enqueued \in [Conn -> Nat]
          /\ closing \in [Conn -> BOOLEAN] /\ posted \in [Conn -> Nat]
      BY <3>1 DEF Init
    <3>4. /\ index \in Nat \ {0} /\ count \in Nat /\ gate \in Nat /\ elsewhere \in 0..MaxElsewhere
          /\ wake \in BOOLEAN /\ stopping \in BOOLEAN /\ pc = "top"
      <4>1. /\ index = 1 /\ count = 0 /\ gate = 0 /\ elsewhere = 0
            /\ wake = FALSE /\ stopping = FALSE /\ pc = "top"
        BY Zenon DEF Init
      <4>2. 0 \in 0..MaxElsewhere /\ 1 \in Nat \ {0} /\ 0 \in Nat
        BY LimitAssumption
      <4>3. QED
        BY <4>1, <4>2, Zenon
    <3>5. peers \in Seq(Conn)
          /\ polled \in [wake : BOOLEAN, listener : BOOLEAN, peers : Seq(SUBSET Flags)]
      BY <2>1, <3>2 DEF Init
    <3>6. QED
      BY <3>3, <3>4, <3>5 DEF TypeOK
  <2>3. OpenSockets = {} /\ ToSet(peers) = {} /\ Distinct(peers) /\ Len(peers) = 0
    BY DEF Init, OpenSockets, ToSet, Distinct
  <2>4. gate = Len(peers) + elsewhere /\ gate <= ConnectionLimit /\ PostedOnce
    BY LimitAssumption DEF Init, PostedOnce
  <2>5. QED
    BY <2>2, <2>3, <2>4, FS_EmptySet DEF LoopInv, TableInv
<1>2. LoopInv /\ [Next]_vars => LoopInv'
  <2> SUFFICES ASSUME TypeOK, TableInv, [Next]_vars PROVE TypeOK' /\ TableInv'
    BY DEF LoopInv
  <2>1. TableInv'
    BY TableStep
  <2>2. TypeOK'
    BY TypeLoop, TypePrepare, TypeVisit, TypeAccept, TypeOthers DEF Next, LoopNext, Stopped
  <2>3. QED
    BY <2>1, <2>2
<1>3. QED
  BY <1>1, <1>2, PTL DEF Spec

\* Every variable of the event loop keeps its type; that the gate never drops
\* below zero rests on the table (tcp_connection_gate::release).
THEOREM EventLoopTyped == Spec => []TypeOK
<1>1. LoopInv => TypeOK
  BY DEF LoopInv
<1>2. QED
  BY <1>1, LoopInvariant, PTL

\* For any sockets, limit and traffic elsewhere: the peer table lists every
\* open socket once and no other, each entry and each connection elsewhere
\* holds one slot of the gate, the licence's limit is kept, and a connection
\* leaves the running loop with exactly one close message posted.
THEOREM PeerTableIsExact == Spec => []PeerTableExact
<1>1. LoopInv => PeerTableExact
  BY DEF LoopInv, TableInv, PostedOnce, PeerTableExact
<1>2. QED
  BY <1>1, LoopInvariant, PTL

=============================================================================
