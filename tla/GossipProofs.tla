----------------------------- MODULE GossipProofs -----------------------------
(***************************************************************************)
(* Proofs about Gossip: types, vector clocks that never run ahead of the   *)
(* rumors received, routes that come from the newest rumor, and that       *)
(* following them leads to the origin.                                     *)
(***************************************************************************)
EXTENDS Gossip, SequenceTheorems, WellFoundedInduction, TLAPS

-----------------------------------------------------------------------------
(***************************************************************************)
(* What the operators return.                                              *)
(***************************************************************************)

\* updateVectorClock keeps one entry per origin.
LEMMA UpdateVectorClockType ==
    ASSUME NEW want \in Want, NEW r, r.origin \in Node
    PROVE  UpdateVectorClock(want, r) \in Want
<1> DEFINE Entry == [origin : Node, next : Nat \ {0}]
           new == [origin |-> r.origin, next |-> IF r.id = 1 THEN 2 ELSE 1]
<1>1. want \in Seq(Entry) /\ \A i, j \in DOMAIN want : want[i].origin = want[j].origin => i = j
  BY DEF Want
<1>2. \A i \in DOMAIN want : want[i] \in Entry
  <2> HIDE DEF Entry
  <2> QED BY <1>1, ElementOfSeq
<1>3. CASE r.origin \in Origins(want)
  <2> DEFINE up == [i \in DOMAIN want |->
                      IF want[i].origin = r.origin /\ want[i].next = r.id
                      THEN [want[i] EXCEPT !.next = @ + 1] ELSE want[i]]
  <2>1. ASSUME NEW i \in DOMAIN want
        PROVE  up[i] \in Entry /\ up[i].origin = want[i].origin
    <3>1. want[i] \in Entry
      BY <1>2
    <3>2. CASE want[i].origin = r.origin /\ want[i].next = r.id
      <4>1. up[i] = [want[i] EXCEPT !.next = @ + 1]
        BY <3>2
      <4> QED BY <3>1, <4>1
    <3>3. CASE ~ (want[i].origin = r.origin /\ want[i].next = r.id)
      <4>1. up[i] = want[i]
        BY <3>3
      <4> QED BY <3>1, <4>1
    <3> QED BY <3>2, <3>3
  <2>2. DOMAIN up = DOMAIN want /\ up = [i \in DOMAIN want |-> up[i]]
    OBVIOUS
  <2>3. UpdateVectorClock(want, r) = up
    BY <1>3 DEF UpdateVectorClock
  <2> HIDE DEF up, Entry
  <2>4. DOMAIN want = 1 .. Len(want) /\ Len(want) \in Nat
    BY <1>1
  <2>5. up \in Seq(Entry)
    <3>1. up \in [1 .. Len(want) -> Entry]
      BY <2>1, <2>2, <2>4
    <3> QED BY <2>4, <3>1, SeqDef
  <2>6. \A i, j \in DOMAIN up : up[i].origin = up[j].origin => i = j
    BY <1>1, <2>1, <2>2
  <2> QED BY <2>3, <2>5, <2>6 DEF Want, Entry
<1>4. CASE r.origin \notin Origins(want)
  <2>1. new \in Entry
    OBVIOUS
  <2>2. UpdateVectorClock(want, r) = Append(want, new)
    BY <1>4 DEF UpdateVectorClock
  <2>3. \A i \in DOMAIN want : want[i].origin # r.origin
    BY <1>4 DEF Origins
  <2>4. /\ Append(want, new) \in Seq(Entry)
        /\ DOMAIN Append(want, new) = DOMAIN want \cup {Len(want) + 1}
        /\ DOMAIN want = 1 .. Len(want)
        /\ \A i \in DOMAIN want : Append(want, new)[i] = want[i]
        /\ Append(want, new)[Len(want) + 1] = new
    BY <1>1, <2>1
  <2> HIDE DEF new
  <2>5. new.origin = r.origin
    BY DEF new
  <2>6. \A i, j \in DOMAIN Append(want, new) :
           Append(want, new)[i].origin = Append(want, new)[j].origin => i = j
    BY <1>1, <2>3, <2>4, <2>5
  <2> QED BY <2>2, <2>4, <2>6 DEF Want
<1> QED BY <1>3, <1>4

\* updateRoutingTable leads to neighbours, and never to the node itself.
LEMMA UpdateRoutingTableType ==
    ASSUME NEW n \in Node, NEW table, IsTable(n, table),
           NEW r \in RumorMessage, NEW from \in Node
    PROVE  IsTable(n, UpdateRoutingTable(n, table, r, from))
<1> DEFINE new == [o \in DOMAIN table \cup {r.origin} |->
                     IF o = r.origin THEN [seq |-> r.id, via |-> from] ELSE table[o]]
<1>1. CASE UpdateRoutingTable(n, table, r, from) = table
  BY <1>1
<1>2. CASE /\ UpdateRoutingTable(n, table, r, from) = new
           /\ r.origin # n
  <2>1. r.origin \in (Node \cup {NoNode}) \ {n} /\ r.id \in {-1} \cup Nat
    BY <1>2 DEF RumorMessage
  <2>2. \A o \in DOMAIN table : table[o] \in [seq : {-1} \cup Nat, via : Node]
    BY DEF IsTable
  <2>3. new \in [DOMAIN table \cup {r.origin} -> [seq : {-1} \cup Nat, via : Node]]
    BY <2>1, <2>2
  <2>4. DOMAIN new = DOMAIN table \cup {r.origin}
    OBVIOUS
  <2> HIDE DEF new
  <2> QED BY <1>2, <2>1, <2>3, <2>4 DEF IsTable
<1> QED BY <1>1, <1>2 DEF UpdateRoutingTable

\* getMsg returns a rumor, or the empty one.
LEMMA NotSeenByOtherType ==
    ASSUME NEW mine, NEW theirs, NEW msgs \in SUBSET RumorKey
    PROVE  NotSeenByOther(mine, theirs, msgs) \subseteq RumorMessage
<1>1. ASSUME NEW key PROVE GetMsg(msgs, key) \in RumorMessage
  BY NodeAssumption DEF GetMsg, RumorKey, RumorMessage, NoRumor
<1> QED BY <1>1 DEF NotSeenByOther

\* What a node does with a rumor it has received.
LEMMA ReceivedRumorType ==
    ASSUME NEW m \in Packet, m.type = "Rumor", peers \in [Node -> SUBSET Node]
    PROVE  /\ m.src \in Node /\ m.dst \in Node
           /\ m.rumor \in RumorMessage
           /\ Forwarded(m) \in RumorMessage
           /\ Forwarded(m).origin = m.rumor.origin
           /\ Forwarded(m).id = m.rumor.id
           /\ Met(m) \in SUBSET Node
<1>1. m \in [type : {"Rumor"}, src : Node, dst : Node, rumor : RumorMessage]
  BY DEF Packet
<1>2. m.rumor.last \in Node \cup {NoNode}
  BY <1>1 DEF RumorMessage
<1> QED BY <1>1, <1>2 DEF Forwarded, RumorMessage, Met, Known

\* What a node reads in a status has its type, and so have the peers it knows then.
LEMMA ReceivedStatusType ==
    ASSUME NEW m \in Packet, m.type = "Status", peers \in [Node -> SUBSET Node]
    PROVE  /\ m.src \in Node /\ m.dst \in Node
           /\ m.want \in Want
           /\ Known(m) \in SUBSET Node
BY DEF Packet, Known

\* A rumor that is sent is a packet.
LEMMA RumorType ==
    ASSUME NEW src \in Node, NEW dst \in Node, NEW r \in RumorMessage
    PROVE  Rumor(src, dst, r) \in Packet
BY DEF Rumor, Packet

\* A status that is sent is a packet.
LEMMA StatusType ==
    ASSUME NEW src \in Node, NEW dst \in Node, NEW want \in Want
    PROVE  Status(src, dst, want) \in Packet
BY DEF Status, Packet

\* What is in flight after a packet is received are packets.
LEMMA ExchangeType ==
    ASSUME net \subseteq Packet, faults \in Nat, NEW m, NEW out \in SUBSET Packet,
           Exchange(m, out)
    PROVE  net' \subseteq Packet /\ faults' \in Nat
BY DEF Exchange

MongeringType ==
    /\ DOMAIN pending = Node /\ \A n \in Node : IsAcks(pending[n])
    /\ DOMAIN overwritten = Node
    /\ \A n \in Node : BagToSet(overwritten[n]) \subseteq RumorMessage

\* waitForAck
LEMMA WaitForAckType ==
    ASSUME MongeringType, NEW n \in Node, NEW acks, IsAcks(acks),
           NEW timers, BagToSet(timers) \subseteq RumorMessage,
           NEW r \in RumorMessage, NEW p \in Node,
           WaitForAck(n, acks, timers, r, p)
    PROVE  MongeringType'
<1> DEFINE new == [q \in DOMAIN acks \cup {p} |->
                     IF q = p THEN [rumor |-> r, running |-> TRUE] ELSE acks[q]]
<1>1. IsAcks(new)
  <2>1. \A q \in DOMAIN acks : acks[q] \in [rumor : RumorMessage, running : BOOLEAN]
    BY DEF IsAcks
  <2>2. new \in [DOMAIN acks \cup {p} -> [rumor : RumorMessage, running : BOOLEAN]]
    BY <2>1
  <2>3. DOMAIN new = DOMAIN acks \cup {p}
    OBVIOUS
  <2> HIDE DEF new
  <2> QED BY <2>2, <2>3 DEF IsAcks
<1>2. p \in DOMAIN acks => BagToSet(timers (+) SetToBag({acks[p].rumor})) \subseteq RumorMessage
  BY DEF BagToSet, SetToBag, (+), IsAcks
<1> HIDE DEF new
<1>3. pending' = [pending EXCEPT ![n] = new]
  BY DEF WaitForAck, new
<1> QED BY <1>1, <1>2, <1>3 DEF WaitForAck, MongeringType

-----------------------------------------------------------------------------
(***************************************************************************)
(* Types.                                                                  *)
(***************************************************************************)

\* The initial state has the types.
LEMMA TypeInit == Init => TypeOK
<1> SUFFICES ASSUME Init PROVE TypeOK
  OBVIOUS
<1>1. <<>> \in Want
  BY DEF Want
<1>2. DOMAIN routes = Node /\ \A n \in Node : IsTable(n, routes[n])
  BY DEF Init, IsTable
<1>3. DOMAIN pending = Node /\ \A n \in Node : IsAcks(pending[n])
  BY DEF Init, IsAcks
<1>4. DOMAIN overwritten = Node /\ \A n \in Node : BagToSet(overwritten[n]) \subseteq RumorMessage
  BY DEF Init, EmptyBag, SetToBag, BagToSet
<1> QED BY <1>1, <1>2, <1>3, <1>4, PeerListAssumption DEF Init, TypeOK

\* A packet keeps the types.
LEMMA TypeDeliver ==
    ASSUME TypeOK, NEW m \in net, Deliver(m)
    PROVE  TypeOK'
<1> USE DEF TypeOK
<1>1. m \in Packet /\ MongeringType
  BY DEF MongeringType
<1>2. CASE ReceiveRoutingRumor(m)
  <2>1. m.type = "Rumor"
    BY <1>2 DEF ReceiveRoutingRumor
  <2>2. /\ m.src \in Node /\ m.dst \in Node /\ m.rumor \in RumorMessage
        /\ Forwarded(m) \in RumorMessage /\ Met(m) \in SUBSET Node
    BY <1>1, <2>1, ReceivedRumorType
  <2>3. peers' \in [Node -> SUBSET Node]
    BY <1>2, <2>2 DEF ReceiveRoutingRumor
  <2>4. IsTable(m.dst, UpdateRoutingTable(m.dst, routes[m.dst], m.rumor, m.src))
    BY <2>2, UpdateRoutingTableType
  <2>5. DOMAIN routes' = Node /\ \A n \in Node : IsTable(n, routes'[n])
    BY <1>2, <2>4 DEF ReceiveRoutingRumor
  <2>6. net' \subseteq Packet /\ faults' \in Nat
    <3>1. PICK p \in Met(m) : Exchange(m, {Rumor(m.dst, p, Forwarded(m))})
      BY <1>2 DEF ReceiveRoutingRumor
    <3>2. {Rumor(m.dst, p, Forwarded(m))} \in SUBSET Packet
      BY <2>2, RumorType
    <3> QED BY <3>1, <3>2, ExchangeType
  <2> QED BY <1>2, <2>3, <2>5, <2>6 DEF ReceiveRoutingRumor, mongering
<1>3. CASE ReceiveKnownRumor(m)
  <2>1. m.type = "Rumor"
    BY <1>3 DEF ReceiveKnownRumor
  <2>2. m.dst \in Node /\ Met(m) \in SUBSET Node
    BY <1>1, <2>1, ReceivedRumorType
  <2>3. peers' \in [Node -> SUBSET Node]
    BY <1>3, <2>2 DEF ReceiveKnownRumor
  <2>4. net' \subseteq Packet /\ faults' \in Nat
    BY <1>3, ExchangeType DEF ReceiveKnownRumor
  <2> QED BY <1>3, <2>3, <2>4 DEF ReceiveKnownRumor, mongering
<1>4. CASE ReceiveNewRumor(m)
  <2> DEFINE n == m.dst
             r == Forwarded(m)
  <2>1. m.type = "Rumor"
    BY <1>4 DEF ReceiveNewRumor
  <2>2. /\ m.src \in Node /\ n \in Node /\ m.rumor \in RumorMessage
        /\ r \in RumorMessage /\ Met(m) \in SUBSET Node
    BY <1>1, <2>1, ReceivedRumorType
  <2>3. r.origin \in Node /\ r.id \in Nat \ {0}
    BY <1>4, <2>2 DEF ReceiveNewRumor, IsRouting, RumorMessage
  <2>4. peers' \in [Node -> SUBSET Node]
    BY <1>4, <2>2 DEF ReceiveNewRumor
  <2>5. IsTable(n, UpdateRoutingTable(n, routes[n], r, m.src))
    BY <2>2, UpdateRoutingTableType
  <2>6. DOMAIN routes' = Node /\ \A k \in Node : IsTable(k, routes'[k])
    BY <1>4, <2>5 DEF ReceiveNewRumor
  <2>7. Key(r) \in RumorKey
    BY <2>3 DEF Key, RumorKey
  <2>8. seen' \in [Node -> SUBSET RumorKey]
    BY <1>4, <2>2, <2>7 DEF ReceiveNewRumor
  <2>9. clock' \in [Node -> Want] /\ races' \in Nat
    <3>1. UpdateVectorClock(clock[n], r) \in Want
      BY <2>2, <2>3, UpdateVectorClockType
    <3> QED BY <1>4, <3>1 DEF ReceiveNewRumor, Learn, LosesAppend
  <2>10. net' \subseteq Packet /\ faults' \in Nat /\ MongeringType'
    <3>1. CASE Forwards(n)
      <4>1. PICK p \in Met(m) :
               /\ Exchange(m, {Rumor(n, p, r), Status(n, m.src, clock'[n])})
               /\ WaitForAck(n, pending[n], overwritten[n], r, p)
        BY <1>4, <3>1 DEF ReceiveNewRumor
      <4>2. {Rumor(n, p, r), Status(n, m.src, clock'[n])} \in SUBSET Packet
        BY <2>2, <2>9, RumorType, StatusType
      <4>3. MongeringType'
        BY <1>1, <2>2, <4>1, WaitForAckType
      <4> QED BY <4>1, <4>2, <4>3, ExchangeType
    <3>2. CASE ~ Forwards(n)
      <4>1. Exchange(m, {}) /\ UNCHANGED mongering
        BY <1>4, <3>2 DEF ReceiveNewRumor
      <4> QED BY <1>1, <4>1, ExchangeType DEF mongering, MongeringType
    <3> QED BY <3>1, <3>2
  <2> QED BY <1>4, <2>4, <2>6, <2>8, <2>9, <2>10 DEF ReceiveNewRumor, MongeringType
<1>5. CASE ReceiveStatus(m)
  <2> DEFINE n == m.dst
             acks == pending[n]
             asked == IF SomeNotSeen(clock[n], m.want) THEN {Status(n, m.src, clock[n])} ELSE {}
             given == {Rumor(n, m.src, r) : r \in NotSeenByOther(clock[n], m.want, seen[n])}
  <2>1. m.type = "Status"
    BY <1>5 DEF ReceiveStatus
  <2>2. m.src \in Node /\ n \in Node /\ Known(m) \in SUBSET Node
    BY <1>1, <2>1, ReceivedStatusType
  <2>3. peers' \in [Node -> SUBSET Node]
    BY <1>5, <2>2 DEF ReceiveStatus
  <2>4. asked \in SUBSET Packet
    BY <2>2, StatusType
  <2>5. given \in SUBSET Packet
    BY <2>2, RumorType, NotSeenByOtherType
  <2>6. IsAcks(Without(acks, m.src))
    BY <2>2 DEF IsAcks, Without
  <2> HIDE DEF asked, given
  <2>7. CASE /\ Exchange(m, IF Forwards(n) THEN asked \cup given ELSE {})
             /\ pending' = [pending EXCEPT ![n] = Without(acks, m.src)]
             /\ UNCHANGED <<overwritten, repeats>>
    <3>1. net' \subseteq Packet /\ faults' \in Nat
      BY <2>4, <2>5, <2>7, ExchangeType
    <3>2. DOMAIN pending' = Node /\ \A k \in Node : IsAcks(pending'[k])
      BY <2>2, <2>6, <2>7
    <3> QED BY <1>5, <2>3, <2>7, <3>1, <3>2 DEF ReceiveStatus
  <2>8. CASE /\ m.src \in DOMAIN acks
             /\ \E p \in Known(m) :
                   /\ Exchange(m, {Rumor(n, p, acks[m.src].rumor)})
                   /\ Repeat(n, Without(acks, m.src), overwritten[n], acks[m.src].rumor, p)
    <3>1. PICK p \in Known(m) :
                   /\ Exchange(m, {Rumor(n, p, acks[m.src].rumor)})
                   /\ Repeat(n, Without(acks, m.src), overwritten[n], acks[m.src].rumor, p)
      BY <2>8
    <3>2. acks[m.src].rumor \in RumorMessage
      BY <2>2, <2>8 DEF IsAcks
    <3>3. net' \subseteq Packet /\ faults' \in Nat
      BY <2>2, <3>1, <3>2, RumorType, ExchangeType
    <3>4. MongeringType'
      BY <1>1, <2>2, <2>6, <3>1, <3>2, WaitForAckType DEF Repeat
    <3>5. repeats' \in Nat
      BY <3>1 DEF Repeat
    <3> QED BY <1>5, <2>3, <3>3, <3>4, <3>5 DEF ReceiveStatus, MongeringType
  <2> QED BY <1>5, <2>7, <2>8 DEF ReceiveStatus, asked, given
<1> QED BY <1>2, <1>3, <1>4, <1>5 DEF Deliver

\* So does what a node does of itself.
LEMMA TypeOwnStep ==
    ASSUME TypeOK, NEW n \in Node,
           \/ ReceiveFromClient(n)
           \/ \E p \in Node : AckTimer(n, p) \/ AntiEntropy(n, p)
           \/ \E r \in BagToSet(overwritten[n]) : OverwrittenTimer(n, r)
           \/ SendRoutingMessage(n)
    PROVE  TypeOK'
<1> USE DEF TypeOK
<1>1. MongeringType /\ peers[n] \in SUBSET Node /\ IsAcks(pending[n])
  BY DEF MongeringType
<1>2. CASE ReceiveFromClient(n)
  <2> DEFINE r == [origin |-> n, id |-> clientNextID[n], last |-> NoNode]
  <2>1. r \in RumorMessage /\ r.origin \in Node
    BY NodeAssumption DEF RumorMessage
  <2>2. Key(r) \in RumorKey
    BY DEF Key, RumorKey
  <2>3. UpdateVectorClock(clock[n], r) \in Want
    BY <2>1, UpdateVectorClockType
  <2> HIDE DEF r
  <2>4. seen' \in [Node -> SUBSET RumorKey] /\ clientNextID' \in [Node -> Nat \ {0}]
    BY <1>2, <2>2 DEF ReceiveFromClient, r
  <2>5. clock' \in [Node -> Want] /\ races' \in Nat
    <3>1. Learn(n, r) \/ LosesAppend(n)
      BY <1>2 DEF ReceiveFromClient, r
    <3> QED BY <2>3, <3>1 DEF Learn, LosesAppend
  <2>6. net' \subseteq Packet /\ MongeringType'
    <3>1. CASE Forwards(n)
      <4>1. PICK p \in peers[n] :
               Send({Rumor(n, p, r)}) /\ WaitForAck(n, pending[n], overwritten[n], r, p)
        BY <1>2, <3>1 DEF ReceiveFromClient, r
      <4>2. MongeringType'
        BY <1>1, <2>1, <4>1, WaitForAckType
      <4> QED BY <1>1, <2>1, <4>1, <4>2, RumorType DEF Send
    <3>2. CASE ~ Forwards(n)
      BY <1>1, <1>2, <3>2 DEF ReceiveFromClient, mongering, MongeringType
    <3> QED BY <3>1, <3>2
  <2> QED BY <1>2, <2>4, <2>5, <2>6 DEF ReceiveFromClient, MongeringType
<1>3. ASSUME NEW p \in Node, AckTimer(n, p) PROVE TypeOK'
  <2> DEFINE acks == [pending[n] EXCEPT ![p].running = FALSE]
  <2>1. p \in DOMAIN pending[n]
    BY <1>3 DEF AckTimer
  <2>2. IsAcks(acks) /\ acks[p].rumor \in RumorMessage
    <3>1. \A q \in DOMAIN pending[n] :
             pending[n][q] \in [rumor : RumorMessage, running : BOOLEAN]
      BY <1>1 DEF IsAcks
    <3>2. \A q \in DOMAIN pending[n] : acks[q] \in [rumor : RumorMessage, running : BOOLEAN]
      BY <2>1, <3>1
    <3>3. DOMAIN acks = DOMAIN pending[n] /\ acks = [q \in DOMAIN acks |-> acks[q]]
      OBVIOUS
    <3> HIDE DEF acks
    <3> QED BY <1>1, <2>1, <3>2, <3>3 DEF IsAcks
  <2> HIDE DEF acks
  <2>3. CASE pending' = [pending EXCEPT ![n] = acks] /\ UNCHANGED <<overwritten, net, repeats>>
    <3>1. DOMAIN pending' = Node /\ \A k \in Node : IsAcks(pending'[k])
      BY <2>2, <2>3
    <3> QED BY <1>3, <2>3, <3>1 DEF AckTimer
  <2>4. ASSUME NEW q \in peers[n],
               Send({Rumor(n, q, acks[p].rumor)}),
               Repeat(n, acks, overwritten[n], acks[p].rumor, q)
        PROVE  TypeOK'
    <3>1. net' \subseteq Packet
      BY <1>1, <2>2, <2>4, RumorType DEF Send
    <3>2. MongeringType'
      BY <1>1, <2>2, <2>4, WaitForAckType DEF Repeat
    <3>3. repeats' \in Nat
      BY <2>4 DEF Repeat
    <3> QED BY <1>3, <3>1, <3>2, <3>3 DEF AckTimer, MongeringType
  <2> QED BY <1>3, <2>3, <2>4 DEF AckTimer, acks
<1>4. ASSUME NEW r \in BagToSet(overwritten[n]), OverwrittenTimer(n, r) PROVE TypeOK'
  <2> DEFINE rest == overwritten[n] (-) SetToBag({r})
  <2>1. r \in RumorMessage
    OBVIOUS
  <2>2. BagToSet(rest) \subseteq RumorMessage
    BY DEF BagToSet, SetToBag, (-)
  <2> HIDE DEF rest
  <2>3. CASE overwritten' = [overwritten EXCEPT ![n] = rest] /\ UNCHANGED <<pending, net, repeats>>
    BY <1>4, <2>2, <2>3 DEF OverwrittenTimer
  <2>4. ASSUME NEW q \in peers[n],
               Send({Rumor(n, q, r)}), Repeat(n, pending[n], rest, r, q)
        PROVE  TypeOK'
    <3>1. net' \subseteq Packet
      BY <1>1, <2>1, <2>4, RumorType DEF Send
    <3>2. MongeringType'
      BY <1>1, <2>1, <2>2, <2>4, WaitForAckType DEF Repeat
    <3>3. repeats' \in Nat
      BY <2>4 DEF Repeat
    <3> QED BY <1>4, <3>1, <3>2, <3>3 DEF OverwrittenTimer, MongeringType
  <2> QED BY <1>4, <2>3, <2>4 DEF OverwrittenTimer, rest
<1>5. ASSUME NEW p \in Node, AntiEntropy(n, p) PROVE TypeOK'
  BY <1>5, StatusType DEF AntiEntropy, Send, mongering
<1>6. CASE SendRoutingMessage(n)
  <2> DEFINE r == [origin |-> n, id |-> -1, last |-> NoNode]
  <2>1. r \in RumorMessage
    BY NodeAssumption DEF RumorMessage
  <2> HIDE DEF r
  <2>2. {Rumor(n, p, r) : p \in peers[n]} \in SUBSET Packet
    BY <1>1, <2>1, RumorType
  <2>3. net' \subseteq Packet
    BY <1>6, <2>2 DEF SendRoutingMessage, Send, r
  <2> QED BY <1>6, <2>3 DEF SendRoutingMessage, mongering
<1> QED BY <1>2, <1>3, <1>4, <1>5, <1>6

\* Every step keeps the types.
LEMMA TypeNext == TypeOK /\ [Next]_vars => TypeOK'
<1> SUFFICES ASSUME TypeOK, [Next]_vars PROVE TypeOK'
  OBVIOUS
<1>1. ASSUME NEW m \in net, Lose(m) PROVE TypeOK'
  BY <1>1 DEF TypeOK, Lose, mongering
<1>2. CASE UNCHANGED vars
  BY <1>2 DEF TypeOK, vars, mongering
<1> QED BY <1>1, <1>2, TypeDeliver, TypeOwnStep DEF Next

\* In every execution the variables have their types, each vector clock has one
\* entry per origin, and no node has a route to itself.
THEOREM GossipTypeCorrect == Spec => []TypeOK
BY TypeInit, TypeNext, PTL DEF Spec

-----------------------------------------------------------------------------
(***************************************************************************)
(* Vector clocks.                                                          *)
(***************************************************************************)

\* What is counted stays counted when more is seen.
LEMMA CountedGrows ==
    ASSUME NEW want, NEW msgs, NEW more, msgs \subseteq more, Counted(want, msgs)
    PROVE  Counted(want, more)
BY DEF Counted

\* updateVectorClock counts a rumor at most once it is there.
LEMMA UpdateCounted ==
    ASSUME NEW want \in Want, NEW r, r.origin \in Node, r.id \in Nat \ {0},
           NEW msgs, Counted(want, msgs)
    PROVE  Counted(UpdateVectorClock(want, r), msgs \cup {Key(r)})
<1> DEFINE Entry == [origin : Node, next : Nat \ {0}]
           up == UpdateVectorClock(want, r)
<1>1. want \in Seq(Entry)
  BY DEF Want
<1>2. ASSUME NEW i \in DOMAIN want
      PROVE  want[i] \in Entry
  <2> HIDE DEF Entry
  <2> QED BY <1>1, ElementOfSeq
<1>3. CASE r.origin \in Origins(want)
  <2>1. DOMAIN up = DOMAIN want
    BY <1>3 DEF UpdateVectorClock
  <2>2. ASSUME NEW i \in DOMAIN want
        PROVE  /\ up[i].origin = want[i].origin
               /\ \/ up[i].next = want[i].next
                  \/ /\ up[i].next = want[i].next + 1
                     /\ [origin |-> want[i].origin, id |-> want[i].next] = Key(r)
    <3>1. CASE want[i].origin = r.origin /\ want[i].next = r.id
      <4>1. up[i] = [want[i] EXCEPT !.next = @ + 1]
        BY <1>3, <3>1 DEF UpdateVectorClock
      <4> QED BY <1>2, <3>1, <4>1 DEF Key
    <3>2. CASE ~ (want[i].origin = r.origin /\ want[i].next = r.id)
      <4>1. up[i] = want[i]
        BY <1>3, <3>2 DEF UpdateVectorClock
      <4> QED BY <4>1
    <3> QED BY <3>1, <3>2
  <2> HIDE DEF up
  <2>3. ASSUME NEW i \in DOMAIN up, NEW id \in 1 .. up[i].next - 1
        PROVE  [origin |-> up[i].origin, id |-> id] \in msgs \cup {Key(r)}
    <3>1. i \in DOMAIN want /\ want[i].next \in Nat
      BY <1>2, <2>1
    <3>2. id \in 1 .. want[i].next - 1 \/ (id = want[i].next /\ up[i].next = want[i].next + 1)
      BY <2>2, <3>1
    <3>3. CASE id \in 1 .. want[i].next - 1
      BY <2>2, <3>1, <3>3 DEF Counted
    <3>4. CASE id = want[i].next /\ up[i].next = want[i].next + 1
      <4>1. [origin |-> want[i].origin, id |-> want[i].next] = Key(r)
        BY <2>2, <3>1, <3>4
      <4> QED BY <2>2, <3>1, <3>4, <4>1
    <3> QED BY <3>2, <3>3, <3>4
  <2> QED BY <2>3 DEF Counted, up
<1>4. CASE r.origin \notin Origins(want)
  <2> DEFINE new == [origin |-> r.origin, next |-> IF r.id = 1 THEN 2 ELSE 1]
  <2>1. up = Append(want, new)
    BY <1>4 DEF UpdateVectorClock
  <2>2. \A i \in DOMAIN up : (i \in DOMAIN want /\ up[i] = want[i]) \/ up[i] = new
    BY <1>1, <2>1
  <2>3. \A id \in 1 .. new.next - 1 : [origin |-> new.origin, id |-> id] = Key(r)
    BY DEF Key
  <2> HIDE DEF new, up
  <2>4. Counted(up, msgs \cup {Key(r)})
    BY <2>2, <2>3 DEF Counted
  <2> QED BY <2>4 DEF up
<1> QED BY <1>3, <1>4

\* A status tells the clock of its sender.
LEMMA StatusTellsClock ==
    ASSUME TypeOK, Next
    PROVE  \A m \in net' : \/ m \in net \/ m.type # "Status"
                           \/ m.src \in Node /\ m.want = clock'[m.src]
<1>1. ASSUME NEW m \in net, ReceiveRoutingRumor(m)
      PROVE  \A k \in net' : k \in net \/ k.type # "Status"
  BY <1>1 DEF ReceiveRoutingRumor, Exchange, Rumor
<1>2. ASSUME NEW m \in net, ReceiveKnownRumor(m) \/ Lose(m)
      PROVE  net' \subseteq net
  BY <1>2 DEF ReceiveKnownRumor, Exchange, Lose
<1>3. ASSUME NEW m \in net, ReceiveNewRumor(m)
      PROVE  \A k \in net' : \/ k \in net \/ k.type # "Status"
                             \/ k.src \in Node /\ k.want = clock'[k.src]
  <2>1. m.dst \in Node
    <3>1. m \in Packet
      BY DEF TypeOK
    <3> QED BY <3>1 DEF Packet
  <2> QED BY <1>3, <2>1 DEF ReceiveNewRumor, Exchange, Rumor, Status
<1>4. ASSUME NEW m \in net, ReceiveStatus(m)
      PROVE  \A k \in net' : \/ k \in net \/ k.type # "Status"
                             \/ k.src \in Node /\ k.want = clock'[k.src]
  <2>1. m.dst \in Node
    <3>1. m \in Packet
      BY DEF TypeOK
    <3> QED BY <3>1 DEF Packet
  <2> QED BY <1>4, <2>1 DEF ReceiveStatus, Exchange, Rumor, Status
<1>5. ASSUME NEW n \in Node,
             \/ ReceiveFromClient(n)
             \/ \E p \in Node : AckTimer(n, p) 
             \/ \E r \in BagToSet(overwritten[n]) : OverwrittenTimer(n, r)
             \/ SendRoutingMessage(n)
      PROVE  \A k \in net' : k \in net \/ k.type # "Status"
  <2>1. ASSUME NEW dsts, NEW r, Send({Rumor(n, q, r) : q \in dsts})
        PROVE  \A k \in net' : k \in net \/ k.type # "Status"
    BY <2>1 DEF Send, Rumor
  <2>2. ASSUME NEW q, NEW r, Send({Rumor(n, q, r)})
        PROVE  \A k \in net' : k \in net \/ k.type # "Status"
    BY <2>2 DEF Send, Rumor
  <2>3. CASE net' = net
    BY <2>3
  <2>4. CASE ReceiveFromClient(n)
    BY <2>2, <2>3, <2>4 DEF ReceiveFromClient
  <2>5. ASSUME NEW p \in Node, AckTimer(n, p)
        PROVE  \A k \in net' : k \in net \/ k.type # "Status"
    BY <2>2, <2>3, <2>5 DEF AckTimer
  <2>6. ASSUME NEW r \in BagToSet(overwritten[n]), OverwrittenTimer(n, r)
        PROVE  \A k \in net' : k \in net \/ k.type # "Status"
    BY <2>2, <2>3, <2>6 DEF OverwrittenTimer
  <2>7. CASE SendRoutingMessage(n)
    BY <2>1, <2>7 DEF SendRoutingMessage
  <2> QED BY <1>5, <2>4, <2>5, <2>6, <2>7
<1>6. ASSUME NEW n \in Node, NEW p \in Node, AntiEntropy(n, p)
      PROVE  \A k \in net' : k \in net \/ (k.src = n /\ k.want = clock'[k.src])
  BY <1>6 DEF AntiEntropy, Send, Status
<1> QED BY <1>1, <1>2, <1>3, <1>4, <1>5, <1>6 DEF Next, Deliver

\* A node forgets no rumor, and counts none that it has not.
LEMMA CountsWhatIsSeen ==
    ASSUME TypeOK, ClockIsBehind, [Next]_vars, NEW n \in Node
    PROVE  seen[n] \subseteq seen'[n] /\ Counted(clock'[n], seen'[n])
<1>1. Counted(clock[n], seen[n]) /\ clock[n] \in Want
  BY DEF ClockIsBehind, TypeOK
<1>2. CASE UNCHANGED <<clock, seen>>
  BY <1>1, <1>2
<1>3. ASSUME NEW k \in Node, NEW r, r.origin \in Node, r.id \in Nat \ {0},
             Learn(k, r) \/ LosesAppend(k),
             seen' = [seen EXCEPT ![k] = @ \cup {Key(r)}]
      PROVE  seen[n] \subseteq seen'[n] /\ Counted(clock'[n], seen'[n])
  <2>1. seen[n] \subseteq seen'[n]
    BY <1>3 DEF TypeOK
  <2>2. CASE clock'[n] = clock[n]
    BY <1>1, <2>1, <2>2, CountedGrows
  <2>3. CASE clock'[n] # clock[n]
    <3>1. n = k /\ clock'[n] = UpdateVectorClock(clock[n], r) /\ seen'[n] = seen[n] \cup {Key(r)}
      BY <1>3, <2>3 DEF TypeOK, Learn, LosesAppend
    <3> QED BY <1>1, <1>3, <2>1, <3>1, UpdateCounted
  <2> QED BY <2>2, <2>3
<1>4. ASSUME NEW m \in net, ReceiveNewRumor(m)
      PROVE  seen[n] \subseteq seen'[n] /\ Counted(clock'[n], seen'[n])
  <2>1. m \in Packet /\ m.type = "Rumor" /\ peers \in [Node -> SUBSET Node]
    BY <1>4 DEF TypeOK, ReceiveNewRumor
  <2>2. m.dst \in Node /\ Forwarded(m) \in RumorMessage
    BY <2>1, ReceivedRumorType
  <2>3. Forwarded(m).origin \in Node /\ Forwarded(m).id \in Nat \ {0}
    BY <1>4, <2>2 DEF ReceiveNewRumor, IsRouting, RumorMessage
  <2> QED BY <1>3, <1>4, <2>2, <2>3 DEF ReceiveNewRumor
<1>5. ASSUME NEW k \in Node, ReceiveFromClient(k)
      PROVE  seen[n] \subseteq seen'[n] /\ Counted(clock'[n], seen'[n])
  <2> DEFINE r == [origin |-> k, id |-> clientNextID[k], last |-> NoNode]
  <2>1. r.origin \in Node /\ r.id \in Nat \ {0}
    BY DEF TypeOK
  <2>2. /\ Learn(k, r) \/ LosesAppend(k)
        /\ seen' = [seen EXCEPT ![k] = @ \cup {Key(r)}]
    BY <1>5 DEF ReceiveFromClient
  <2> HIDE DEF r
  <2> QED BY <1>3, <2>1, <2>2
<1>6. ASSUME NEW m \in net,
             ReceiveRoutingRumor(m) \/ ReceiveKnownRumor(m) \/ ReceiveStatus(m) \/ Lose(m)
      PROVE  UNCHANGED <<clock, seen>>
  BY <1>6 DEF ReceiveRoutingRumor, ReceiveKnownRumor, ReceiveStatus, Lose
<1>7. ASSUME NEW k \in Node,
             \/ \E p \in Node : AckTimer(k, p) \/ AntiEntropy(k, p)
             \/ \E r \in BagToSet(overwritten[k]) : OverwrittenTimer(k, r)
             \/ SendRoutingMessage(k)
      PROVE  UNCHANGED <<clock, seen>>
  BY <1>7 DEF AckTimer, AntiEntropy, OverwrittenTimer, SendRoutingMessage
<1>8. CASE UNCHANGED vars
  BY <1>2, <1>8 DEF vars
<1> QED BY <1>2, <1>4, <1>5, <1>6, <1>7, <1>8 DEF Next, Deliver

\* In every execution no vector clock, and no status under way, is past a rumor
\* its node has not received, whatever order rumors come in and whichever
\* appends a race undoes.
THEOREM ClockCorrect == Spec => []ClockIsBehind
<1>1. Init => ClockIsBehind
  BY DEF Init, ClockIsBehind, Counted
<1>2. ASSUME TypeOK, ClockIsBehind, [Next]_vars PROVE ClockIsBehind'
  <2>1. ASSUME NEW m \in net', m.type = "Status"
        PROVE  Counted(m.want, seen'[m.src])
    <3>1. CASE m \in net
      <4>1. m.src \in Node
        BY <1>2, <3>1 DEF TypeOK, Packet
      <4>2. Counted(m.want, seen[m.src])
        BY <1>2, <2>1, <3>1 DEF ClockIsBehind
      <4>3. seen[m.src] \subseteq seen'[m.src]
        BY <1>2, <4>1, CountsWhatIsSeen
      <4> QED BY <4>2, <4>3, CountedGrows
    <3>2. CASE m \notin net
      <4>1. m.src \in Node /\ m.want = clock'[m.src]
        BY <1>2, <2>1, <3>2, StatusTellsClock DEF vars
      <4> QED BY <1>2, <4>1, CountsWhatIsSeen
    <3> QED BY <3>1, <3>2
  <2>2. \A n \in Node : Counted(clock'[n], seen'[n])
    BY <1>2, CountsWhatIsSeen
  <2> QED BY <2>1, <2>2 DEF ClockIsBehind
<1> QED BY <1>1, <1>2, GossipTypeCorrect, PTL DEF Spec

-----------------------------------------------------------------------------
(***************************************************************************)
(* Routes.                                                                 *)
(***************************************************************************)

\* A node's table is up to date with the keys it has seen; and the other half,
\* a route comes from a rumor it has seen or from a routing rumor.
Newest(n, table, keys) ==
    /\ \A k \in keys : k.origin # n => k.origin \in DOMAIN table /\ table[k.origin].seq >= k.id
    /\ \A o \in DOMAIN table : table[o].seq >= 1 => [origin |-> o, id |-> table[o].seq] \in keys

RouteInv == \A n \in Node : Newest(n, routes[n], seen[n])

\* Tables up to date with the keys seen hold routes from the newest rumors.
LEMMA RouteInvSuffices == TypeOK /\ RouteInv => RouteIsNewest
<1> SUFFICES ASSUME TypeOK, RouteInv, NEW n \in Node, NEW k \in seen[n], k.origin # n
             PROVE  /\ k.origin \in DOMAIN routes[n]
                    /\ [origin |-> k.origin, id |-> routes[n][k.origin].seq] \in seen[n]
                    /\ routes[n][k.origin].seq >= k.id
  BY DEF RouteIsNewest
<1>1. k.id \in Nat \ {0}
  BY DEF TypeOK, RumorKey
<1>2. k.origin \in DOMAIN routes[n] /\ routes[n][k.origin].seq >= k.id
  BY DEF RouteInv, Newest
<1>3. routes[n][k.origin].seq \in {-1} \cup Nat
  BY <1>2 DEF TypeOK, IsTable
<1> QED BY <1>1, <1>2, <1>3 DEF RouteInv, Newest

\* updateRoutingTable with a rumor that is seen from then on, or with a routing
\* rumor, keeps the table right.
LEMMA UpdateRoutingTableNewest ==
    ASSUME NEW n \in Node, NEW table, IsTable(n, table), NEW keys \in SUBSET RumorKey,
           Newest(n, table, keys),
           NEW r \in RumorMessage, NEW from \in Node, NEW more,
           IF IsRouting(r) THEN more = keys ELSE more = keys \cup {Key(r)}
    PROVE  Newest(n, UpdateRoutingTable(n, table, r, from), more)
<1> DEFINE up == UpdateRoutingTable(n, table, r, from)
<1>1. r.id \in {-1} \cup Nat /\ (\A k \in keys : k.id \in Nat \ {0})
  BY DEF RumorMessage, RumorKey
<1>2. \A o \in DOMAIN table : table[o].seq \in {-1} \cup Nat
  BY DEF IsTable
<1>3. keys \subseteq more
  OBVIOUS
<1>4. \A k \in more : k \in keys \/ (~ IsRouting(r) /\ k.origin = r.origin /\ k.id = r.id)
  BY DEF Key
<1>5. CASE r.origin = n
  <2>1. up = table
    BY <1>5 DEF UpdateRoutingTable
  <2> QED BY <1>3, <1>4, <1>5, <2>1 DEF Newest
<1>6. CASE r.origin \in DOMAIN table /\ r.id <= table[r.origin].seq
  <2>1. up = table
    BY <1>6 DEF UpdateRoutingTable
  <2> QED BY <1>1, <1>2, <1>3, <1>4, <1>6, <2>1 DEF Newest
<1>7. CASE r.origin # n /\ ~ (r.origin \in DOMAIN table /\ r.id <= table[r.origin].seq)
  <2>1. /\ DOMAIN up = DOMAIN table \cup {r.origin}
        /\ \A o \in DOMAIN table : o # r.origin => up[o] = table[o]
        /\ up[r.origin].seq = r.id
    BY <1>7 DEF UpdateRoutingTable
  <2> HIDE DEF up
  <2>2. ASSUME NEW k \in more, k.origin # n
        PROVE  k.origin \in DOMAIN up /\ up[k.origin].seq >= k.id
    <3>1. CASE k.origin # r.origin
      BY <1>4, <2>1, <2>2, <3>1 DEF Newest
    <3>2. CASE k.origin = r.origin /\ k \in keys
      BY <1>1, <1>2, <1>7, <2>1, <2>2, <3>2 DEF Newest
    <3>3. CASE k.origin = r.origin /\ k.id = r.id
      BY <1>1, <2>1, <3>3
    <3> QED BY <1>4, <3>1, <3>2, <3>3
  <2>3. ASSUME NEW o \in DOMAIN up, up[o].seq >= 1
        PROVE  [origin |-> o, id |-> up[o].seq] \in more
    <3>1. CASE o = r.origin
      BY <1>1, <2>1, <2>3, <3>1 DEF IsRouting, Key
    <3>2. CASE o # r.origin
      BY <1>3, <2>1, <2>3, <3>2 DEF Newest
    <3> QED BY <3>1, <3>2
  <2> QED BY <2>2, <2>3 DEF Newest, up
<1> QED BY <1>5, <1>6, <1>7

\* Every step keeps every table up to date.
LEMMA NewestNext ==
    ASSUME TypeOK, [Next]_vars, NEW n \in Node, Newest(n, routes[n], seen[n])
    PROVE  Newest(n, routes'[n], seen'[n])
<1> DEFINE Good == Newest(n, routes'[n], seen'[n])
<1>1. CASE UNCHANGED <<routes, seen>>
  BY <1>1
<1>2. ASSUME NEW m \in net, ReceiveRoutingRumor(m) \/ ReceiveNewRumor(m)
      PROVE  Good
  <2>1. m \in Packet /\ m.type = "Rumor" /\ peers \in [Node -> SUBSET Node]
    BY <1>2 DEF TypeOK, ReceiveRoutingRumor, ReceiveNewRumor
  <2>2. /\ m.src \in Node /\ m.dst \in Node
        /\ m.rumor \in RumorMessage /\ Forwarded(m) \in RumorMessage
        /\ Forwarded(m).origin = m.rumor.origin /\ Forwarded(m).id = m.rumor.id
    BY <2>1, ReceivedRumorType
  <2>3. IsTable(n, routes[n]) /\ seen[n] \in SUBSET RumorKey
    BY DEF TypeOK
  <2>4. CASE n # m.dst
    <3>1. routes'[n] = routes[n] /\ seen'[n] = seen[n]
      BY <1>2, <2>4 DEF TypeOK, ReceiveRoutingRumor, ReceiveNewRumor
    <3> QED BY <3>1
  <2>5. CASE n = m.dst /\ ReceiveRoutingRumor(m)
    <3>1. /\ routes'[n] = UpdateRoutingTable(n, routes[n], m.rumor, m.src)
          /\ seen'[n] = seen[n] /\ IsRouting(m.rumor)
      BY <2>5 DEF TypeOK, ReceiveRoutingRumor
    <3> QED BY <2>2, <2>3, <3>1, UpdateRoutingTableNewest
  <2>6. CASE n = m.dst /\ ReceiveNewRumor(m)
    <3>1. /\ routes'[n] = UpdateRoutingTable(n, routes[n], Forwarded(m), m.src)
          /\ seen'[n] = seen[n] \cup {Key(Forwarded(m))} /\ ~ IsRouting(Forwarded(m))
      BY <2>6 DEF TypeOK, ReceiveNewRumor
    <3> QED BY <2>2, <2>3, <3>1, UpdateRoutingTableNewest
  <2> QED BY <1>2, <2>4, <2>5, <2>6
<1>3. ASSUME NEW k \in Node, ReceiveFromClient(k)
      PROVE  Good
  <2>1. \A key \in seen'[n] : key \in seen[n] \/ key.origin = n
    BY <1>3 DEF TypeOK, ReceiveFromClient, Key
  <2>2. routes'[n] = routes[n] /\ seen[n] \subseteq seen'[n]
    BY <1>3 DEF TypeOK, ReceiveFromClient
  <2> QED BY <2>1, <2>2 DEF Newest
<1>4. ASSUME NEW m \in net, ReceiveKnownRumor(m) \/ ReceiveStatus(m) \/ Lose(m)
      PROVE  UNCHANGED <<routes, seen>>
  BY <1>4 DEF ReceiveKnownRumor, ReceiveStatus, Lose
<1>5. ASSUME NEW k \in Node,
             \/ \E p \in Node : AckTimer(k, p) \/ AntiEntropy(k, p)
             \/ \E r \in BagToSet(overwritten[k]) : OverwrittenTimer(k, r)
             \/ SendRoutingMessage(k)
      PROVE  UNCHANGED <<routes, seen>>
  BY <1>5 DEF AckTimer, AntiEntropy, OverwrittenTimer, SendRoutingMessage
<1>6. CASE UNCHANGED vars
  BY <1>1, <1>6 DEF vars
<1> QED BY <1>1, <1>2, <1>3, <1>4, <1>5, <1>6 DEF Next, Deliver

\* In every execution the route of a node to an origin comes from the newest of
\* the origin's rumors it has received.
THEOREM RouteCorrect == Spec => []RouteIsNewest
<1>1. Init => RouteInv
  BY DEF Init, RouteInv, Newest
<1>2. TypeOK /\ RouteInv /\ [Next]_vars => RouteInv'
  BY NewestNext DEF RouteInv
<1> QED BY <1>1, <1>2, RouteInvSuffices, GossipTypeCorrect, PTL DEF Spec

-----------------------------------------------------------------------------
(***************************************************************************)
(* Following routes.  On the way to an origin the rumors that made the     *)
(* routes are newer from node to node, or as new and learned earlier.  The *)
(* state keeps no time of learning: a rank stands for it, per origin.      *)
(***************************************************************************)

\* A rumor n may pass on: its origin has made it, and n is the origin or has a
\* route at least as new.
Has(n, r, rts, ids) ==
    r.origin \in Node =>
        /\ r.id < ids[r.origin]
        /\ \/ n = r.origin
           \/ r.origin \in DOMAIN rts[n] /\ r.id <= rts[n][r.origin].seq

Descends(rts, o, rank) ==
    \A n \in Node : o \in DOMAIN rts[n] =>
        \/ rts[n][o].via = o
        \/ /\ o \in DOMAIN rts[rts[n][o].via]
           /\ \/ rts[rts[n][o].via][o].seq > rts[n][o].seq
              \/ /\ rts[rts[n][o].via][o].seq = rts[n][o].seq
                 /\ rank[rts[n][o].via] < rank[n]

RoutesGood(rts, ids) ==
    /\ \A n, o \in Node : o \in DOMAIN rts[n] => rts[n][o].seq < ids[o]
    /\ \A o \in Node : \E rank \in [Node -> Nat] : Descends(rts, o, rank)

Grown(rts, new) ==
    \A n \in Node : \A o \in DOMAIN rts[n] :
        o \in DOMAIN new[n] /\ rts[n][o].seq <= new[n][o].seq

\* Every set of natural numbers but the empty one has a least element.
LEMMA LeastNatural ==
    ASSUME NEW S \in SUBSET Nat, S # {}
    PROVE  \E least \in S : \A x \in S : least <= x
<1>1. PICK least \in S : \A x \in S : ~ (<<x, least>> \in OpToRel(<, Nat))
  BY NatLessThanWellFounded, WFMin, Zenon
<1>2. OpToRel(<, Nat) = {ss \in Nat \X Nat : ss[1] < ss[2]}
  BY Zenon DEF OpToRel
<1>3. \A x \in S : ~ (x < least)
  BY <1>1, <1>2, Zenon
<1> QED BY <1>3

\* n hears r from another node.
Updates(rts, new, n, r, from) ==
    /\ new[n] = UpdateRoutingTable(n, rts[n], r, from)
    /\ \A k \in Node : k # n => new[k] = rts[k]

\* The ranking in which n comes just above another node.
RankedAbove(rank, n, from) == [rank EXCEPT ![n] = rank[from] + 1]

\* It ranks all other nodes as before.
LEMMA RankedAboveRanks ==
    ASSUME NEW rank \in [Node -> Nat], NEW n \in Node, NEW from \in Node
    PROVE  /\ RankedAbove(rank, n, from) \in [Node -> Nat]
           /\ RankedAbove(rank, n, from)[n] = rank[from] + 1
           /\ \A k \in Node : k # n => RankedAbove(rank, n, from)[k] = rank[k]
BY DEF RankedAbove

\* A node that learns a newer route from a node that may pass the rumor on.
LEMMA LearnedRoute ==
    ASSUME NEW rts, NEW ids \in [Node -> Nat], DOMAIN rts = Node,
           \A k \in Node : IsTable(k, rts[k]),
           RoutesGood(rts, ids),
           NEW n \in Node, NEW r \in RumorMessage, NEW from \in Node,
           Has(from, r, rts, ids),
           NEW new, Updates(rts, new, n, r, from)
    PROVE  /\ RoutesGood(new, ids)
           /\ Grown(rts, new)
           /\ Has(n, r, new, ids)
<1>1. ASSUME NEW k \in Node, NEW o \in DOMAIN rts[k]
      PROVE  rts[k][o].seq \in {-1} \cup Nat /\ rts[k][o].via \in Node
  BY DEF IsTable
<1>2. r.id \in {-1} \cup Nat
  BY DEF RumorMessage
<1>3. CASE r.origin = n \/ (r.origin \in DOMAIN rts[n] /\ r.id <= rts[n][r.origin].seq)
  <2>1. \A k \in Node : new[k] = rts[k]
    BY <1>3 DEF UpdateRoutingTable, Updates
  <2>2. Has(n, r, new, ids) /\ Grown(rts, new)
    BY <1>1, <1>3, <2>1 DEF Grown, Has
  <2>3. \A o \in Node : \A rank : Descends(rts, o, rank) => Descends(new, o, rank)
    BY <1>1, <2>1 DEF Descends
  <2> QED BY <2>1, <2>2, <2>3 DEF RoutesGood
<1>4. CASE r.origin # n /\ ~ (r.origin \in DOMAIN rts[n] /\ r.id <= rts[n][r.origin].seq)
  <2>1. new[n] = [o \in DOMAIN rts[n] \cup {r.origin} |->
                    IF o = r.origin THEN [seq |-> r.id, via |-> from] ELSE rts[n][o]]
    BY <1>4 DEF UpdateRoutingTable, Updates
  <2>2. /\ DOMAIN new[n] = DOMAIN rts[n] \cup {r.origin}
        /\ new[n][r.origin].seq = r.id /\ new[n][r.origin].via = from
        /\ \A o \in DOMAIN rts[n] : o # r.origin => new[n][o] = rts[n][o]
        /\ \A k \in Node : k # n => new[k] = rts[k]
    BY <2>1 DEF Updates
  <2>3. Grown(rts, new)
    BY <1>1, <1>2, <1>4, <2>2 DEF Grown
  <2>4. Has(n, r, new, ids)
    BY <1>2, <2>2 DEF Has
  <2>5. ASSUME NEW k \in Node, NEW o \in Node, o \in DOMAIN new[k]
        PROVE  new[k][o].seq < ids[o]
    <3>1. CASE k = n /\ o = r.origin
      BY <2>2, <3>1 DEF Has
    <3>2. CASE ~ (k = n /\ o = r.origin)
      <4>1. o \in DOMAIN rts[k] /\ new[k][o] = rts[k][o]
        BY <2>2, <2>5, <3>2
      <4> QED BY <4>1 DEF RoutesGood
    <3> QED BY <3>1, <3>2
  <2>6. ASSUME NEW o \in Node
        PROVE  \E rank \in [Node -> Nat] : Descends(new, o, rank)
    <3>1. PICK rank \in [Node -> Nat] : Descends(rts, o, rank)
      BY DEF RoutesGood
    <3>2. CASE o # r.origin
      <4>1. \A k \in Node : /\ o \in DOMAIN new[k] <=> o \in DOMAIN rts[k]
                            /\ o \in DOMAIN rts[k] => new[k][o] = rts[k][o]
        BY <2>2, <3>2
      <4>2. Descends(new, o, rank)
        BY <1>1, <3>1, <4>1 DEF Descends
      <4> QED BY <4>2
    <3>3. CASE o = r.origin
      <4> DEFINE rank2 == RankedAbove(rank, n, from)
      <4>1. /\ rank2 \in [Node -> Nat] /\ rank2[n] = rank[from] + 1
            /\ \A k \in Node : k # n => rank2[k] = rank[k]
        BY RankedAboveRanks
      <4>2. from = o \/ (from # n /\ o \in DOMAIN rts[from] /\ r.id <= rts[from][o].seq)
        BY <1>4, <3>3 DEF Has
      <4>3. ASSUME NEW k \in Node, o \in DOMAIN new[k], new[k][o].via # o
            PROVE  /\ o \in DOMAIN new[new[k][o].via]
                   /\ \/ new[new[k][o].via][o].seq > new[k][o].seq
                      \/ /\ new[new[k][o].via][o].seq = new[k][o].seq
                         /\ rank2[new[k][o].via] < rank2[k]
        <5>1. CASE k = n
          <6>1. new[k][o].via = from /\ new[k][o].seq = r.id /\ from # n
            BY <2>2, <3>3, <4>2, <4>3, <5>1
          <6>2. new[from] = rts[from] /\ o \in DOMAIN rts[from] /\ r.id <= rts[from][o].seq
            BY <2>2, <4>2, <4>3, <6>1
          <6>3. rts[from][o].seq \in {-1} \cup Nat /\ rank[from] \in Nat
            BY <1>1, <6>2
          <6> QED BY <1>2, <4>1, <5>1, <6>1, <6>2, <6>3
        <5>2. CASE k # n
          <6> DEFINE p == rts[k][o].via
          <6>1. new[k] = rts[k] /\ o \in DOMAIN rts[k] /\ p \in Node /\ p # o
            BY <1>1, <2>2, <4>3, <5>2
          <6>2. /\ o \in DOMAIN rts[p]
                /\ \/ rts[p][o].seq > rts[k][o].seq
                   \/ rts[p][o].seq = rts[k][o].seq /\ rank[p] < rank[k]
            BY <3>1, <6>1 DEF Descends
          <6>3. rts[p][o].seq \in {-1} \cup Nat /\ rts[k][o].seq \in {-1} \cup Nat
            BY <1>1, <6>1, <6>2
          <6>4. CASE p = n
            <7>1. rts[n][o].seq < r.id /\ new[n][o].seq = r.id /\ o \in DOMAIN new[n]
              BY <1>1, <1>2, <1>4, <2>2, <3>3, <6>2, <6>4
            <7> QED BY <1>2, <6>1, <6>2, <6>3, <6>4, <7>1
          <6>5. CASE p # n
            BY <2>2, <4>1, <5>2, <6>1, <6>2, <6>5
          <6> QED BY <6>4, <6>5
        <5> QED BY <5>1, <5>2
      <4>4. Descends(new, o, rank2)
        BY <4>3 DEF Descends
      <4> QED BY <4>1, <4>4
    <3> QED BY <3>2, <3>3
  <2> QED BY <2>3, <2>4, <2>5, <2>6 DEF RoutesGood
<1> QED BY <1>3, <1>4

\* The rumors under way, the rumors kept to be mongered again and the rumors
\* seen may all be passed on.
NetHas(packets, rts, ids) ==
    \A m \in packets : m.type = "Rumor" => Has(m.src, m.rumor, rts, ids)

AcksHave(n, acks, timers, rts, ids) ==
    /\ \A p \in DOMAIN acks : Has(n, acks[p].rumor, rts, ids)
    /\ \A r \in BagToSet(timers) : Has(n, r, rts, ids)

ReachInv ==
    /\ RoutesGood(routes, clientNextID)
    /\ NetHas(net, routes, clientNextID)
    /\ \A n \in Node : AcksHave(n, pending[n], overwritten[n], routes, clientNextID)
    /\ \A n \in Node : \A k \in seen[n] : k.id < clientNextID[k.origin]

\* A rumor a node may pass on it may pass on when tables and counters have grown.
LEMMA HasStays ==
    ASSUME NEW rts, NEW new, Grown(rts, new),
           \A k \in Node : IsTable(k, rts[k]) /\ IsTable(k, new[k]),
           NEW ids \in [Node -> Nat], NEW ids2 \in [Node -> Nat],
           \A o \in Node : ids[o] <= ids2[o],
           NEW n \in Node, NEW r \in RumorMessage, Has(n, r, rts, ids)
    PROVE  Has(n, r, new, ids2)
<1> SUFFICES ASSUME r.origin \in Node
             PROVE  /\ r.id < ids2[r.origin]
                    /\ \/ n = r.origin
                       \/ r.origin \in DOMAIN new[n] /\ r.id <= new[n][r.origin].seq
  BY DEF Has
<1>1. r.id \in {-1} \cup Nat
  BY DEF RumorMessage
<1>2. r.id < ids2[r.origin]
  BY <1>1 DEF Has
<1>3. ASSUME r.origin \in DOMAIN rts[n], r.id <= rts[n][r.origin].seq
      PROVE  r.origin \in DOMAIN new[n] /\ r.id <= new[n][r.origin].seq
  <2>1. r.origin \in DOMAIN new[n] /\ rts[n][r.origin].seq <= new[n][r.origin].seq
    BY <1>3 DEF Grown
  <2>2. rts[n][r.origin].seq \in {-1} \cup Nat /\ new[n][r.origin].seq \in {-1} \cup Nat
    BY <1>3, <2>1 DEF IsTable
  <2> QED BY <1>1, <1>3, <2>1, <2>2
<1> QED BY <1>2, <1>3 DEF Has

\* Passing a rumor on, or waiting for its status, asks only that the node have it.
LEMMA WaitForAckHas ==
    ASSUME TypeOK, NEW n \in Node, NEW acks, NEW timers, NEW r, NEW p,
           NEW rts, NEW ids,
           \A k \in Node : AcksHave(k, pending[k], overwritten[k], rts, ids),
           AcksHave(n, acks, timers, rts, ids), Has(n, r, rts, ids),
           WaitForAck(n, acks, timers, r, p)
    PROVE  \A k \in Node : AcksHave(k, pending'[k], overwritten'[k], rts, ids)
<1> DEFINE new == [q \in DOMAIN acks \cup {p} |->
                     IF q = p THEN [rumor |-> r, running |-> TRUE] ELSE acks[q]]
<1>1. \A q \in DOMAIN new : Has(n, new[q].rumor, rts, ids)
  BY DEF AcksHave
<1>2. ASSUME p \in DOMAIN acks
      PROVE  \A q \in BagToSet(timers (+) SetToBag({acks[p].rumor})) : Has(n, q, rts, ids)
  BY <1>2 DEF AcksHave, BagToSet, SetToBag, (+)
<1> HIDE DEF new
<1>3. pending' = [pending EXCEPT ![n] = new]
  BY DEF WaitForAck, new
<1>4. \A q \in BagToSet(overwritten'[n]) : Has(n, q, rts, ids)
  BY <1>2 DEF WaitForAck, TypeOK, AcksHave
<1>5. \A k \in Node : k # n => pending'[k] = pending[k] /\ overwritten'[k] = overwritten[k]
  BY <1>3 DEF WaitForAck, TypeOK
<1>6. pending'[n] = new
  BY <1>3 DEF TypeOK
<1> QED BY <1>1, <1>4, <1>5, <1>6 DEF AcksHave

\* Packets whose senders have their rumors are in flight, if those sent are such.
LEMMA ExchangeHas ==
    ASSUME NEW m, NEW out, Exchange(m, out), NEW rts, NEW ids,
           NetHas(net, rts, ids), NetHas(out, rts, ids)
    PROVE  NetHas(net', rts, ids)
BY DEF Exchange, NetHas

\* A node that has a rumor may send it.
LEMMA RumorHas ==
    ASSUME NEW n, NEW p, NEW r, NEW rts, NEW ids, Has(n, r, rts, ids)
    PROVE  NetHas({Rumor(n, p, r)}, rts, ids)
BY DEF NetHas, Rumor

\* What is in flight and waited for when tables and counters only grow.
LEMMA ReachStays ==
    ASSUME TypeOK, ReachInv, NEW new, Grown(routes, new),
           \A k \in Node : IsTable(k, new[k]),
           NEW ids \in [Node -> Nat], \A o \in Node : clientNextID[o] <= ids[o]
    PROVE  /\ NetHas(net, new, ids)
           /\ \A n \in Node : AcksHave(n, pending[n], overwritten[n], new, ids)
<1> USE DEF TypeOK
<1>1. clientNextID \in [Node -> Nat]
  OBVIOUS
<1>2. ASSUME NEW m \in net, m.type = "Rumor" PROVE Has(m.src, m.rumor, new, ids)
  <2>1. m.src \in Node /\ m.rumor \in RumorMessage
    BY <1>2 DEF Packet
  <2>2. Has(m.src, m.rumor, routes, clientNextID)
    BY <1>2 DEF ReachInv, NetHas
  <2> QED BY <1>1, <2>1, <2>2, HasStays
<1>3. ASSUME NEW n \in Node, NEW p \in DOMAIN pending[n] PROVE Has(n, pending[n][p].rumor, new, ids)
  <2>1. pending[n][p].rumor \in RumorMessage
    BY DEF IsAcks
  <2>2. Has(n, pending[n][p].rumor, routes, clientNextID)
    BY DEF ReachInv, AcksHave
  <2> QED BY <1>1, <2>1, <2>2, HasStays
<1>4. ASSUME NEW n \in Node, NEW r \in BagToSet(overwritten[n]) PROVE Has(n, r, new, ids)
  <2>1. r \in RumorMessage
    OBVIOUS
  <2>2. Has(n, r, routes, clientNextID)
    BY DEF ReachInv, AcksHave
  <2> QED BY <1>1, <2>1, <2>2, HasStays
<1> QED BY <1>2, <1>3, <1>4 DEF NetHas, AcksHave

\* updateRoutingTable comes before a received rumor is sent on.
LEMMA ReceivedRumorReach ==
    ASSUME TypeOK, ReachInv, NEW m \in net, m.type = "Rumor",
           NEW new, new = [routes EXCEPT ![m.dst] = UpdateRoutingTable(m.dst, @, m.rumor, m.src)]
    PROVE  /\ RoutesGood(new, clientNextID)
           /\ Has(m.dst, Forwarded(m), new, clientNextID)
           /\ NetHas(net, new, clientNextID)
           /\ \A n \in Node : AcksHave(n, pending[n], overwritten[n], new, clientNextID)
<1>1. m \in Packet /\ peers \in [Node -> SUBSET Node]
  BY DEF TypeOK
<1>2. /\ m.src \in Node /\ m.dst \in Node /\ m.rumor \in RumorMessage
      /\ Forwarded(m).origin = m.rumor.origin /\ Forwarded(m).id = m.rumor.id
  BY <1>1, ReceivedRumorType
<1>3. Has(m.src, m.rumor, routes, clientNextID) /\ RoutesGood(routes, clientNextID)
  BY DEF ReachInv, NetHas
<1>4. /\ clientNextID \in [Node -> Nat] /\ DOMAIN routes = Node
      /\ \A k \in Node : IsTable(k, routes[k])
  BY DEF TypeOK
<1>5. \A k \in Node : IsTable(k, new[k])
  <2>1. IsTable(m.dst, UpdateRoutingTable(m.dst, routes[m.dst], m.rumor, m.src))
    BY <1>2, <1>4, UpdateRoutingTableType
  <2> QED BY <1>2, <1>4, <2>1
<1>6. /\ RoutesGood(new, clientNextID) /\ Grown(routes, new)
      /\ Has(m.dst, m.rumor, new, clientNextID)
  <2>1. Updates(routes, new, m.dst, m.rumor, m.src)
    BY <1>2, <1>4 DEF Updates
  <2> QED BY <1>2, <1>3, <1>4, <2>1, LearnedRoute
<1>7. Has(m.dst, Forwarded(m), new, clientNextID)
  BY <1>2, <1>6 DEF Has
<1>8. \A o \in Node : clientNextID[o] <= clientNextID[o]
  BY <1>4
<1> QED BY <1>4, <1>5, <1>6, <1>7, <1>8, ReachStays

\* What getMsg returns, a node may pass on.
LEMMA SeenHas ==
    ASSUME TypeOK, RouteIsNewest, ReachInv, NEW n \in Node, NEW theirs,
           NEW r \in NotSeenByOther(clock[n], theirs, seen[n])
    PROVE  Has(n, r, routes, clientNextID)
<1>1. PICK key : r = GetMsg(seen[n], key)
  BY DEF NotSeenByOther
<1>2. CASE key \in seen[n]
  <2>1. key.origin \in Node /\ key.id < clientNextID[key.origin]
    BY <1>2 DEF TypeOK, RumorKey, ReachInv
  <2>2. \/ n = key.origin
        \/ key.origin \in DOMAIN routes[n] /\ routes[n][key.origin].seq >= key.id
    BY <1>2, <2>1 DEF RouteIsNewest
  <2>3. r.origin = key.origin /\ r.id = key.id
    BY <1>1, <1>2 DEF GetMsg
  <2>4. key.id \in Nat /\ (key.origin \in DOMAIN routes[n] => routes[n][key.origin].seq \in {-1} \cup Nat)
    BY <1>2 DEF TypeOK, RumorKey, IsTable
  <2> QED BY <2>1, <2>2, <2>3, <2>4 DEF Has
<1>3. CASE key \notin seen[n]
  <2>1. r.origin = NoNode
    BY <1>1, <1>3 DEF GetMsg, NoRumor
  <2> QED BY <2>1, NodeAssumption DEF Has
<1> QED BY <1>2, <1>3

\* A packet keeps ReachInv: whatever is sent on, its sender has.
LEMMA ReachDeliver ==
    ASSUME TypeOK, RouteIsNewest, ReachInv, NEW m \in net, Deliver(m)
    PROVE  ReachInv'
<1> DEFINE n == m.dst
           Acks == \A k \in Node : AcksHave(k, pending[k], overwritten[k], routes', clientNextID')
           Acks2 == \A k \in Node : AcksHave(k, pending'[k], overwritten'[k], routes', clientNextID')
           Seen2 == \A k \in Node : \A key \in seen'[k] : key.id < clientNextID'[key.origin]
<1>1. m \in Packet /\ n \in Node /\ peers \in [Node -> SUBSET Node]
  BY DEF TypeOK, Packet
<1>2. SUFFICES /\ RoutesGood(routes', clientNextID') /\ NetHas(net', routes', clientNextID')
               /\ Acks2 /\ Seen2
  BY DEF ReachInv
<1>3. CASE ReceiveRoutingRumor(m)
  <2>1. m.type = "Rumor" /\ clientNextID' = clientNextID
        /\ routes' = [routes EXCEPT ![n] = UpdateRoutingTable(n, @, m.rumor, m.src)]
    BY <1>3 DEF ReceiveRoutingRumor
  <2>2. /\ RoutesGood(routes', clientNextID') /\ Has(n, Forwarded(m), routes', clientNextID')
        /\ NetHas(net, routes', clientNextID') /\ Acks
    BY <2>1, ReceivedRumorReach
  <2>3. PICK p \in Met(m) : Exchange(m, {Rumor(n, p, Forwarded(m))})
    BY <1>3 DEF ReceiveRoutingRumor
  <2>4. NetHas(net', routes', clientNextID')
    BY <2>2, <2>3, ExchangeHas, RumorHas
  <2>5. Acks2 /\ Seen2
    BY <1>3, <2>1, <2>2 DEF ReceiveRoutingRumor, mongering, ReachInv
  <2> QED BY <2>2, <2>4, <2>5
<1>4. CASE ReceiveKnownRumor(m)
  <2>1. UNCHANGED <<routes, clientNextID, seen, pending, overwritten>> /\ Exchange(m, {})
    BY <1>4 DEF ReceiveKnownRumor, mongering
  <2>2. NetHas(net, routes', clientNextID') /\ NetHas({}, routes', clientNextID')
    BY <2>1 DEF ReachInv, NetHas
  <2>3. NetHas(net', routes', clientNextID')
    BY <2>1, <2>2, ExchangeHas
  <2> QED BY <2>1, <2>3 DEF ReachInv
<1>5. CASE ReceiveNewRumor(m)
  <2> DEFINE r == Forwarded(m)
  <2>1. m.type = "Rumor" /\ clientNextID' = clientNextID /\ ~ IsRouting(r)
        /\ routes' = [routes EXCEPT ![n] = UpdateRoutingTable(n, @, r, m.src)]
        /\ seen' = [seen EXCEPT ![n] = @ \cup {Key(r)}]
    BY <1>5 DEF ReceiveNewRumor
  <2>2. m.src \in Node /\ r \in RumorMessage /\ r.origin = m.rumor.origin /\ r.id = m.rumor.id
    BY <1>1, <2>1, ReceivedRumorType
  <2>3. UpdateRoutingTable(n, routes[n], r, m.src) = UpdateRoutingTable(n, routes[n], m.rumor, m.src)
    BY <2>2 DEF UpdateRoutingTable
  <2>4. /\ RoutesGood(routes', clientNextID') /\ Has(n, r, routes', clientNextID')
        /\ NetHas(net, routes', clientNextID') /\ Acks
    BY <2>1, <2>3, ReceivedRumorReach
  <2>5. Seen2
    <3>1. r.origin \in Node
      BY <2>1, <2>2 DEF IsRouting, RumorMessage
    <3>2. Key(r).id < clientNextID'[Key(r).origin]
      BY <2>4, <3>1 DEF Has, Key
    <3> HIDE DEF r
    <3> QED BY <1>1, <2>1, <3>2 DEF ReachInv, TypeOK
  <2>6. NetHas(net', routes', clientNextID') /\ Acks2
    <3> HIDE DEF r
    <3>1. CASE Forwards(n)
      <4>1. PICK p \in Met(m) :
               /\ Exchange(m, {Rumor(n, p, r), Status(n, m.src, clock'[n])})
               /\ WaitForAck(n, pending[n], overwritten[n], r, p)
        BY <1>5, <3>1 DEF ReceiveNewRumor, r
      <4>2. NetHas({Rumor(n, p, r), Status(n, m.src, clock'[n])}, routes', clientNextID')
        BY <2>4 DEF NetHas, Rumor, Status
      <4>3. Acks2
        BY <1>1, <2>4, <4>1, WaitForAckHas
      <4> QED BY <2>4, <4>1, <4>2, <4>3, ExchangeHas
    <3>2. CASE ~ Forwards(n)
      <4>1. Exchange(m, {}) /\ UNCHANGED <<pending, overwritten>>
        BY <1>5, <3>2 DEF ReceiveNewRumor, mongering
      <4>2. NetHas({}, routes', clientNextID')
        BY DEF NetHas
      <4> QED BY <2>4, <4>1, <4>2, ExchangeHas
    <3> QED BY <3>1, <3>2
  <2> QED BY <2>4, <2>5, <2>6
<1>6. CASE ReceiveStatus(m)
  <2> DEFINE acks == pending[n]
             asked == IF SomeNotSeen(clock[n], m.want) THEN {Status(n, m.src, clock[n])} ELSE {}
             given == {Rumor(n, m.src, r) : r \in NotSeenByOther(clock[n], m.want, seen[n])}
  <2>1. UNCHANGED <<routes, clientNextID, seen>>
    BY <1>6 DEF ReceiveStatus
  <2>2. /\ RoutesGood(routes', clientNextID') /\ NetHas(net, routes', clientNextID')
        /\ Acks /\ Seen2
    BY <2>1 DEF ReachInv
  <2>3. NetHas(asked, routes', clientNextID')
    BY DEF NetHas, Status
  <2>4. NetHas(given, routes', clientNextID')
    <3>1. \A r \in NotSeenByOther(clock[n], m.want, seen[n]) : Has(n, r, routes', clientNextID')
      BY <1>1, <2>1, SeenHas
    <3> QED BY <3>1 DEF NetHas, Rumor
  <2>5. AcksHave(n, Without(acks, m.src), overwritten[n], routes', clientNextID')
    BY <1>1, <2>2 DEF AcksHave, Without
  <2> HIDE DEF asked, given
  <2>6. CASE /\ Exchange(m, IF Forwards(n) THEN asked \cup given ELSE {})
             /\ pending' = [pending EXCEPT ![n] = Without(acks, m.src)]
             /\ UNCHANGED <<overwritten, repeats>>
    <3>1. NetHas(IF Forwards(n) THEN asked \cup given ELSE {}, routes', clientNextID')
      BY <2>3, <2>4 DEF NetHas
    <3>2. NetHas(net', routes', clientNextID')
      BY <2>2, <2>6, <3>1, ExchangeHas
    <3>3. \A k \in Node : /\ k # n => pending'[k] = pending[k]
                          /\ overwritten'[k] = overwritten[k]
      BY <2>6 DEF TypeOK
    <3>4. pending'[n] = Without(acks, m.src)
      BY <1>1, <2>6 DEF TypeOK
    <3>5. Acks2
      BY <2>2, <2>5, <3>3, <3>4
    <3> QED BY <2>2, <3>2, <3>5
  <2>7. CASE /\ m.src \in DOMAIN acks
             /\ \E p \in Known(m) :
                   /\ Exchange(m, {Rumor(n, p, acks[m.src].rumor)})
                   /\ Repeat(n, Without(acks, m.src), overwritten[n], acks[m.src].rumor, p)
    <3> DEFINE r == acks[m.src].rumor
    <3>1. PICK p \in Known(m) :
                   /\ Exchange(m, {Rumor(n, p, r)})
                   /\ Repeat(n, Without(acks, m.src), overwritten[n], r, p)
      BY <2>7
    <3>2. Has(n, r, routes', clientNextID')
      BY <1>1, <2>2, <2>7 DEF AcksHave
    <3> HIDE DEF r
    <3>3. NetHas(net', routes', clientNextID')
      BY <2>2, <3>1, <3>2, RumorHas, ExchangeHas
    <3>4. Acks2
      BY <1>1, <2>2, <2>5, <3>1, <3>2, WaitForAckHas DEF Repeat
    <3> QED BY <2>2, <3>3, <3>4
  <2> QED BY <1>6, <2>6, <2>7 DEF ReceiveStatus, asked, given
<1> QED BY <1>3, <1>4, <1>5, <1>6 DEF Deliver

\* So does what a node does of itself.
LEMMA ReachOwnStep ==
    ASSUME TypeOK, ReachInv, NEW n \in Node,
           \/ ReceiveFromClient(n)
           \/ \E p \in Node : AckTimer(n, p) \/ AntiEntropy(n, p)
           \/ \E r \in BagToSet(overwritten[n]) : OverwrittenTimer(n, r)
           \/ SendRoutingMessage(n)
    PROVE  ReachInv'
<1> DEFINE Net2 == NetHas(net', routes', clientNextID')
           Acks2 == \A k \in Node : AcksHave(k, pending'[k], overwritten'[k], routes', clientNextID')
           Seen2 == \A k \in Node : \A key \in seen'[k] : key.id < clientNextID'[key.origin]
<1>1. /\ clientNextID \in [Node -> Nat \ {0}] /\ DOMAIN routes = Node
      /\ DOMAIN pending = Node /\ DOMAIN overwritten = Node
      /\ \A k \in Node : IsTable(k, routes[k])
  BY DEF TypeOK
<1>2. /\ RoutesGood(routes, clientNextID) /\ NetHas(net, routes, clientNextID)
      /\ \A k \in Node : AcksHave(k, pending[k], overwritten[k], routes, clientNextID)
  BY DEF ReachInv
<1>3. SUFFICES RoutesGood(routes', clientNextID') /\ Net2 /\ Acks2 /\ Seen2
  BY DEF ReachInv
<1>4. CASE ReceiveFromClient(n)
  <2> DEFINE r == [origin |-> n, id |-> clientNextID[n], last |-> NoNode]
  <2>1. /\ routes' = routes
        /\ clientNextID' = [clientNextID EXCEPT ![n] = @ + 1]
        /\ seen' = [seen EXCEPT ![n] = @ \cup {Key(r)}]
    BY <1>4 DEF ReceiveFromClient
  <2>2. /\ clientNextID' \in [Node -> Nat] /\ clientNextID[n] < clientNextID'[n]
        /\ \A o \in Node : clientNextID[o] <= clientNextID'[o]
    BY <1>1, <2>1
  <2>3. Has(n, r, routes', clientNextID')
    BY <2>2 DEF Has
  <2>4. Key(r) = [origin |-> n, id |-> clientNextID[n]]
    BY DEF Key
  <2> HIDE DEF r
  <2>5. Grown(routes, routes')
    <3>1. \A k \in Node : \A o \in DOMAIN routes[k] : routes[k][o].seq \in {-1} \cup Nat
      BY <1>1 DEF IsTable
    <3> QED BY <2>1, <3>1 DEF Grown
  <2>6. /\ NetHas(net, routes', clientNextID')
        /\ \A k \in Node : AcksHave(k, pending[k], overwritten[k], routes', clientNextID')
    BY <1>1, <2>1, <2>2, <2>5, ReachStays
  <2>7. RoutesGood(routes', clientNextID')
    <3>1. ASSUME NEW k \in Node, NEW o \in Node, o \in DOMAIN routes[k]
          PROVE  routes[k][o].seq < clientNextID'[o]
      <4>1. routes[k][o].seq < clientNextID[o]
        BY <1>2, <3>1 DEF RoutesGood
      <4>2. routes[k][o].seq \in {-1} \cup Nat
        BY <1>1, <3>1 DEF IsTable
      <4> QED BY <1>1, <2>2, <4>1, <4>2
    <3> QED BY <1>2, <2>1, <3>1 DEF RoutesGood
  <2>8. Seen2
    <3>1. ASSUME NEW k \in Node, NEW key \in seen[k]
          PROVE  key.id < clientNextID'[key.origin]
      <4>1. key.id < clientNextID[key.origin] /\ key.origin \in Node /\ key.id \in Nat
        BY DEF ReachInv, TypeOK, RumorKey
      <4> QED BY <1>1, <2>2, <4>1
    <3>2. \A k \in Node : \A key \in seen'[k] : key \in seen[k] \/ key = Key(r)
      BY <2>1 DEF TypeOK
    <3> QED BY <2>2, <2>4, <3>1, <3>2
  <2>9. Net2 /\ Acks2
    <3>1. CASE Forwards(n)
      <4>1. PICK p \in peers[n] :
               Send({Rumor(n, p, r)}) /\ WaitForAck(n, pending[n], overwritten[n], r, p)
        BY <1>4, <3>1 DEF ReceiveFromClient, r
      <4>2. Acks2
        BY <2>3, <2>6, <4>1, WaitForAckHas
      <4>3. Net2
        BY <2>3, <2>6, <4>1, RumorHas DEF Send, NetHas
      <4> QED BY <4>2, <4>3
    <3>2. CASE ~ Forwards(n)
      BY <1>4, <2>6, <3>2 DEF ReceiveFromClient, mongering
    <3> QED BY <3>1, <3>2
  <2> QED BY <2>7, <2>8, <2>9
<1>5. ASSUME UNCHANGED <<routes, clientNextID, seen>>, Net2, Acks2
      PROVE  RoutesGood(routes', clientNextID') /\ Net2 /\ Acks2 /\ Seen2
  BY <1>2, <1>5 DEF ReachInv
<1>6. ASSUME UNCHANGED <<routes, clientNextID>>,
             NEW acks, NEW timers, NEW r, NEW q, NEW k \in Node,
             AcksHave(n, acks, timers, routes, clientNextID),
             Has(n, r, routes, clientNextID),
             Send({Rumor(n, q, r)}), Repeat(n, acks, timers, r, q)
      PROVE  Net2 /\ Acks2
  <2>1. Net2
    BY <1>2, <1>6, RumorHas DEF Send, NetHas
  <2>2. Acks2
    BY <1>2, <1>6, WaitForAckHas DEF Repeat
  <2> QED BY <2>1, <2>2
<1>7. ASSUME NEW p \in Node, AckTimer(n, p)
      PROVE  RoutesGood(routes', clientNextID') /\ Net2 /\ Acks2 /\ Seen2
  <2> DEFINE acks == [pending[n] EXCEPT ![p].running = FALSE]
  <2>1. UNCHANGED <<routes, clientNextID, seen>> /\ p \in DOMAIN pending[n]
    BY <1>7 DEF AckTimer
  <2>2. DOMAIN acks = DOMAIN pending[n] /\ (\A q \in DOMAIN acks : acks[q].rumor = pending[n][q].rumor)
    <3>1. \A q \in DOMAIN pending[n] : pending[n][q] \in [rumor : RumorMessage, running : BOOLEAN]
      BY DEF TypeOK, IsAcks
    <3> QED BY <2>1, <3>1
  <2> HIDE DEF acks
  <2>3. AcksHave(n, acks, overwritten[n], routes, clientNextID)
    BY <1>2, <2>2 DEF AcksHave
  <2>4. Has(n, acks[p].rumor, routes, clientNextID)
    BY <2>1, <2>2, <2>3 DEF AcksHave
  <2>5. CASE pending' = [pending EXCEPT ![n] = acks] /\ UNCHANGED <<overwritten, net, repeats>>
    <3>1. Acks2
      BY <1>1, <1>2, <2>1, <2>3, <2>5
    <3>2. Net2
      BY <1>2, <2>1, <2>5
    <3> QED BY <1>5, <2>1, <3>1, <3>2
  <2>6. CASE \E q \in peers[n] : /\ Send({Rumor(n, q, acks[p].rumor)})
                                 /\ Repeat(n, acks, overwritten[n], acks[p].rumor, q)
    BY <1>5, <1>6, <2>1, <2>3, <2>4, <2>6
  <2> QED BY <1>7, <2>5, <2>6 DEF AckTimer, acks
<1>8. ASSUME NEW r \in BagToSet(overwritten[n]), OverwrittenTimer(n, r)
      PROVE  RoutesGood(routes', clientNextID') /\ Net2 /\ Acks2 /\ Seen2
  <2> DEFINE rest == overwritten[n] (-) SetToBag({r})
  <2>1. UNCHANGED <<routes, clientNextID, seen>>
    BY <1>8 DEF OverwrittenTimer
  <2>2. BagToSet(rest) \subseteq BagToSet(overwritten[n])
    BY DEF BagToSet, SetToBag, (-)
  <2> HIDE DEF rest
  <2>3. AcksHave(n, pending[n], rest, routes, clientNextID) /\ Has(n, r, routes, clientNextID)
    BY <1>2, <2>2 DEF AcksHave
  <2>4. CASE overwritten' = [overwritten EXCEPT ![n] = rest] /\ UNCHANGED <<pending, net, repeats>>
    <3>1. Acks2
      BY <1>1, <1>2, <2>1, <2>3, <2>4
    <3>2. Net2
      BY <1>2, <2>1, <2>4
    <3> QED BY <1>5, <2>1, <3>1, <3>2
  <2>5. CASE \E q \in peers[n] : /\ Send({Rumor(n, q, r)})
                                 /\ Repeat(n, pending[n], rest, r, q)
    BY <1>5, <1>6, <2>1, <2>3, <2>5
  <2> QED BY <1>8, <2>4, <2>5 DEF OverwrittenTimer, rest
<1>9. ASSUME NEW p \in Node, AntiEntropy(n, p)
      PROVE  RoutesGood(routes', clientNextID') /\ Net2 /\ Acks2 /\ Seen2
  <2>1. UNCHANGED <<routes, clientNextID, seen, pending, overwritten>>
    BY <1>9 DEF AntiEntropy, mongering
  <2>2. Net2
    BY <1>2, <1>9, <2>1 DEF AntiEntropy, Send, NetHas, Status
  <2>3. Acks2
    BY <1>2, <2>1
  <2> QED BY <1>5, <2>1, <2>2, <2>3
<1>10. CASE SendRoutingMessage(n)
  <2> DEFINE r == [origin |-> n, id |-> -1, last |-> NoNode]
  <2>1. UNCHANGED <<routes, clientNextID, seen, pending, overwritten>>
    BY <1>10 DEF SendRoutingMessage, mongering
  <2>2. Has(n, r, routes, clientNextID)
    BY <1>1 DEF Has
  <2> HIDE DEF r
  <2>3. net' = net \cup {Rumor(n, p, r) : p \in peers[n]}
    BY <1>10 DEF SendRoutingMessage, Send, r
  <2>4. Net2
    BY <1>2, <2>1, <2>2, <2>3 DEF NetHas, Rumor
  <2>5. Acks2
    BY <1>2, <2>1
  <2> QED BY <1>5, <2>1, <2>4, <2>5
<1> QED BY <1>4, <1>7, <1>8, <1>9, <1>10

\* Routes that descend lead to the origin.
LEMMA DescentReaches ==
    ASSUME TypeOK, NEW o \in Node, NEW rank \in [Node -> Nat],
           Descends(routes, o, rank), RoutesGood(routes, clientNextID),
           NEW loop, loop \subseteq {n \in Node : o \in DOMAIN routes[n]}, loop # {}
    PROVE  \E n \in loop : routes[n][o].via \notin loop
<1> SUFFICES ASSUME \A n \in loop : routes[n][o].via \in loop
             PROVE  FALSE
  OBVIOUS
<1> DEFINE age == [n \in loop |-> clientNextID[o] - routes[n][o].seq]
<1>1. o \notin loop
  BY DEF TypeOK, IsTable
<1>2. \A n \in loop : routes[n][o].seq \in Int /\ age[n] \in Nat
  BY DEF TypeOK, IsTable, RoutesGood
<1>3. ASSUME NEW n \in loop
      PROVE  LET p == routes[n][o].via
             IN  /\ p \in loop
                 /\ age[p] < age[n] \/ (age[p] = age[n] /\ rank[p] < rank[n])
  <2> DEFINE p == routes[n][o].via
  <2>1. p \in loop /\ p # o
    BY <1>1
  <2>2. \/ routes[p][o].seq > routes[n][o].seq
        \/ routes[p][o].seq = routes[n][o].seq /\ rank[p] < rank[n]
    BY <2>1 DEF Descends
  <2>3. routes[p][o].seq \in Int /\ routes[n][o].seq \in Int /\ clientNextID[o] \in Int
    BY <1>2, <2>1 DEF TypeOK
  <2>4. age[p] = clientNextID[o] - routes[p][o].seq /\ age[n] = clientNextID[o] - routes[n][o].seq
    BY <2>1
  <2> HIDE DEF age, p
  <2>5. age[p] < age[n] \/ (age[p] = age[n] /\ rank[p] < rank[n])
    BY <2>2, <2>3, <2>4
  <2> QED BY <2>1, <2>5 DEF p
<1> HIDE DEF age
<1> DEFINE Ages == {age[n] : n \in loop}
<1>4. PICK least \in Ages : \A x \in Ages : least <= x
  <2>1. Ages \in SUBSET Nat /\ Ages # {}
    BY <1>2
  <2> HIDE DEF Ages
  <2> QED BY <2>1, LeastNatural
<1> DEFINE Ranks == {rank[n] : n \in {k \in loop : age[k] = least}}
<1>5. PICK lowest \in Ranks : \A x \in Ranks : lowest <= x
  <2>1. Ranks \in SUBSET Nat /\ Ranks # {}
    BY <1>4
  <2> HIDE DEF Ranks
  <2> QED BY <2>1, LeastNatural
<1>6. PICK n \in loop : age[n] = least /\ rank[n] = lowest
  BY <1>5
<1>7. PICK p \in loop : age[p] < age[n] \/ (age[p] = age[n] /\ rank[p] < rank[n])
  BY <1>3
<1>8. least <= age[p] /\ age[p] \in Nat /\ age[n] \in Nat /\ rank[p] \in Nat /\ rank[n] \in Nat
  BY <1>2, <1>4
<1>9. age[p] = least => lowest <= rank[p]
  BY <1>5
<1> QED BY <1>6, <1>7, <1>8, <1>9

\* The invariant implies that routes lead to their origin.
LEMMA ReachInvSuffices == TypeOK /\ ReachInv => RoutesReachOrigin
<1> SUFFICES ASSUME TypeOK, ReachInv, NEW o \in Node
             PROVE  LET On == {n \in Node : o \in DOMAIN routes[n]}
                    IN  /\ \A n \in On : routes[n][o].via \in On \cup {o}
                        /\ \A loop \in (SUBSET On) \ {{}} :
                              \E n \in loop : routes[n][o].via \notin loop
  BY DEF RoutesReachOrigin
<1> DEFINE On == {n \in Node : o \in DOMAIN routes[n]}
<1>1. RoutesGood(routes, clientNextID)
  BY DEF ReachInv
<1>2. PICK rank \in [Node -> Nat] : Descends(routes, o, rank)
  BY <1>1 DEF RoutesGood
<1>3. ASSUME NEW n \in On PROVE routes[n][o].via \in On \cup {o}
  <2>1. routes[n][o].via \in Node
    BY DEF TypeOK, IsTable
  <2> QED BY <1>2, <2>1 DEF Descends
<1>4. ASSUME NEW loop \in (SUBSET On) \ {{}}
      PROVE  \E n \in loop : routes[n][o].via \notin loop
  <2>1. loop \subseteq {n \in Node : o \in DOMAIN routes[n]} /\ loop # {}
    OBVIOUS
  <2> QED BY <1>1, <1>2, <2>1, DescentReaches
<1> QED BY <1>3, <1>4

\* In every execution every next hop has a next hop of its own, or is the
\* destination, and no set of nodes sends messages for it round in a circle:
\* whichever rumors are lost, overtaken or delivered twice.
THEOREM RoutesReachCorrect == Spec => []RoutesReachOrigin
<1>1. Init => ReachInv
  <2> SUFFICES ASSUME Init PROVE ReachInv
    OBVIOUS
  <2>1. RoutesGood(routes, clientNextID)
    <3>1. [k \in Node |-> 0] \in [Node -> Nat]
      OBVIOUS
    <3>2. \A n, o \in Node : o \notin DOMAIN routes[n]
      BY DEF Init
    <3> QED BY <3>1, <3>2 DEF RoutesGood, Descends
  <2> QED BY <2>1 DEF Init, ReachInv, NetHas, AcksHave, BagToSet, EmptyBag, SetToBag
<1>2. TypeOK /\ RouteIsNewest /\ ReachInv /\ [Next]_vars => ReachInv'
  <2> SUFFICES ASSUME TypeOK, RouteIsNewest, ReachInv, [Next]_vars PROVE ReachInv'
    OBVIOUS
  <2>1. ASSUME NEW m \in net, Lose(m) PROVE ReachInv'
    BY <2>1 DEF Lose, mongering, ReachInv, NetHas
  <2>2. CASE UNCHANGED vars
    BY <2>2 DEF vars, mongering, ReachInv
  <2> QED BY <2>1, <2>2, ReachDeliver, ReachOwnStep DEF Next
<1> QED BY <1>1, <1>2, ReachInvSuffices, GossipTypeCorrect, RouteCorrect, PTL DEF Spec
=============================================================================
