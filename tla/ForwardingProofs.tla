--------------------------- MODULE ForwardingProofs ---------------------------
(***************************************************************************)
(* Proofs about packets under way: they are never stranded, they come from *)
(* nodes their receivers know, and forwarding implements delivery.         *)
(***************************************************************************)
EXTENDS Forwarding, GossipProofs

\* A node has a packet under way only to a peer, and whoever sent it the rumor a
\* route comes from knows it: a peer's address is never forgotten.
Acquainted ==
    /\ \A m \in net : m.dst \in peers[m.src]
    /\ \A n \in Node : \A o \in DOMAIN routes[n] : n \in peers[routes[n][o].via]

\* Gossip takes no route and no peer from a node.
LEMMA RoutesStay ==
    ASSUME TypeOK, [Next]_vars
    PROVE  \A n \in Node : DOMAIN routes[n] \subseteq DOMAIN routes'[n] /\ peers[n] \subseteq peers'[n]
<1>1. ASSUME NEW m \in net, Deliver(m)
      PROVE  \A n \in Node : DOMAIN routes[n] \subseteq DOMAIN routes'[n] /\ peers[n] \subseteq peers'[n]
  <2>1. peers[m.dst] \subseteq Known(m) /\ peers[m.dst] \subseteq Met(m)
    BY DEF Known, Met
  <2>2. \A table, r, from : DOMAIN table \subseteq DOMAIN UpdateRoutingTable(m.dst, table, r, from)
    BY DEF UpdateRoutingTable
  <2>3. DOMAIN peers = Node /\ DOMAIN routes = Node
    BY DEF TypeOK
  <2> QED
    BY <1>1, <2>1, <2>2, <2>3
    DEF Deliver, ReceiveRoutingRumor, ReceiveKnownRumor, ReceiveNewRumor, ReceiveStatus
<1>2. ASSUME NEW m \in net, Lose(m) PROVE UNCHANGED <<peers, routes>>
  BY <1>2 DEF Lose
<1>3. ASSUME NEW n \in Node,
             \/ ReceiveFromClient(n) \/ SendRoutingMessage(n)
             \/ \E p \in Node : AckTimer(n, p) \/ AntiEntropy(n, p)
             \/ \E r \in BagToSet(overwritten[n]) : OverwrittenTimer(n, r)
      PROVE  UNCHANGED <<peers, routes>>
  BY <1>3 DEF ReceiveFromClient, SendRoutingMessage, AckTimer, AntiEntropy, OverwrittenTimer
<1>4. CASE UNCHANGED vars
  BY <1>4 DEF vars
<1> QED BY <1>1, <1>2, <1>3, <1>4 DEF Next

\* What a handler sends goes to a peer it has then.
LEMMA DeliverAcquainted ==
    ASSUME TypeOK, Acquainted, NEW m \in net, Deliver(m)
    PROVE  Acquainted'
<1> DEFINE n == m.dst
<1>1. n \in Node /\ m.src \in Node /\ n \in peers[m.src]
  BY DEF TypeOK, Packet, Acquainted
<1>2. Next
  BY DEF Next
<1>3. \A k \in Node : peers[k] \subseteq peers'[k]
  BY <1>2, RoutesStay
<1>4. DOMAIN peers = Node /\ DOMAIN routes = Node
  BY DEF TypeOK
<1>5. \A p \in net' : p \in net \/ (p.src = n /\ p.dst \in peers'[n])
  <2>1. \A p, r : Rumor(n, p, r).src = n /\ Rumor(n, p, r).dst = p
    BY DEF Rumor
  <2>2. \A p, w : Status(n, p, w).src = n /\ Status(n, p, w).dst = p
    BY DEF Status
  <2>3. \A out : Exchange(m, out) => net' \subseteq net \cup out
    BY DEF Exchange
  <2>4. CASE ReceiveRoutingRumor(m)
    BY <1>1, <1>4, <2>1, <2>3, <2>4 DEF ReceiveRoutingRumor
  <2>5. CASE ReceiveKnownRumor(m)
    BY <2>3, <2>5 DEF ReceiveKnownRumor
  <2>6. CASE ReceiveNewRumor(m)
    <3>1. m.src \in Met(m) /\ peers'[n] = Met(m)
      BY <1>1, <1>4, <2>6 DEF ReceiveNewRumor, Met, Known
    <3>2. \/ \E p \in Met(m) : Exchange(m, {Rumor(n, p, Forwarded(m)), Status(n, m.src, clock'[n])})
          \/ Exchange(m, {})
      BY <2>6 DEF ReceiveNewRumor
    <3>3. ASSUME NEW p \in Met(m), Exchange(m, {Rumor(n, p, Forwarded(m)), Status(n, m.src, clock'[n])})
          PROVE  \A q \in net' : q \in net \/ (q.src = n /\ q.dst \in peers'[n])
      <4>1. net' \subseteq net \cup {Rumor(n, p, Forwarded(m)), Status(n, m.src, clock'[n])}
        BY <2>3, <3>3
      <4> QED BY <2>1, <2>2, <3>1, <4>1
    <3>4. CASE Exchange(m, {})
      BY <2>3, <3>4
    <3> QED BY <3>2, <3>3, <3>4
  <2>7. CASE ReceiveStatus(m)
    <3>1. m.src \in Known(m) /\ peers'[n] = Known(m)
      BY <1>1, <1>4, <2>7 DEF ReceiveStatus, Known
    <3>2. \/ \E out : Exchange(m, out) /\ (\A p \in out : p.src = n /\ p.dst = m.src)
          \/ \E p \in Known(m) : \E r : Exchange(m, {Rumor(n, p, r)})
      <4> DEFINE asked == IF SomeNotSeen(clock[n], m.want) THEN {Status(n, m.src, clock[n])} ELSE {}
                 given == {Rumor(n, m.src, r) : r \in NotSeenByOther(clock[n], m.want, seen[n])}
                 answers == IF Forwards(n) THEN asked \cup given ELSE {}
      <4>1. \A p \in asked : p.src = n /\ p.dst = m.src
        BY <2>2
      <4>2. \A p \in given : p.src = n /\ p.dst = m.src
        BY <2>1
      <4>3. \A p \in answers : p.src = n /\ p.dst = m.src
        <5> HIDE DEF asked, given
        <5> QED BY <4>1, <4>2
      <4>4. \/ Exchange(m, answers)
            \/ \E p \in Known(m) : Exchange(m, {Rumor(n, p, pending[n][m.src].rumor)})
        BY <2>7 DEF ReceiveStatus
      <4> HIDE DEF answers
      <4> QED BY <4>3, <4>4
    <3>3. ASSUME NEW out, Exchange(m, out), \A p \in out : p.src = n /\ p.dst = m.src
          PROVE  \A q \in net' : q \in net \/ (q.src = n /\ q.dst \in peers'[n])
      BY <2>3, <3>1, <3>3
    <3>4. ASSUME NEW p \in Known(m), NEW r, Exchange(m, {Rumor(n, p, r)})
          PROVE  \A q \in net' : q \in net \/ (q.src = n /\ q.dst \in peers'[n])
      <4>1. net' \subseteq net \cup {Rumor(n, p, r)}
        BY <2>3, <3>4
      <4> QED BY <2>1, <3>1, <4>1
    <3> QED BY <3>2, <3>3, <3>4
  <2> QED BY <2>4, <2>5, <2>6, <2>7 DEF Deliver
<1>6. \A k \in Node : \A o \in DOMAIN routes'[k] :
         \/ o \in DOMAIN routes[k] /\ routes'[k][o].via = routes[k][o].via
         \/ k = n /\ routes'[k][o].via = m.src
  <2>1. \A table, r : \A o \in DOMAIN UpdateRoutingTable(n, table, r, m.src) :
           \/ o \in DOMAIN table /\ UpdateRoutingTable(n, table, r, m.src)[o] = table[o]
           \/ UpdateRoutingTable(n, table, r, m.src)[o].via = m.src
    BY DEF UpdateRoutingTable
  <2>2. \/ UNCHANGED routes
        \/ \E r : routes' = [routes EXCEPT ![n] = UpdateRoutingTable(n, @, r, m.src)]
    BY DEF Deliver, ReceiveRoutingRumor, ReceiveKnownRumor, ReceiveNewRumor, ReceiveStatus
  <2> QED BY <1>4, <2>1, <2>2
<1>7. \A p \in net : p.src \in Node
  BY DEF TypeOK, Packet
<1>8. \A k \in Node : \A o \in DOMAIN routes[k] : routes[k][o].via \in Node
  BY DEF TypeOK, IsTable
<1> QED BY <1>1, <1>3, <1>5, <1>6, <1>7, <1>8 DEF Acquainted

\* So does what a client, a timer or a ticker sends.
LEMMA OwnStepAcquainted ==
    ASSUME TypeOK, Acquainted, NEW n \in Node,
           \/ ReceiveFromClient(n) \/ SendRoutingMessage(n)
           \/ \E p \in Node : AckTimer(n, p) \/ AntiEntropy(n, p)
           \/ \E r \in BagToSet(overwritten[n]) : OverwrittenTimer(n, r)
    PROVE  Acquainted'
<1>1. UNCHANGED <<peers, routes>>
  BY DEF ReceiveFromClient, SendRoutingMessage, AckTimer, AntiEntropy, OverwrittenTimer
<1>2. \A p \in net' : p \in net \/ (p.src = n /\ p.dst \in peers[n])
  <2>1. \A p, r : Rumor(n, p, r).src = n /\ Rumor(n, p, r).dst = p
    BY DEF Rumor
  <2>2. \A p, w : Status(n, p, w).src = n /\ Status(n, p, w).dst = p
    BY DEF Status
  <2>3. CASE ReceiveFromClient(n)
    BY <2>1, <2>3 DEF ReceiveFromClient, Send
  <2>4. CASE SendRoutingMessage(n)
    BY <2>1, <2>4 DEF SendRoutingMessage, Send
  <2>5. ASSUME NEW p \in Node, AckTimer(n, p)
        PROVE  \A q \in net' : q \in net \/ (q.src = n /\ q.dst \in peers[n])
    BY <2>1, <2>5 DEF AckTimer, Send
  <2>6. ASSUME NEW p \in Node, AntiEntropy(n, p)
        PROVE  \A q \in net' : q \in net \/ (q.src = n /\ q.dst \in peers[n])
    BY <2>2, <2>6 DEF AntiEntropy, Send
  <2>7. ASSUME NEW r \in BagToSet(overwritten[n]), OverwrittenTimer(n, r)
        PROVE  \A q \in net' : q \in net \/ (q.src = n /\ q.dst \in peers[n])
    BY <2>1, <2>7 DEF OverwrittenTimer, Send
  <2> QED BY <2>3, <2>4, <2>5, <2>6, <2>7
<1> QED BY <1>1, <1>2 DEF Acquainted

\* A step of gossip keeps Acquainted.
LEMMA AcquaintedNext == TypeOK /\ Acquainted /\ [Next]_vars => Acquainted'
<1> SUFFICES ASSUME TypeOK, Acquainted, [Next]_vars PROVE Acquainted'
  OBVIOUS
<1>1. ASSUME NEW m \in net, Lose(m) PROVE Acquainted'
  BY <1>1 DEF Lose, Acquainted
<1>2. CASE UNCHANGED vars
  BY <1>2 DEF vars, Acquainted
<1> QED BY <1>1, <1>2, DeliverAcquainted, OwnStepAcquainted DEF Next

-----------------------------------------------------------------------------
\* Until a packet has been lost or delivered twice, a letter is in one packet at
\* most; and an unsent one is in none.
Lone ==
    /\ mailFaults = 0 => \A p, q \in mail : p.letter = q.letter => p = q
    /\ \A p \in mail : p.letter \notin unsent

\* What a packet leads to: nothing, or one packet on its way to a next hop.
Onward(m, out) ==
    \/ out = {}
    \/ \E reply \in BOOLEAN, hops \in Nat :
          /\ out = {ToNextHop(m.at, m.letter, reply, hops)}
          /\ HasRoute(m.at, Dest(m.letter, reply))
          /\ reply => ~ IsPrivate(m.letter)

\* Letters come from and go to nodes.
LEMMA DestType == \A l \in Letter, reply \in BOOLEAN : Dest(l, reply) \in Node
BY LetterAssumption DEF Dest

\* Whoever handles a packet sends at most one on.
LEMMA DeliverOnward ==
    ASSUME MailTypeOK, NEW m \in mail, DeliverMail(m)
    PROVE  \E out : Carry(m, out) /\ Onward(m, out)
<1>1. m.hops \in Nat /\ m.letter \in Letter /\ m.reply \in BOOLEAN
  BY DEF MailTypeOK
<1>2. CASE ReceivePrivateMessage(m) \/ ReceiveReply(m)
  BY <1>2 DEF ReceivePrivateMessage, ReceiveReply, Onward
<1>3. CASE ForwardPrivateMessage(m)
  <2>1. CASE Forwards(m.at) /\ HasRoute(m.at, Letters[m.letter].dest) /\ m.hops > 1
    <3>1. m.hops - 1 \in Nat /\ Dest(m.letter, FALSE) = Letters[m.letter].dest
      BY <1>1, <2>1 DEF Dest
    <3> QED BY <1>3, <2>1, <3>1 DEF ForwardPrivateMessage, Onward
  <2>2. CASE ~ (Forwards(m.at) /\ HasRoute(m.at, Letters[m.letter].dest) /\ m.hops > 1)
    BY <1>3, <2>2 DEF ForwardPrivateMessage, Onward
  <2> QED BY <2>1, <2>2
<1>4. CASE ReceiveRequest(m)
  <2>1. Dest(m.letter, TRUE) = Letters[m.letter].origin
    BY DEF Dest
  <2>2. PICK out \in SUBSET ReplyTo(m) : Carry(m, out)
    BY <1>4 DEF ReceiveRequest
  <2>3. out = {} \/ (HasRoute(m.at, Letters[m.letter].origin)
                      /\ out = {ToNextHop(m.at, m.letter, TRUE, HopLimit)})
    BY <2>2 DEF ReplyTo
  <2> QED BY <1>4, <2>1, <2>2, <2>3, LetterAssumption DEF ReceiveRequest, Onward
<1>5. CASE Forward(m)
  BY <1>1, <1>5 DEF Forward, Passes, Onward, MailTypeOK
<1> QED BY <1>2, <1>3, <1>4, <1>5 DEF DeliverMail

\* A packet sent to a next hop has its type, comes from a node that is known
\* there, and is at its destination or at a node with a route.
LEMMA NextHopGood ==
    ASSUME TypeOK, RoutesReachOrigin, Acquainted, NEW n \in Node, NEW l \in Letter,
           NEW reply \in BOOLEAN, NEW hops \in Nat, HasRoute(n, Dest(l, reply)),
           NEW m, m = ToNextHop(n, l, reply, hops)
    PROVE  /\ m \in [letter : Letter, reply : BOOLEAN, src : Node, at : Node, hops : Nat]
           /\ m.src \in peers[m.at]
           /\ AtDest(m) \/ HasRoute(m.at, Dest(m.letter, m.reply))
<1> DEFINE o == Dest(l, reply)
<1>1. o \in Node /\ o \in DOMAIN routes[n]
  BY DestType DEF HasRoute
<1>2. routes[n][o].via \in Node
  BY <1>1 DEF TypeOK, IsTable
<1>3. routes[n][o].via = o \/ o \in DOMAIN routes[routes[n][o].via]
  BY <1>1 DEF RoutesReachOrigin
<1>4. n \in peers[routes[n][o].via]
  BY <1>1 DEF Acquainted
<1>5. m = [letter |-> l, reply |-> reply, src |-> n, at |-> routes[n][o].via, hops |-> hops]
  BY DEF ToNextHop
<1> QED BY <1>2, <1>3, <1>4, <1>5 DEF AtDest, HasRoute

\* What is under way has its type, stays where it can be passed on, and is one
\* packet per letter while there are no faults.
LEMMA MailNextGood ==
    TypeOK /\ RoutesReachOrigin /\ Acquainted /\ MailTypeOK /\ NeverStranded /\ Lone
        /\ [MailNext]_<<vars, mailVars>>
    => MailTypeOK' /\ NeverStranded' /\ Lone'
<1> SUFFICES ASSUME TypeOK, RoutesReachOrigin, Acquainted, MailTypeOK, NeverStranded, Lone,
                    [MailNext]_<<vars, mailVars>>
             PROVE  MailTypeOK' /\ NeverStranded' /\ Lone'
  OBVIOUS
<1>1. CASE UNCHANGED mailVars /\ [Next]_vars
  <2>1. \A n \in Node : DOMAIN routes[n] \subseteq DOMAIN routes'[n] /\ peers[n] \subseteq peers'[n]
    BY <1>1, RoutesStay
  <2>2. \A m \in mail : m.at \in Node
    BY DEF MailTypeOK
  <2> QED BY <1>1, <2>1, <2>2 DEF mailVars, MailTypeOK, NeverStranded, Lone, AtDest, HasRoute
<1>2. ASSUME NEW l \in Letter, SendLetter(l)
      PROVE  MailTypeOK' /\ NeverStranded' /\ Lone'
  <2> DEFINE n == Letters[l].origin
  <2>1. n \in Node /\ HopLimit \in Nat /\ Dest(l, FALSE) = Letters[l].dest
    BY LetterAssumption DEF Dest
  <2>2. /\ l \in unsent /\ unsent' = unsent \ {l} /\ mail' = mail \cup FirstHop(n, l)
        /\ privateMsgs' \in {privateMsgs, [privateMsgs EXCEPT ![n] = @ \cup {l}]}
        /\ UNCHANGED <<vars, received, mailFaults>>
    BY <1>2 DEF SendLetter
  <2>3. \A m \in FirstHop(n, l) :
           /\ m \in [letter : Letter, reply : BOOLEAN, src : Node, at : Node, hops : Nat]
           /\ m.src \in peers[m.at] /\ m.letter = l /\ ~ m.reply
           /\ AtDest(m) \/ HasRoute(m.at, Dest(m.letter, m.reply))
    <3> SUFFICES ASSUME NEW m \in FirstHop(n, l)
                 PROVE  /\ m \in [letter : Letter, reply : BOOLEAN, src : Node, at : Node, hops : Nat]
                        /\ m.src \in peers[m.at] /\ m.letter = l /\ ~ m.reply
                        /\ AtDest(m) \/ HasRoute(m.at, Dest(m.letter, m.reply))
      OBVIOUS
    <3>1. HasRoute(n, Dest(l, FALSE)) /\ m = ToNextHop(n, l, FALSE, HopLimit)
      BY <2>1 DEF FirstHop
    <3>2. m.letter = l /\ ~ m.reply
      BY <3>1 DEF ToNextHop
    <3> QED BY <2>1, <3>1, <3>2, NextHopGood
  <2>4. \A p, q \in FirstHop(n, l) : p = q
    BY DEF FirstHop
  <2>5. Lone'
    BY <2>2, <2>3, <2>4 DEF Lone
  <2>6. UNCHANGED <<peers, routes>>
    BY <2>2 DEF vars
  <2>7. NeverStranded'
    BY <2>2, <2>3, <2>6 DEF NeverStranded, AtDest, HasRoute
  <2>8. MailTypeOK'
    BY <2>2, <2>3, <2>6 DEF MailTypeOK
  <2> QED BY <2>5, <2>7, <2>8
<1>3. ASSUME NEW m \in mail, DeliverMail(m)
      PROVE  MailTypeOK' /\ NeverStranded' /\ Lone'
  <2>1. PICK out : Carry(m, out) /\ Onward(m, out)
    BY <1>3, DeliverOnward
  <2>2. m.at \in Node /\ m.letter \in Letter /\ m.reply \in BOOLEAN
    BY DEF MailTypeOK
  <2>3. \A p \in out :
           /\ p \in [letter : Letter, reply : BOOLEAN, src : Node, at : Node, hops : Nat]
           /\ p.src \in peers[p.at] /\ p.letter = m.letter /\ (p.reply => ~ IsPrivate(p.letter))
           /\ AtDest(p) \/ HasRoute(p.at, Dest(p.letter, p.reply))
    <3> SUFFICES ASSUME NEW p \in out
                 PROVE  /\ p \in [letter : Letter, reply : BOOLEAN, src : Node, at : Node, hops : Nat]
                        /\ p.src \in peers[p.at] /\ p.letter = m.letter
                        /\ p.reply => ~ IsPrivate(p.letter)
                        /\ AtDest(p) \/ HasRoute(p.at, Dest(p.letter, p.reply))
      OBVIOUS
    <3>1. PICK reply \in BOOLEAN, hops \in Nat :
             /\ p = ToNextHop(m.at, m.letter, reply, hops)
             /\ HasRoute(m.at, Dest(m.letter, reply))
             /\ reply => ~ IsPrivate(m.letter)
      BY <2>1 DEF Onward
    <3>2. p.letter = m.letter /\ p.reply = reply
      BY <3>1 DEF ToNextHop
    <3> QED BY <2>2, <3>1, <3>2, NextHopGood
  <2>4. \A p, q \in out : p = q
    BY <2>1 DEF Onward
  <2>5. /\ UNCHANGED <<vars, unsent>> /\ mail' \subseteq mail \cup out
        /\ \/ mail' = (mail \ {m}) \cup out /\ mailFaults' = mailFaults
           \/ mailFaults' = mailFaults + 1
    BY <2>1 DEF Carry
  <2>6. UNCHANGED <<peers, routes>>
    BY <2>5 DEF vars
  <2>7. mailFaults \in Nat
    BY DEF MailTypeOK
  <2>8. Lone'
    <3>1. \A p \in mail' : p.letter \notin unsent'
      BY <2>3, <2>5 DEF Lone
    <3>2. CASE mail' = (mail \ {m}) \cup out /\ mailFaults' = mailFaults
      BY <2>3, <2>4, <3>1, <3>2 DEF Lone
    <3>3. CASE mailFaults' = mailFaults + 1
      BY <2>7, <3>1, <3>3 DEF Lone
    <3> QED BY <2>5, <3>2, <3>3
  <2>9. NeverStranded'
    BY <2>3, <2>5, <2>6 DEF NeverStranded, AtDest, HasRoute
  <2>10. privateMsgs' \in [Node -> SUBSET Letter] /\ received' \subseteq [letter : Letter, reply : BOOLEAN]
    <3>1. Item(m.letter, FALSE) \in [letter : Letter, reply : BOOLEAN]
          /\ Item(m.letter, TRUE) \in [letter : Letter, reply : BOOLEAN]
      BY <2>2 DEF Item
    <3>2. /\ privateMsgs' = privateMsgs \/ privateMsgs' = [privateMsgs EXCEPT ![m.at] = @ \cup {m.letter}]
          /\ received' \in {received, received \cup {Item(m.letter, FALSE)},
                             received \cup {Item(m.letter, TRUE)}}
      BY <1>3 DEF DeliverMail, ReceivePrivateMessage, ForwardPrivateMessage,
                  ReceiveRequest, ReceiveReply, Forward
    <3>3. privateMsgs' \in [Node -> SUBSET Letter]
      BY <2>2, <3>2 DEF MailTypeOK
    <3> QED BY <3>1, <3>2, <3>3 DEF MailTypeOK
  <2>11. MailTypeOK'
    BY <2>3, <2>5, <2>6, <2>7, <2>10 DEF MailTypeOK
  <2> QED BY <2>8, <2>9, <2>11
<1>4. ASSUME NEW m \in mail, LoseMail(m)
      PROVE  MailTypeOK' /\ NeverStranded' /\ Lone'
  <2>1. /\ mail' = mail \ {m} /\ mailFaults' = mailFaults + 1
        /\ UNCHANGED <<peers, routes, unsent, privateMsgs, received>>
    BY <1>4 DEF LoseMail, vars
  <2> QED BY <2>1 DEF MailTypeOK, NeverStranded, Lone, AtDest, HasRoute
<1> QED BY <1>1, <1>2, <1>3, <1>4 DEF MailNext, vars, mailVars

\* A step of the packets under way is one of gossip, or none.
LEMMA MailNextGossips == [MailNext]_<<vars, mailVars>> => [Next]_vars
BY DEF MailNext, SendLetter, DeliverMail, ReceivePrivateMessage, ForwardPrivateMessage,
       ReceiveRequest, ReceiveReply, Forward, Carry, LoseMail

\* In every execution, whatever gossip does to the routes and the network to the
\* packets: variables keep their types, no packet is dropped for want of a
\* route, and a letter is in one packet while there are no faults.
THEOREM MailInvariants == MailSpec => [](MailTypeOK /\ NeverStranded /\ Lone)
<1>1. MailSpec => Spec
  BY MailNextGossips, PTL DEF MailSpec, Spec
<1>2. MailSpec => [](TypeOK /\ RoutesReachOrigin)
  BY <1>1, GossipTypeCorrect, RoutesReachCorrect, PTL
<1>3. Init /\ MailInit => Acquainted /\ MailTypeOK /\ NeverStranded /\ Lone
  BY DEF Init, MailInit, Acquainted, MailTypeOK, NeverStranded, Lone
<1>4. TypeOK /\ Acquainted /\ [MailNext]_<<vars, mailVars>> => Acquainted'
  BY AcquaintedNext, MailNextGossips
<1> QED BY <1>2, <1>3, <1>4, MailNextGood, PTL DEF MailSpec

\* Nobody drops a packet for want of a route.
THEOREM NeverStrandedCorrect == MailSpec => []NeverStranded
BY MailInvariants, PTL

\* A packet under way comes from a node its receiver knows, and is of its type.
THEOREM MailTypeCorrect == MailSpec => []MailTypeOK
BY MailInvariants, PTL

-----------------------------------------------------------------------------
(***************************************************************************)
(* Forwarding implements delivery.                                         *)
(***************************************************************************)

\* What the packets ms carry.
ItemsOf(ms) == {Item(m.letter, m.reply) : m \in ms}

\* Without one of its packets, an item is no longer under way, unless there is
\* another: after a fault.
LEMMA WithoutOne ==
    ASSUME MailTypeOK, Lone, NEW m \in mail, NEW faults1, mailFaults > 0 => faults1 > 0
    PROVE  LET p == Item(m.letter, m.reply)
           IN  /\ p \in underWay
               /\ ItemsOf(mail \ {m}) \in {underWay \ {p}} \cup IF faults1 > 0 THEN {underWay} ELSE {}
<1> DEFINE p == Item(m.letter, m.reply)
           rest == ItemsOf(mail \ {m})
<1>1. p \in underWay
  BY DEF underWay
<1>2. underWay \ {p} \subseteq rest /\ rest \subseteq underWay
  BY DEF underWay, ItemsOf
<1>3. rest = underWay \ {p} \/ rest = underWay
  BY <1>1, <1>2
<1>4. CASE mailFaults = 0
  <2>1. \A q \in mail \ {m} : Item(q.letter, q.reply) # p
    BY <1>4 DEF Lone, Item
  <2>2. rest = underWay \ {p}
    BY <1>3, <2>1, <1>1 DEF ItemsOf
  <2> QED BY <1>1, <2>2
<1>5. CASE mailFaults > 0
  <2>1. rest \in {underWay \ {p}} \cup {underWay}
    BY <1>3
  <2> QED BY <1>1, <1>5, <2>1
<1>6. mailFaults = 0 \/ mailFaults > 0
  BY DEF MailTypeOK
<1> QED BY <1>4, <1>5, <1>6

\* A handled packet leaves its item's remains and what it leads to.
LEMMA CarryLeaves ==
    ASSUME MailTypeOK, Lone, NEW m \in mail, NEW out, Carry(m, out)
    PROVE  LET p == Item(m.letter, m.reply)
           IN  /\ p \in underWay
               /\ D!MayFault
               /\ \E left \in D!Left(p) : underWay' = left \cup ItemsOf(out)
               /\ mailFaults' # mailFaults => mailFaults < MaxMailFaults /\ mailFaults' = mailFaults + 1
               /\ mailFaults' # mailFaults => underWay \in D!Left(p) /\ underWay' = underWay \cup ItemsOf(out)
<1> DEFINE p == Item(m.letter, m.reply)
<1>1. mailFaults \in Nat
  BY DEF MailTypeOK
<1>2. underWay' = ItemsOf(mail')
  BY DEF underWay, ItemsOf
<1>3. CASE mail' = (mail \ {m}) \cup out /\ UNCHANGED mailFaults
  <2>1. underWay' = ItemsOf(mail \ {m}) \cup ItemsOf(out)
    BY <1>2, <1>3 DEF ItemsOf
  <2>2. p \in underWay /\ ItemsOf(mail \ {m}) \in D!Left(p)
    BY <1>1, <1>3, WithoutOne DEF D!Left
  <2> QED BY <1>3, <2>1, <2>2 DEF D!MayFault
<1>4. CASE mailFaults < MaxMailFaults /\ mail' = mail \cup out /\ mailFaults' = mailFaults + 1
  <2>1. underWay' = underWay \cup ItemsOf(out)
    BY <1>2, <1>4 DEF ItemsOf, underWay
  <2>2. mailFaults' > 0
    BY <1>1, <1>4
  <2>3. p \in underWay /\ underWay \in D!Left(p)
    BY <2>2 DEF underWay, D!Left
  <2> QED BY <1>4, <2>1, <2>3 DEF D!MayFault
<1> QED BY <1>3, <1>4 DEF Carry

\* A packet that is passed on is where it was, for those who sent it; a copy
\* made on the way is a fault.
LEMMA PassingStutters ==
    ASSUME MailTypeOK, Lone, NEW m \in mail, NEW out, Carry(m, out),
           ItemsOf(out) = {Item(m.letter, m.reply)}, UNCHANGED arrived
    PROVE  [D!Next]_(D!vars)
<1> DEFINE p == Item(m.letter, m.reply)
<1>1. /\ p \in underWay
      /\ \E left \in D!Left(p) : underWay' = left \cup {p}
      /\ mailFaults' # mailFaults => mailFaults < MaxMailFaults /\ mailFaults' = mailFaults + 1
      /\ mailFaults' # mailFaults => underWay \in D!Left(p) /\ underWay' = underWay \cup {p}
  BY CarryLeaves
<1>2. underWay' = underWay
  BY <1>1 DEF D!Left
<1>3. CASE mailFaults' = mailFaults
  BY <1>2, <1>3 DEF D!vars
<1>4. CASE mailFaults' # mailFaults
  <2>1. D!Fault(p)
    BY <1>1, <1>2, <1>4 DEF D!Fault
  <2> QED BY <1>1, <2>1 DEF D!Next
<1> QED BY <1>3, <1>4

\* Every step is one of delivery, or none.
LEMMA DeliveryStep ==
    TypeOK /\ MailTypeOK /\ NeverStranded /\ Lone /\ [MailNext]_<<vars, mailVars>>
    => [D!Next]_(D!vars)
<1> SUFFICES ASSUME TypeOK, MailTypeOK, NeverStranded, Lone, [MailNext]_<<vars, mailVars>>
             PROVE  [D!Next]_(D!vars)
  OBVIOUS
<1>1. CASE UNCHANGED mailVars
  BY <1>1 DEF mailVars, D!vars, underWay, arrived
<1>2. ASSUME NEW l \in Letter, SendLetter(l) PROVE [D!Next]_(D!vars)
  <2> DEFINE n == Letters[l].origin
  <2>1. /\ mail' = mail \cup FirstHop(n, l) /\ UNCHANGED <<received, mailFaults>>
        /\ privateMsgs' = IF IsPrivate(l) /\ FirstHop(n, l) # {}
                          THEN [privateMsgs EXCEPT ![n] = @ \cup {l}] ELSE privateMsgs
    BY <1>2 DEF SendLetter
  <2>2. CASE FirstHop(n, l) = {}
    <3>1. UNCHANGED <<mail, privateMsgs, received, mailFaults>>
      BY <2>1, <2>2
    <3> QED BY <3>1 DEF D!vars, underWay, arrived
  <2>3. CASE HasRoute(n, Letters[l].dest) /\ FirstHop(n, l) = {ToNextHop(n, l, FALSE, HopLimit)}
    <3>1. underWay' = underWay \cup {Item(l, FALSE)}
      <4>1. mail' = mail \cup {ToNextHop(n, l, FALSE, HopLimit)}
        BY <2>1, <2>3
      <4>2. Item(ToNextHop(n, l, FALSE, HopLimit).letter, ToNextHop(n, l, FALSE, HopLimit).reply)
              = Item(l, FALSE)
        BY DEF ToNextHop
      <4> QED BY <4>1, <4>2 DEF underWay
    <3>2. n \in Node /\ n # Letters[l].dest
      BY <2>3, LetterAssumption DEF TypeOK, IsTable, HasRoute
    <3>3. \A k \in Letter : k \in privateMsgs'[Letters[k].dest] <=> k \in privateMsgs[Letters[k].dest]
      BY <2>1, <3>2, LetterAssumption DEF MailTypeOK
    <3>4. arrived' = arrived
      BY <2>1, <3>3 DEF arrived
    <3>5. D!Send(l)
      BY <2>1, <3>1, <3>4 DEF D!Send, D!Sent, Item
    <3> QED BY <3>5 DEF D!Next
  <2> QED BY <2>2, <2>3 DEF FirstHop
<1>3. ASSUME NEW m \in mail, DeliverMail(m) PROVE [D!Next]_(D!vars)
  <2> DEFINE p == Item(m.letter, m.reply)
  <2>1. m.letter \in Letter /\ m.at \in Node /\ m.reply \in BOOLEAN /\ (m.reply => ~ IsPrivate(m.letter))
    BY DEF MailTypeOK
  <2>2. \A n, reply, hops : ItemsOf({ToNextHop(n, m.letter, reply, hops)}) = {Item(m.letter, reply)}
    BY DEF ItemsOf, ToNextHop
  <2>3. ItemsOf({}) = {}
    BY DEF ItemsOf
  <2>4. CASE ReceivePrivateMessage(m)
    <3>1. Carry(m, {}) /\ p = Item(m.letter, FALSE) /\ IsPrivate(m.letter)
      BY <2>1, <2>4 DEF ReceivePrivateMessage
    <3>2. m.at = Letters[m.letter].dest
      BY <2>1, <2>4 DEF ReceivePrivateMessage, AtDest, Dest
    <3>3. \A k \in Letter : k \in privateMsgs'[Letters[k].dest]
                              <=> k \in privateMsgs[Letters[k].dest] \/ k = m.letter
      BY <2>1, <2>4, <3>2, LetterAssumption DEF ReceivePrivateMessage, MailTypeOK
    <3>4. arrived' = arrived \cup {p}
      BY <2>1, <2>4, <3>1, <3>3 DEF ReceivePrivateMessage, arrived
    <3>5. p \in underWay /\ D!MayFault /\ \E left \in D!Left(p) : underWay' = left \cup {}
      BY <2>3, <3>1, CarryLeaves
    <3> QED BY <3>4, <3>5 DEF D!Next, D!Arrive
  <2>5. CASE ReceiveRequest(m)
    <3>1. PICK out \in SUBSET ReplyTo(m) : Carry(m, out)
      BY <2>5 DEF ReceiveRequest
    <3>2. out = {} \/ out = {ToNextHop(m.at, m.letter, TRUE, HopLimit)}
      BY <3>1 DEF ReplyTo
    <3>3. ItemsOf(out) \in SUBSET D!Answers(p)
      <4>1. p = [letter |-> m.letter, reply |-> FALSE] /\ ~ IsPrivate(m.letter)
        BY <2>1, <2>5 DEF ReceiveRequest, Item
      <4>2. D!Answers(p) = {Item(m.letter, TRUE)}
        BY <4>1 DEF D!Answers, Item
      <4>3. CASE out = {}
        BY <2>3, <4>3
      <4>4. CASE out = {ToNextHop(m.at, m.letter, TRUE, HopLimit)}
        BY <2>2, <4>2, <4>4
      <4> QED BY <3>2, <4>3, <4>4
    <3>4. arrived' = arrived \cup {p}
      <4>1. p = Item(m.letter, FALSE) /\ received' = received \cup {p} /\ UNCHANGED privateMsgs
        BY <2>1, <2>5 DEF ReceiveRequest
      <4> QED BY <4>1 DEF arrived
    <3>5. p \in underWay /\ D!MayFault /\ \E left \in D!Left(p) : underWay' = left \cup ItemsOf(out)
      BY <3>1, CarryLeaves
    <3> QED BY <3>3, <3>4, <3>5 DEF D!Next, D!Arrive
  <2>6. CASE ReceiveReply(m)
    <3>1. Carry(m, {}) /\ arrived' = arrived \cup {p}
      BY <2>1, <2>6 DEF ReceiveReply, arrived
    <3>2. p \in underWay /\ D!MayFault /\ \E left \in D!Left(p) : underWay' = left \cup {}
      BY <2>3, <3>1, CarryLeaves
    <3> QED BY <3>1, <3>2 DEF D!Next, D!Arrive
  <2>7. CASE ForwardPrivateMessage(m)
    <3>1. UNCHANGED arrived
      BY <2>7 DEF ForwardPrivateMessage, arrived
    <3>2. CASE Carry(m, {ToNextHop(m.at, m.letter, FALSE, m.hops - 1)})
      <4>1. p = Item(m.letter, FALSE)
        BY <2>1, <2>7 DEF ForwardPrivateMessage
      <4> QED BY <2>2, <3>1, <3>2, <4>1, PassingStutters
    <3>3. CASE Carry(m, {})
      <4>1. p \in underWay /\ D!MayFault /\ underWay' \in D!Left(p)
        BY <2>3, <3>3, CarryLeaves
      <4>2. p.letter \in {l \in Letter : IsPrivate(l)}
        BY <2>1, <2>7 DEF ForwardPrivateMessage, Item
      <4> QED BY <3>1, <4>1, <4>2 DEF D!Next, D!Refuse
    <3> QED BY <2>7, <3>2, <3>3 DEF ForwardPrivateMessage
  <2>8. CASE Forward(m)
    <3>1. UNCHANGED arrived /\ Passes(m)
      BY <2>8 DEF Forward, arrived, NeverStranded, Passes
    <3>2. Carry(m, {ToNextHop(m.at, m.letter, m.reply, m.hops)})
      BY <2>8, <3>1 DEF Forward
    <3> QED BY <2>2, <3>1, <3>2, PassingStutters
  <2> QED BY <1>3, <2>4, <2>5, <2>6, <2>7, <2>8 DEF DeliverMail
<1>4. ASSUME NEW m \in mail, LoseMail(m) PROVE [D!Next]_(D!vars)
  <2> DEFINE p == Item(m.letter, m.reply)
  <2>1. /\ mailFaults < MaxMailFaults /\ mailFaults' = mailFaults + 1 /\ mail' = mail \ {m}
        /\ UNCHANGED <<privateMsgs, received>>
    BY <1>4 DEF LoseMail
  <2>2. mailFaults' > 0
    BY <2>1 DEF MailTypeOK
  <2>3. p \in underWay /\ ItemsOf(mail \ {m}) \in D!Left(p)
    BY <2>2, WithoutOne DEF D!Left
  <2>4. underWay' = ItemsOf(mail \ {m}) /\ UNCHANGED arrived
    BY <2>1 DEF underWay, ItemsOf, arrived
  <2> QED BY <2>1, <2>3, <2>4 DEF D!Next, D!Fault
<1> QED BY <1>1, <1>2, <1>3, <1>4 DEF MailNext, vars, mailVars

\* Over all the hops, and whatever becomes of the routes, what is sent arrives,
\* or is lost or refused: forwarding implements delivery.
THEOREM ForwardingDelivers == MailSpec => Delivers
<1>1. Init /\ MailInit => D!Init
  <2> SUFFICES ASSUME MailInit PROVE D!Init
    OBVIOUS
  <2>1. \A k \in Letter : k \notin privateMsgs[Letters[k].dest]
    BY LetterAssumption DEF MailInit
  <2> QED BY <2>1 DEF MailInit, D!Init, underWay, arrived
<1>2. MailSpec => Spec
  BY MailNextGossips, PTL DEF MailSpec, Spec
<1>3. MailSpec => []TypeOK
  BY <1>2, GossipTypeCorrect, PTL
<1> QED BY <1>1, <1>3, MailInvariants, DeliveryStep, PTL DEF MailSpec, Delivers, D!Spec
=============================================================================
