----------------------------- MODULE Forwarding -----------------------------
(***************************************************************************)
(* Private messages, data requests and their replies, which travel along   *)
(* the next hops that gossip keeps changing (code/gossiper.go,             *)
(* code/helper.go, code/filehandler.go).  A search reply travels as a data *)
(* request does.                                                           *)
(*                                                                         *)
(* Every step is one of gossip, or one of a packet under way.              *)
(***************************************************************************)
EXTENDS Gossip

CONSTANTS
    Letter,         \* what clients send: private messages and requests
    Letters,        \* of each letter: origin, destination and whether private
    HopLimit,       \* 10 in the code
    MaxLetters,     \* bound on the letters sent: none changes the way of another
    MaxMailFaults   \* bound on the packets under way lost or delivered twice

ASSUME LetterAssumption ==
    /\ Letters \in [Letter -> [origin : Node, dest : Node, private : BOOLEAN]]
    /\ HopLimit \in Nat /\ MaxLetters \in Nat /\ MaxMailFaults \in Nat

VARIABLES
    mail,         \* the packets under way: what, from and to whom, and hop limit
    unsent,       \* the letters no client has sent
    privateMsgs,  \* the private messages each node keeps, sent and received
    received,     \* the requests and replies that reached their destination
    mailFaults

mailVars == <<mail, unsent, privateMsgs, received, mailFaults>>

MailInit ==
    /\ mail = {}
    /\ unsent = Letter
    /\ privateMsgs = [n \in Node |-> {}]
    /\ received = {}
    /\ mailFaults = 0

IsPrivate(l) == Letters[l].private
Item(l, reply) == [letter |-> l, reply |-> reply]
Dest(l, reply) == IF reply THEN Letters[l].origin ELSE Letters[l].dest
AtDest(m) == m.at = Dest(m.letter, m.reply)

HasRoute(n, o) == o \in DOMAIN routes[n]

\* What n sends to the next hop.
ToNextHop(n, l, reply, hops) ==
    [letter |-> l, reply |-> reply, src |-> n, at |-> routes[n][Dest(l, reply)].via, hops |-> hops]

\* m is delivered, or will be again; its sender is known already, so listenPeers
\* adds no peer.
Carry(m, out) ==
    /\ \/ mail' = (mail \ {m}) \cup out /\ UNCHANGED mailFaults
       \/ /\ mailFaults < MaxMailFaults
          /\ mail' = mail \cup out
          /\ mailFaults' = mailFaults + 1
    /\ UNCHANGED <<vars, unsent>>

-----------------------------------------------------------------------------
\* Mutant: without a next hop, the peers get it.
FirstHopOrPeers(n, l) ==
    IF HasRoute(n, Letters[l].dest) THEN {ToNextHop(n, l, FALSE, HopLimit)}
    ELSE {[letter |-> l, reply |-> FALSE, src |-> n, at |-> p, hops |-> HopLimit] : p \in peers[n]}

FirstHop(n, l) ==
    IF HasRoute(n, Letters[l].dest) THEN {ToNextHop(n, l, FALSE, HopLimit)} ELSE {}

\* sendPrivateMessage, or the first sendDataRequest: nothing without a next hop.
SendLetter(l) ==
    LET n == Letters[l].origin
    IN  /\ l \in unsent
        /\ Cardinality(Letter \ unsent) < MaxLetters
        /\ unsent' = unsent \ {l}
        /\ mail' = mail \cup FirstHop(n, l)
        /\ privateMsgs' = IF IsPrivate(l) /\ FirstHop(n, l) # {}
                          THEN [privateMsgs EXCEPT ![n] = @ \cup {l}] ELSE privateMsgs
        /\ UNCHANGED <<vars, received, mailFaults>>

ReceivePrivateMessage(m) ==
    /\ IsPrivate(m.letter) /\ AtDest(m)
    /\ privateMsgs' = [privateMsgs EXCEPT ![m.at] = @ \cup {m.letter}]
    /\ Carry(m, {})
    /\ UNCHANGED received

\* The hop limit counts the nodes on the way; -noforward refuses only these.
ForwardPrivateMessage(m) ==
    /\ IsPrivate(m.letter) /\ ~ AtDest(m)
    /\ Carry(m, IF Forwards(m.at) /\ HasRoute(m.at, Letters[m.letter].dest) /\ m.hops > 1
                THEN {ToNextHop(m.at, m.letter, FALSE, m.hops - 1)} ELSE {})
    /\ UNCHANGED <<privateMsgs, received>>

\* The reply, if the data is there and the origin has a next hop.
ReplyTo(m) ==
    IF HasRoute(m.at, Letters[m.letter].origin)
    THEN {ToNextHop(m.at, m.letter, TRUE, HopLimit)} ELSE {}

ReceiveRequest(m) ==
    /\ ~ IsPrivate(m.letter) /\ ~ m.reply /\ AtDest(m)
    /\ received' = received \cup {Item(m.letter, FALSE)}
    /\ \E out \in SUBSET ReplyTo(m) : Carry(m, out)
    /\ UNCHANGED privateMsgs

ReceiveReply(m) ==
    /\ m.reply /\ AtDest(m)
    /\ received' = received \cup {Item(m.letter, TRUE)}
    /\ Carry(m, {})
    /\ UNCHANGED privateMsgs

\* Mutant: -noforward refuses these as well.
PassesIfForwarding(m) == Forwards(m.at) /\ HasRoute(m.at, Dest(m.letter, m.reply))

Passes(m) == HasRoute(m.at, Dest(m.letter, m.reply))

\* forwardDataRequest and forwardDataReply, which leave the hop limit alone.
Forward(m) ==
    /\ ~ IsPrivate(m.letter) /\ ~ AtDest(m)
    /\ Carry(m, IF Passes(m)
                THEN {ToNextHop(m.at, m.letter, m.reply, m.hops)} ELSE {})
    /\ UNCHANGED <<privateMsgs, received>>

LoseMail(m) ==
    /\ mailFaults < MaxMailFaults
    /\ mail' = mail \ {m}
    /\ mailFaults' = mailFaults + 1
    /\ UNCHANGED <<vars, unsent, privateMsgs, received>>

DeliverMail(m) ==
    \/ ReceivePrivateMessage(m) \/ ForwardPrivateMessage(m)
    \/ ReceiveRequest(m) \/ ReceiveReply(m) \/ Forward(m)

MailNext ==
    \/ Next /\ UNCHANGED mailVars
    \/ \E l \in Letter : SendLetter(l)
    \/ \E m \in mail : DeliverMail(m) \/ LoseMail(m)

MailSpec == Init /\ MailInit /\ [][MailNext]_<<vars, mailVars>>

\* Packets under way arrive.
MailFairness ==
    \A l \in Letter, reply \in BOOLEAN :
        WF_<<vars, mailVars>>(\E m \in mail : m.letter = l /\ m.reply = reply /\ DeliverMail(m))

FairMailSpec == MailSpec /\ MailFairness

-----------------------------------------------------------------------------
(***************************************************************************)
(* Properties.                                                             *)
(***************************************************************************)

\* Every variable has its type, a reply is to a request, and a packet comes from
\* a node its receiver knows.
MailTypeOK ==
    /\ mail \subseteq [letter : Letter, reply : BOOLEAN, src : Node, at : Node, hops : Nat]
    /\ \A m \in mail : m.reply => ~ IsPrivate(m.letter)
    /\ \A m \in mail : m.src \in peers[m.at]
    /\ unsent \subseteq Letter
    /\ privateMsgs \in [Node -> SUBSET Letter]
    /\ received \subseteq [letter : Letter, reply : BOOLEAN]
    /\ mailFaults \in Nat

\* A packet under way is at its destination, or at a node with a next hop to it,
\* whatever rumors have changed since it was sent: nobody drops it for want of a
\* route.  (forwardPrivateMessage, forwardDataRequest and forwardDataReply)
NeverStranded == \A m \in mail : AtDest(m) \/ HasRoute(m.at, Dest(m.letter, m.reply))

underWay == {Item(m.letter, m.reply) : m \in mail}
arrived ==
    received \cup {Item(l, FALSE) : l \in {k \in Letter : IsPrivate(k) /\ k \in privateMsgs[Letters[k].dest]}}

D == INSTANCE Delivery
        WITH Private <- {l \in Letter : IsPrivate(l)}, MaxFaults <- MaxMailFaults,
             faults <- mailFaults

\* Over all the hops, nothing under way disappears unless it arrives, the network
\* loses it, or a private message is refused: forwarding is delivery.
Delivers == D!Spec

\* Requests and replies that are under way come to their destination, through
\* nodes that do not forward as well, and also when newer rumors turn them back
\* on the way: their hop limit does not count, and there are only so many rumors.
\* (A private message that is turned back may be refused where it passed before,
\* or run out of hops.  forwardDataRequest, forwardDataReply)
MailArrives ==
    \A l \in Letter, reply \in BOOLEAN :
        ~ IsPrivate(l) =>
            (Item(l, reply) \in underWay ~> Item(l, reply) \in arrived \/ mailFaults > 0)
=============================================================================
