-------------------------------- MODULE Gossip --------------------------------
(***************************************************************************)
(* Rumor mongering with anti-entropy, and the routing table it feeds       *)
(* (code/gossiper.go, code/helper.go), among nodes whose packets the gate  *)
(* lets through.                                                           *)
(*                                                                         *)
(* A handler runs to its end before another goroutine of its node touches  *)
(* the state, except where the listeners of peers and of clients append to *)
(* the vector clock at once.  Timers and tickers go off at any time.       *)
(* Packets travel by UDP: in any order, and at the price of a fault lost   *)
(* or delivered twice.                                                     *)
(***************************************************************************)
EXTENDS Integers, FiniteSets, Sequences, Bags

CONSTANTS
    Node,
    PeerList,     \* the -peers flag of each node, as a set
    NoForward,    \* the nodes started with -noforward=true
    NoNode,
    MaxRumors,    \* bound on the rumors of each client
    MaxNet,       \* bound on the packets in flight when a client, timer or ticker sends
    MaxRouting,   \* bound on the routing rumors among them when a ticker sends one
    MaxRepeats,   \* bound on the coins that let mongering go on
    MaxFaults,    \* bound on the packets lost or delivered twice
    MaxRaces      \* bound on the appends that a race undoes

ASSUME NodeAssumption == NoNode \notin Node /\ NoForward \subseteq Node

\* A node without any peer panics at its client's first rumor.
ASSUME PeerListAssumption ==
    /\ PeerList \in [Node -> SUBSET Node]
    /\ \A n \in Node : PeerList[n] # {} /\ n \notin PeerList[n]

ASSUME BoundAssumption == MaxRumors \in [Node -> Nat] /\ MaxNet \in Nat

VARIABLES
    peers,         \* state.gossipers
    clock,         \* state.vectorClock.Want
    seen,          \* the keys of state.msgsSeen
    routes,        \* state.lastSeqnSeen and state.nextHops
    pending,       \* state.pendingAcks; running: the timer has not gone off
    overwritten,   \* the rumors of running timers no longer in pendingAcks
    clientNextID,  \* state.clientNextID
    net,           \* the packets in flight
    faults,        \* the packets lost or delivered twice so far
    races,         \* the appends to a vector clock lost so far
    repeats        \* the coins that let mongering go on so far

mongering == <<pending, overwritten>>
vars == <<peers, clock, seen, routes, mongering, clientNextID, net, faults, races, repeats>>

\* getKey.  Seen are only rumors with a text: those with a positive ID.
Key(r) == [origin |-> r.origin, id |-> r.id]

\* receivesRumorFromPeer's test of an empty text: -1 is the ID of routing rumors,
\* 0 that of NoRumor.
IsRouting(r) == r.id <= 0

\* What a map returns for a rumor it does not hold.
NoRumor == [origin |-> NoNode, id |-> 0, last |-> NoNode]

Rumor(src, dst, r) == [type |-> "Rumor", src |-> src, dst |-> dst, rumor |-> r]
Status(src, dst, want) == [type |-> "Status", src |-> src, dst |-> dst, want |-> want]

RoutingRumors(packets) == {m \in packets : m.type = "Rumor" /\ IsRouting(m.rumor)}

Init ==
    /\ peers = PeerList
    /\ clock = [n \in Node |-> <<>>]
    /\ seen = [n \in Node |-> {}]
    /\ routes = [n \in Node |-> <<>>]
    /\ pending = [n \in Node |-> <<>>]
    /\ overwritten = [n \in Node |-> EmptyBag]
    /\ clientNextID = [n \in Node |-> 1]
    /\ net = {}
    /\ faults = 0
    /\ races = 0
    /\ repeats = 0

Forwards(n) == n \notin NoForward

-----------------------------------------------------------------------------
(***************************************************************************)
(* The vector clock: a list of the next ID wanted of each origin.          *)
(***************************************************************************)

Origins(want) == {want[i].origin : i \in DOMAIN want}

\* NextID of the entry findPeerStatus finds, or 0.
NextID(want, o) ==
    IF o \in Origins(want)
    THEN want[CHOOSE i \in DOMAIN want : want[i].origin = o].next
    ELSE 0

\* Mutant: an unknown origin's clock starts after the first rumor received.
StartAfterFirst(want, r) ==
    IF r.origin \in Origins(want)
    THEN [i \in DOMAIN want |->
             IF want[i].origin = r.origin /\ want[i].next = r.id
             THEN [want[i] EXCEPT !.next = @ + 1] ELSE want[i]]
    ELSE Append(want, [origin |-> r.origin, next |-> r.id + 1])

UpdateVectorClock(want, r) ==
    IF r.origin \in Origins(want)
    THEN [i \in DOMAIN want |->
             IF want[i].origin = r.origin /\ want[i].next = r.id
             THEN [want[i] EXCEPT !.next = @ + 1] ELSE want[i]]
    ELSE Append(want, [origin |-> r.origin, next |-> IF r.id = 1 THEN 2 ELSE 1])

\* The entries of mine for which theirs has less, or nothing.
Ahead(mine, theirs) == {i \in DOMAIN mine : NextID(theirs, mine[i].origin) < mine[i].next}

\* The entry at which compareVectorClockWithOther stops.
FirstAhead(mine, theirs) ==
    CHOOSE i \in Ahead(mine, theirs) : \A j \in Ahead(mine, theirs) : i <= j

\* It looks for entries behind the other's up to that entry only, and for
\* origins it does not know.
SomeNotSeen(mine, theirs) ==
    \/ Origins(theirs) \ Origins(mine) # {}
    \/ \E i \in DOMAIN mine :
          /\ mine[i].next < NextID(theirs, mine[i].origin)
          /\ \A j \in Ahead(mine, theirs) : i < j

\* getMsg
GetMsg(msgs, key) ==
    IF key \in msgs THEN [origin |-> key.origin, id |-> key.id, last |-> NoNode] ELSE NoRumor

\* Mutant: the other is taken to know the origin.
NotSeenOfKnownOrigin(mine, theirs, msgs) ==
    {GetMsg(msgs, [origin |-> mine[i].origin, id |-> NextID(theirs, mine[i].origin)]) :
        i \in {j \in Ahead(mine, theirs) : j = FirstAhead(mine, theirs)}}

\* The rumor the other lacks, as a set of at most one: its first, if the other
\* knows none of that origin.
NotSeenByOther(mine, theirs, msgs) ==
    {GetMsg(msgs, [origin |-> mine[i].origin,
                   id |-> IF mine[i].origin \in Origins(theirs)
                          THEN NextID(theirs, mine[i].origin) ELSE 1]) :
        i \in {j \in Ahead(mine, theirs) : j = FirstAhead(mine, theirs)}}

-----------------------------------------------------------------------------
(***************************************************************************)
(* The routing table: the next hop is who sent the newest rumor.           *)
(***************************************************************************)

\* Mutant: a rumor as new as the newest is enough.
UpdateIfAsNew(n, table, r, from) ==
    IF r.origin = n \/ (r.origin \in DOMAIN table /\ r.id < table[r.origin].seq)
    THEN table
    ELSE [o \in DOMAIN table \cup {r.origin} |->
             IF o = r.origin THEN [seq |-> r.id, via |-> from] ELSE table[o]]

\* Mutant: the last rumor wins, however old.
UpdateAlways(n, table, r, from) ==
    IF r.origin = n THEN table
    ELSE [o \in DOMAIN table \cup {r.origin} |->
             IF o = r.origin THEN [seq |-> r.id, via |-> from] ELSE table[o]]

\* Mutant: a node learns a route to itself.
UpdateOwnToo(n, table, r, from) ==
    IF r.origin \in DOMAIN table /\ r.id <= table[r.origin].seq
    THEN table
    ELSE [o \in DOMAIN table \cup {r.origin} |->
             IF o = r.origin THEN [seq |-> r.id, via |-> from] ELSE table[o]]

\* Mutant: the next hop is the one the rumor names, before overwriteLast.
UpdateToLast(n, table, r, from) ==
    IF r.origin = n \/ (r.origin \in DOMAIN table /\ r.id <= table[r.origin].seq)
    THEN table
    ELSE [o \in DOMAIN table \cup {r.origin} |->
             IF o = r.origin THEN [seq |-> r.id, via |-> IF r.last \in {n, NoNode} THEN from ELSE r.last]
             ELSE table[o]]

\* isDirectRoute is false of every rumor received, since overwriteLast comes
\* first.
UpdateRoutingTable(n, table, r, from) ==
    IF r.origin = n \/ (r.origin \in DOMAIN table /\ r.id <= table[r.origin].seq)
    THEN table
    ELSE [o \in DOMAIN table \cup {r.origin} |->
             IF o = r.origin THEN [seq |-> r.id, via |-> from] ELSE table[o]]

-----------------------------------------------------------------------------
(***************************************************************************)
(* Mongering: a rumor is sent to one peer, and a timer started that only   *)
(* a status from that peer stops.                                          *)
(***************************************************************************)

\* What is in flight after m is received and the packets out are sent.
Exchange(m, out) ==
    \/ net' = (net \ {m}) \cup out /\ UNCHANGED faults
    \/ /\ faults < MaxFaults
       /\ net' = net \cup out
       /\ faults' = faults + 1

\* What a client, a timer or a ticker sends.
Send(out) ==
    /\ net' = net \cup out
    /\ Cardinality(net') <= MaxNet

\* waitForAck: the timer of an entry it replaces is forgotten, not stopped.
WaitForAck(n, acks, timers, r, p) ==
    /\ pending' = [pending EXCEPT ![n] =
                      [q \in DOMAIN acks \cup {p} |->
                          IF q = p THEN [rumor |-> r, running |-> TRUE] ELSE acks[q]]]
    /\ overwritten' = [overwritten EXCEPT ![n] =
                          IF p \in DOMAIN acks /\ acks[p].running
                          THEN timers (+) SetToBag({acks[p].rumor}) ELSE timers]

\* The coin falls so that mongering goes on, with any peer.
Repeat(n, acks, timers, r, p) ==
    /\ repeats < MaxRepeats
    /\ repeats' = repeats + 1
    /\ WaitForAck(n, acks, timers, r, p)

\* terminateMongering
Without(acks, p) == [q \in DOMAIN acks \ {p} |-> acks[q]]

\* An entry the other goroutine's append has written over.
LosesAppend(n) ==
    /\ races < MaxRaces
    /\ races' = races + 1
    /\ UNCHANGED clock

Learn(n, r) ==
    /\ clock' = [clock EXCEPT ![n] = UpdateVectorClock(@, r)]
    /\ UNCHANGED races

-----------------------------------------------------------------------------
(***************************************************************************)
(* Handlers of packets.                                                    *)
(***************************************************************************)

\* listenPeers remembers the sender.
Known(m) == peers[m.dst] \cup {m.src}

\* addPeerFromLast, then overwriteLast.
Met(m) == Known(m) \cup ({m.rumor.last} \ {NoNode, m.dst})
Forwarded(m) == [m.rumor EXCEPT !.last = m.src]

ReceiveRoutingRumor(m) ==
    /\ m.type = "Rumor"
    /\ IsRouting(m.rumor)
    /\ peers' = [peers EXCEPT ![m.dst] = Met(m)]
    /\ routes' = [routes EXCEPT ![m.dst] = UpdateRoutingTable(m.dst, @, m.rumor, m.src)]
    /\ \E p \in Met(m) : Exchange(m, {Rumor(m.dst, p, Forwarded(m))})
    /\ UNCHANGED <<clock, seen, mongering, clientNextID, races, repeats>>

ReceiveKnownRumor(m) ==
    /\ m.type = "Rumor"
    /\ ~ IsRouting(m.rumor)
    /\ Key(m.rumor) \in seen[m.dst]
    /\ peers' = [peers EXCEPT ![m.dst] = Met(m)]
    /\ Exchange(m, {})
    /\ UNCHANGED <<clock, seen, routes, mongering, clientNextID, races, repeats>>

\* The client's goroutine is about to append to the clock as well.
ClientAppends(n) == n \notin Origins(clock[n]) /\ clientNextID[n] <= MaxRumors[n]

ReceiveNewRumor(m) ==
    LET n == m.dst
        r == Forwarded(m)
    IN  /\ m.type = "Rumor"
        /\ ~ IsRouting(r)
        /\ Key(r) \notin seen[n]
        /\ peers' = [peers EXCEPT ![n] = Met(m)]
        /\ routes' = [routes EXCEPT ![n] = UpdateRoutingTable(n, @, r, m.src)]
        /\ \/ Learn(n, r)
           \/ r.origin \notin Origins(clock[n]) /\ ClientAppends(n) /\ LosesAppend(n)
        /\ seen' = [seen EXCEPT ![n] = @ \cup {Key(r)}]
        /\ \/ /\ Forwards(n)
              /\ \E p \in Met(m) :
                    /\ Exchange(m, {Rumor(n, p, r), Status(n, m.src, clock'[n])})
                    /\ WaitForAck(n, pending[n], overwritten[n], r, p)
           \/ /\ ~ Forwards(n)
              /\ Exchange(m, {})
              /\ UNCHANGED mongering
        /\ UNCHANGED <<clientNextID, repeats>>

\* A status ends the wait for it.  What is missing on either side is asked for
\* and sent; if nothing is, a coin decides whether mongering goes on.
ReceiveStatus(m) ==
    LET n == m.dst
        acks == pending[n]
        asked == IF SomeNotSeen(clock[n], m.want) THEN {Status(n, m.src, clock[n])} ELSE {}
        given == {Rumor(n, m.src, r) : r \in NotSeenByOther(clock[n], m.want, seen[n])}
    IN  /\ m.type = "Status"
        /\ peers' = [peers EXCEPT ![n] = Known(m)]
        /\ \/ /\ Exchange(m, IF Forwards(n) THEN asked \cup given ELSE {})
              /\ pending' = [pending EXCEPT ![n] = Without(acks, m.src)]
              /\ UNCHANGED <<overwritten, repeats>>
           \/ /\ Forwards(n)
              /\ asked \cup given = {}
              /\ m.src \in DOMAIN acks
              /\ \E p \in Known(m) :
                    /\ Exchange(m, {Rumor(n, p, acks[m.src].rumor)})
                    /\ Repeat(n, Without(acks, m.src), overwritten[n], acks[m.src].rumor, p)
        /\ UNCHANGED <<clock, seen, routes, clientNextID, races>>

-----------------------------------------------------------------------------
(***************************************************************************)
(* Clients, timers and tickers.                                            *)
(***************************************************************************)

\* A rumor to an origin unknown to n is about to be handled by its listener.
ListenerAppends(n) ==
    \E m \in net : /\ m.dst = n /\ m.type = "Rumor" /\ ~ IsRouting(m.rumor)
                   /\ Key(m.rumor) \notin seen[n]
                   /\ m.rumor.origin \notin Origins(clock[n])

\* receivesRumorFromClient, which the web server's handler calls as well.
ReceiveFromClient(n) ==
    LET r == [origin |-> n, id |-> clientNextID[n], last |-> NoNode]
    IN  /\ clientNextID[n] <= MaxRumors[n]
        /\ clientNextID' = [clientNextID EXCEPT ![n] = @ + 1]
        /\ \/ Learn(n, r)
           \/ n \notin Origins(clock[n]) /\ ListenerAppends(n) /\ LosesAppend(n)
        /\ seen' = [seen EXCEPT ![n] = @ \cup {Key(r)}]
        /\ \/ /\ Forwards(n)
              /\ \E p \in peers[n] :
                    /\ Send({Rumor(n, p, r)})
                    /\ WaitForAck(n, pending[n], overwritten[n], r, p)
           \/ /\ ~ Forwards(n)
              /\ UNCHANGED <<net, mongering>>
        /\ UNCHANGED <<peers, routes, faults, repeats>>

\* The coin of a timer: mongering ends, or goes on with a random peer.
AckTimer(n, p) ==
    LET acks == [pending[n] EXCEPT ![p].running = FALSE]
    IN  /\ p \in DOMAIN pending[n]
        /\ pending[n][p].running
        /\ \/ /\ pending' = [pending EXCEPT ![n] = acks]
              /\ UNCHANGED <<overwritten, net, repeats>>
           \/ \E q \in peers[n] :
                 /\ Send({Rumor(n, q, acks[p].rumor)})
                 /\ Repeat(n, acks, overwritten[n], acks[p].rumor, q)
        /\ UNCHANGED <<peers, clock, seen, routes, clientNextID, faults, races>>

\* The same for a timer whose entry has been overwritten.
OverwrittenTimer(n, r) ==
    LET rest == overwritten[n] (-) SetToBag({r})
    IN  /\ BagIn(r, overwritten[n])
        /\ \/ /\ overwritten' = [overwritten EXCEPT ![n] = rest]
              /\ UNCHANGED <<pending, net, repeats>>
           \/ \E q \in peers[n] :
                 /\ Send({Rumor(n, q, r)})
                 /\ Repeat(n, pending[n], rest, r, q)
        /\ UNCHANGED <<peers, clock, seen, routes, clientNextID, faults, races>>

AntiEntropy(n, p) ==
    /\ Forwards(n)
    /\ p \in peers[n]
    /\ Send({Status(n, p, clock[n])})
    /\ UNCHANGED <<peers, clock, seen, routes, mongering, clientNextID, faults, races, repeats>>

\* sendRoutingMessage
SendRoutingMessage(n) ==
    /\ Send({Rumor(n, p, [origin |-> n, id |-> -1, last |-> NoNode]) : p \in peers[n]})
    /\ Cardinality(RoutingRumors(net')) <= MaxRouting
    /\ UNCHANGED <<peers, clock, seen, routes, mongering, clientNextID, faults, races, repeats>>

Lose(m) ==
    /\ faults < MaxFaults
    /\ net' = net \ {m}
    /\ faults' = faults + 1
    /\ UNCHANGED <<peers, clock, seen, routes, mongering, clientNextID, races, repeats>>

Deliver(m) ==
    \/ ReceiveRoutingRumor(m)
    \/ ReceiveKnownRumor(m)
    \/ ReceiveNewRumor(m)
    \/ ReceiveStatus(m)

Next ==
    \/ \E m \in net : Deliver(m) \/ Lose(m)
    \/ \E n \in Node : \/ ReceiveFromClient(n)
                       \/ \E p \in Node : AckTimer(n, p) \/ AntiEntropy(n, p)
                       \/ \E r \in BagToSet(overwritten[n]) : OverwrittenTimer(n, r)
                       \/ SendRoutingMessage(n)

Spec == Init /\ [][Next]_vars

(***************************************************************************)
(* Fairness: anti-entropy comes round to every peer, what one node keeps   *)
(* announcing to another arrives, and rumors arrive.                       *)
(***************************************************************************)
Fairness ==
    /\ \A n \in Node : \A p \in PeerList[n] : SF_vars(AntiEntropy(n, p))
    /\ \A n \in Node : \A p \in Node \ {n} :
          WF_vars(\E m \in net : m.src = n /\ m.dst = p /\ ReceiveStatus(m))
    /\ WF_vars(\E m \in net : ReceiveKnownRumor(m) \/ ReceiveNewRumor(m))

FairSpec == Spec /\ Fairness

-----------------------------------------------------------------------------
(***************************************************************************)
(* Properties.                                                             *)
(***************************************************************************)

RumorKey == [origin : Node, id : Nat \ {0}]

RumorMessage ==
    {r \in [origin : Node \cup {NoNode}, id : {-1} \cup Nat, last : Node \cup {NoNode}] :
        r.origin = NoNode <=> r.id = 0}

Want == {w \in Seq([origin : Node, next : Nat \ {0}]) :
            \A i, j \in DOMAIN w : w[i].origin = w[j].origin => i = j}

Packet ==
    [type : {"Rumor"}, src : Node, dst : Node, rumor : RumorMessage] \cup
    [type : {"Status"}, src : Node, dst : Node, want : Want]

IsTable(n, table) ==
    /\ DOMAIN table \subseteq (Node \cup {NoNode}) \ {n}
    /\ table \in [DOMAIN table -> [seq : {-1} \cup Nat, via : Node]]

IsAcks(acks) ==
    /\ DOMAIN acks \subseteq Node
    /\ acks \in [DOMAIN acks -> [rumor : RumorMessage, running : BOOLEAN]]

\* All that want has counted is among msgs.
Counted(want, msgs) ==
    \A i \in DOMAIN want : \A id \in 1 .. want[i].next - 1 :
        [origin |-> want[i].origin, id |-> id] \in msgs

\* Every variable has its type; a clock has one entry per origin, and no node
\* has a route to itself.
TypeOK ==
    /\ peers \in [Node -> SUBSET Node]
    /\ clock \in [Node -> Want]
    /\ seen \in [Node -> SUBSET RumorKey]
    /\ DOMAIN routes = Node /\ \A n \in Node : IsTable(n, routes[n])
    /\ DOMAIN pending = Node /\ \A n \in Node : IsAcks(pending[n])
    /\ DOMAIN overwritten = Node
    /\ \A n \in Node : BagToSet(overwritten[n]) \subseteq RumorMessage
    /\ clientNextID \in [Node -> Nat \ {0}]
    /\ net \subseteq Packet
    /\ faults \in Nat /\ races \in Nat /\ repeats \in Nat

\* No vector clock, and no status under way, is past a rumor its node has not
\* received: what compareVectorClockWithOther offers, getMsg has, and what it
\* does not ask for has come.  (updateVectorClock)
ClockIsBehind ==
    /\ \A n \in Node : Counted(clock[n], seen[n])
    /\ \A m \in net : m.type = "Status" => Counted(m.want, seen[m.src])

\* A node's route to an origin comes from the newest of the origin's rumors it
\* has received, in whatever order they came.  (updateRoutingTable)
RouteIsNewest ==
    \A n \in Node : \A k \in seen[n] :
        k.origin # n => /\ k.origin \in DOMAIN routes[n]
                        /\ [origin |-> k.origin, id |-> routes[n][k.origin].seq] \in seen[n]
                        /\ routes[n][k.origin].seq >= k.id

\* Following next hops leads to the destination: every node on the way has a
\* next hop, and they do not form a loop.  (forwardPrivateMessage and the other
\* forwarding functions follow them)
RoutesReachOrigin ==
    \A o \in Node :
        LET On == {n \in Node : o \in DOMAIN routes[n]}
        IN  /\ \A n \in On : routes[n][o].via \in On \cup {o}
            /\ \A loop \in (SUBSET On) \ {{}} : \E n \in loop : routes[n][o].via \notin loop

\* Between forwarding nodes, statuses and the rumors they are answered with
\* bring the first rumor of every client to every node, even if mongering ends
\* early.  (receivesStatusFromPeer; a later rumor that overtook an earlier one
\* is never counted, and need not spread.)
FirstRumorsSpread ==
    \A o, n \in Node \ NoForward :
        [origin |-> o, id |-> 1] \in seen[o] ~> [origin |-> o, id |-> 1] \in seen[n]
=============================================================================
