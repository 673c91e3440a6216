------------------------------ MODULE Joining ------------------------------
(***************************************************************************)
(* The joining protocol (code/puzzleshandler.go) with the gate every       *)
(* gossip packet goes through (code/sybilresistance.go): an unregistered   *)
(* sender is sent a puzzle, mines a block for it, and is registered by the *)
(* proposer, which broadcasts the block and sends its whole chain back.    *)
(*                                                                         *)
(* One process per node: the goroutine of listenPeers runs the handlers    *)
(* one packet at a time and stays inside handlePuzzleProposal while it     *)
(* mines; expireJoining, updateMapWithMatches and the senders of gossip    *)
(* are goroutines of their own.  Packets travel by UDP: in any order, and  *)
(* at the price of a fault lost or delivered twice.  The clocks agree.     *)
(***************************************************************************)
EXTENDS BlockChain

CONSTANTS
    Genesis,     \* the nodes started with -genesis=true
    PeerList,    \* the -peers flag of each node, a sequence of nodes
    NoNode, NoJob,
    MaxStart,    \* bound on the time the genesis block takes to be mined
    MaxTime,     \* bound on the clock
    MaxMined,    \* bound on the blocks mined
    MaxGossip,   \* bound on the gossip packets in flight
    MaxPeers,    \* rumors make a node known to nodes that know fewer than this many
    MaxFaults    \* bound on the packets lost or delivered twice

ASSUME GenesisAssumption == Genesis \subseteq Node

\* state.gossipers and ps.peers start as one slice; with at most two peers it
\* has no spare capacity, so that appending to one cannot write into the other.
ASSUME PeerListAssumption ==
    /\ PeerList \in [Node -> Seq(Node)]
    /\ \A n \in Node : Len(PeerList[n]) <= 2

ASSUME NoneAssumption == NoNode \notin Node

VARIABLES
    now,        \* the clock
    myID,       \* ps.MyID
    joined,     \* ps.Joined
    chain,      \* ps.LocalChain
    waiting,    \* ps.waiting: the puzzle proposed to each address
    peers,      \* ps.peers: where blocks are broadcast
    gossipers,  \* state.gossipers: where gossip is sent
    monitored,  \* the addresses that have an entry in cn.activeNeighbors
    matched,    \* the address updateMapWithMatches received and has not yet recorded
    mining,     \* the puzzle handlePuzzleProposal is busy with
    nextTick,   \* when the ticker of expireJoining fires next
    crashed,    \* "no", or what the process panicked on
    net,        \* the packets in flight
    mined,      \* every block mined so far, by hash: the random oracle's answers
    faults      \* the packets lost or delivered twice so far

ledger == <<myID, joined, chain, waiting, peers>>
monitor == <<monitored, matched>>
vars == <<now, ledger, gossipers, monitor, mining, nextTick, crashed, net, mined, faults>>

Proposal == [id : NodeID, ts : Nat, prev : History]

Job == [pp : Proposal, from : Node, start : Nat]

Gossip(src, dst, id) == [type |-> "Gossip", src |-> src, dst |-> dst, nodeID |-> id]
PProposal(src, dst, pp) == [type |-> "PProposal", src |-> src, dst |-> dst, pp |-> pp]
PResponse(src, dst, b) == [type |-> "PResponse", src |-> src, dst |-> dst, block |-> b]
BBroadcast(src, dst, b) == [type |-> "BBroadcast", src |-> src, dst |-> dst, block |-> b]
BChain(src, dst, c) == [type |-> "BChain", src |-> src, dst |-> dst, chain |-> c]

(***************************************************************************)
(* Every process runs; a genesis node has just mined its block, which it   *)
(* stamped at time 0, before, and starts the ticker of expireJoining.  The *)
(* ticker of any other node is at any phase: it started some time ago, or  *)
(* it has not said anything yet.                                           *)
(***************************************************************************)
Init ==
    /\ now \in 0 .. Expiration /\ now <= MaxStart
    /\ myID = [n \in Node |-> IF n \in Genesis THEN 1 ELSE 0]
    /\ joined = [n \in Node |-> n \in Genesis]
    /\ chain = [n \in Node |-> IF n \in Genesis THEN InitGenesis(1, 0, n) ELSE EmptyChain]
    /\ waiting = [n \in Node |-> <<>>]
    /\ peers = [n \in Node |-> ToSet(PeerList[n])]
    /\ gossipers = peers
    /\ monitored = [n \in Node |-> IF PeerList[n] = <<>> THEN {} ELSE {PeerList[n][1]}]
    /\ matched = [n \in Node |-> NoNode]
    /\ mining = [n \in Node |-> NoJob]
    /\ nextTick \in [Node -> now + 1 .. now + Expiration]
    /\ \A n \in Genesis : nextTick[n] = now + Expiration
    /\ crashed = [n \in Node |-> "no"]
    /\ net = {}
    /\ mined = {Hash(MakeBlock(1, 0, n, NoHash)) : n \in Genesis}
    /\ faults = 0

Running(n) == crashed[n] = "no"

-----------------------------------------------------------------------------
(***************************************************************************)
(* Receiving a packet: listenPeers takes it off the socket, remembers the  *)
(* sender, and hands it to the handler of its type.                        *)
(***************************************************************************)

\* What is in flight after m is received and the packets out are sent; at
\* the price of a fault, m will be delivered again.
Exchange(m, out) ==
    \/ net' = (net \ {m}) \cup out /\ UNCHANGED faults
    \/ /\ faults < MaxFaults
       /\ net' = net \cup out
       /\ faults' = faults + 1

\* Mutant: the sender is not remembered.
ReceiveAnonymously(m, type, met) ==
    /\ m.type = type
    /\ Running(m.dst)
    /\ mining[m.dst] = NoJob
    /\ UNCHANGED gossipers

Receive(m, type, met) ==
    /\ m.type = type
    /\ Running(m.dst)
    /\ mining[m.dst] = NoJob
    /\ gossipers' = [gossipers EXCEPT ![m.dst] = @ \cup {m.src} \cup met]

Ignore(m) ==
    /\ Exchange(m, {})
    /\ UNCHANGED <<ledger, matched, mining, crashed>>

Panic(m, why) ==
    /\ crashed' = [crashed EXCEPT ![m.dst] = why]
    /\ Exchange(m, {})
    /\ UNCHANGED <<ledger, matched, mining>>

\* The first test of handleGossipPacket.
Registered(n, id) ==
    /\ id # myID[n]
    /\ ContainsValidNodeID(chain[n], id, now)

\* handleGossipPacket can return true for m: the sender's address is
\* monitored.  (Whether it is active now is NeighborMonitor's business.)
Admits(n, m) ==
    /\ Registered(n, m.nodeID)
    /\ m.src \in monitored[n]

CanPropose(n, joiner) ==
    /\ chain[n].last # NoBlock
    /\ joined[n]
    /\ joiner \notin DOMAIN waiting[n]

SendPuzzleProposal(m) ==
    LET n == m.dst
        pp == [id   |-> NextNodeID(chain[n], now),
               ts   |-> now,
               prev |-> Hash(chain[n].last)]
    IN  /\ waiting' = [waiting EXCEPT ![n] =
                         [a \in DOMAIN @ \cup {m.src} |-> IF a = m.src THEN pp ELSE @[a]]]
        /\ Exchange(m, {PProposal(n, m.src, pp)})
        /\ UNCHANGED <<myID, joined, chain, peers, matched, mining, crashed>>

\* addPeerFromLast: a rumor that is let through names the node its sender had it
\* from, one whose packets the sender let through: it knows the ID they carry.
Met(m) ==
    {k \in monitored[m.src] \ {m.dst} :
        myID[k] \in DOMAIN chain[m.src].blocks \ {myID[m.src]}}

\* What else a packet that is let through changes is Gossip's business.
HandleGossipPacket(m) ==
    /\ \/ Receive(m, "Gossip", {})
       \/ \E k \in Node :
             /\ Receive(m, "Gossip", {k})
             /\ Admits(m.dst, m) /\ k \in Met(m)
             /\ Cardinality(gossipers[m.dst]) < MaxPeers
    /\ IF ~ Registered(m.dst, m.nodeID) /\ CanPropose(m.dst, m.src)
       THEN SendPuzzleProposal(m)
       ELSE Ignore(m)
    /\ UNCHANGED <<now, monitored, nextTick, mined>>

HandlePuzzleProposal(m) ==
    /\ Receive(m, "PProposal", {})
    /\ \/ joined[m.dst] /\ Ignore(m)
       \/ /\ ~ joined[m.dst]
          /\ Cardinality(mined) < MaxMined
          /\ mining' = [mining EXCEPT ![m.dst] =
                           [pp |-> m.pp, from |-> m.src, start |-> now]]
          /\ Exchange(m, {})
          /\ UNCHANGED <<ledger, matched, crashed>>
    /\ UNCHANGED <<now, monitored, nextTick, mined>>

\* The rest of handlePuzzleProposal, once mineBlock has returned b.
Respond(n, b) ==
    LET job == mining[n]
    IN  /\ myID' = [myID EXCEPT ![n] = job.pp.id]
        /\ peers' = [peers EXCEPT ![n] = @ \cup {job.from}]
        /\ net' = net \cup {PResponse(n, job.from, b)}
        /\ mining' = [mining EXCEPT ![n] = NoJob]
        /\ UNCHANGED <<now, joined, chain, waiting, gossipers, monitor, nextTick, crashed, faults>>

FinishMining(n) ==
    /\ Running(n) /\ mining[n] # NoJob
    /\ LET pp == mining[n].pp
           b == MakeBlock(pp.id, pp.ts, n, pp.prev)
       IN  /\ IsValid(b, now)
           /\ mined' = mined \cup {Hash(b)}
           /\ Respond(n, b)

GiveUpMining(n) ==
    /\ Running(n) /\ mining[n] # NoJob
    /\ now - mining[n].start > Expiration
    /\ Respond(n, NoBlock)
    /\ UNCHANGED mined

BroadcastBlock(n, b, from) == {BBroadcast(n, p, b) : p \in peers'[n] \ {from}}

\* The block answers the puzzle and extends the chain.
AcceptResponse(m) ==
    LET n == m.dst
    IN  /\ matched[n] = NoNode      \* updateMapWithMatches is at its receive
        /\ chain' = [chain EXCEPT ![n] = AddBlock(@, m.block)]
        /\ waiting' = [waiting EXCEPT ![n] = [a \in DOMAIN @ \ {m.src} |-> @[a]]]
        /\ peers' = [peers EXCEPT ![n] = @ \cup {m.src}]
        /\ matched' = [matched EXCEPT ![n] = m.src]
        /\ Exchange(m, BroadcastBlock(n, m.block, m.src) \cup {BChain(n, m.src, chain'[n])})
        /\ UNCHANGED <<myID, joined, mining, crashed>>

HandlePuzzleResponse(m) ==
    /\ Receive(m, "PResponse", {})
    /\ IF m.src \notin DOMAIN waiting[m.dst] THEN Ignore(m)
       ELSE IF m.block = NoBlock THEN Panic(m, "nilBlock")
       ELSE LET pp == waiting[m.dst][m.src]
            IN  IF /\ m.block.id = pp.id
                   /\ m.block.ts = pp.ts
                   /\ CanAdd(chain[m.dst], m.block, now)
                THEN AcceptResponse(m)
                ELSE Ignore(m)
    /\ UNCHANGED <<now, monitored, nextTick, mined>>

\* addBlock writes to the map: a node that never had a chain has a nil one.
HandleBlockBroadcast(m) ==
    LET n == m.dst
    IN  /\ Receive(m, "BBroadcast", {})
        /\ IF ~ CanAdd(chain[n], m.block, now) THEN Ignore(m)
           ELSE IF chain[n].last = NoBlock THEN Panic(m, "nilMap")
           ELSE /\ chain' = [chain EXCEPT ![n] = AddBlock(@, m.block)]
                /\ UNCHANGED <<myID, joined, waiting, peers, matched, mining, crashed>>
                /\ Exchange(m, BroadcastBlock(n, m.block, m.src))
        /\ UNCHANGED <<now, monitored, nextTick, mined>>

HandleBlockChain(m) ==
    LET n == m.dst
    IN  /\ Receive(m, "BChain", {})
        /\ IF joined[n] THEN Ignore(m)
           ELSE IF ~ CheckIntegrity(m.chain, now) THEN Panic(m, "integrity")
           ELSE /\ chain' = [chain EXCEPT ![n] = m.chain]
                /\ joined' = [joined EXCEPT ![n] = TRUE]
                /\ Exchange(m, {})
                /\ UNCHANGED <<myID, waiting, peers, matched, mining, crashed>>
        /\ UNCHANGED <<now, monitored, nextTick, mined>>

Handle(m) ==
    \/ HandleGossipPacket(m)
    \/ HandlePuzzleProposal(m)
    \/ HandlePuzzleResponse(m)
    \/ HandleBlockBroadcast(m)
    \/ HandleBlockChain(m)

-----------------------------------------------------------------------------
(***************************************************************************)
(* The other goroutines of a node, the clock and the network.              *)
(***************************************************************************)

\* Anti-entropy, routing rumors and the chat: any gossip packet to a known peer.
SendGossip(n, to) ==
    /\ Running(n) /\ to \in gossipers[n]
    /\ Cardinality({m \in net : m.type = "Gossip"}) < MaxGossip
    /\ net' = net \cup {Gossip(n, to, myID[n])}
    /\ UNCHANGED <<now, ledger, gossipers, monitor, mining, nextTick, crashed, mined, faults>>

UpdateMapWithMatches(n) ==
    /\ Running(n) /\ matched[n] # NoNode
    /\ monitored' = [monitored EXCEPT ![n] = @ \cup {matched[n]}]
    /\ matched' = [matched EXCEPT ![n] = NoNode]
    /\ UNCHANGED <<now, ledger, gossipers, mining, nextTick, crashed, net, mined, faults>>

\* Mutant: a node remains a member while the last block of its chain is live.
ExpireWithLast(n) ==
    /\ Running(n) /\ now >= nextTick[n]
    /\ joined' = [joined EXCEPT ![n] = @ /\ IsValid(chain[n].last, now)]
    /\ nextTick' = [nextTick EXCEPT ![n] = @ + Expiration]
    /\ UNCHANGED <<now, myID, chain, waiting, peers, gossipers, monitor, mining, crashed, net, mined, faults>>

ExpireJoining(n) ==
    /\ Running(n) /\ now >= nextTick[n]
    /\ joined' = [joined EXCEPT ![n] = FALSE]
    /\ nextTick' = [nextTick EXCEPT ![n] = @ + Expiration]
    /\ UNCHANGED <<now, myID, chain, waiting, peers, gossipers, monitor, mining, crashed, net, mined, faults>>

\* A unit of time is long enough for a ticker that is due to fire.
Tick ==
    /\ now < MaxTime
    /\ \A n \in Node : Running(n) => now < nextTick[n]
    /\ now' = now + 1
    /\ UNCHANGED <<ledger, gossipers, monitor, mining, nextTick, crashed, net, mined, faults>>

Lose(m) ==
    /\ faults < MaxFaults
    /\ net' = net \ {m}
    /\ faults' = faults + 1
    /\ UNCHANGED <<now, ledger, gossipers, monitor, mining, nextTick, crashed, mined>>

Next ==
    \/ \E m \in net : Handle(m) \/ Lose(m)
    \/ \E n \in Node :
          \/ FinishMining(n)
          \/ GiveUpMining(n)
          \/ UpdateMapWithMatches(n)
          \/ ExpireJoining(n)
          \/ \E to \in gossipers[n] : SendGossip(n, to)
    \/ Tick

Spec == Init /\ [][Next]_vars

(***************************************************************************)
(* Fairness: the network delivers, mining ends, the goroutines run, and    *)
(* the tickers of anti-entropy and routing rumors keep packets going to    *)
(* every known peer.                                                       *)
(***************************************************************************)
Deliver(src, dst, type) ==
    \E m \in net : m.src = src /\ m.dst = dst /\ m.type = type /\ Handle(m)

PacketType == {"Gossip", "PProposal", "PResponse", "BBroadcast", "BChain"}

Fairness ==
    /\ \A n \in Node : WF_vars(FinishMining(n)) /\ WF_vars(UpdateMapWithMatches(n))
    /\ \A n \in Node : \A k \in Node \ {n} :
          /\ SF_vars(SendGossip(n, k))
          /\ \A type \in PacketType : WF_vars(Deliver(n, k, type))

FairSpec == Spec /\ Fairness

-----------------------------------------------------------------------------
(***************************************************************************)
(* Properties.                                                             *)
(***************************************************************************)

IsPacket(m) ==
    \/ m \in [type : {"Gossip"}, src : Node, dst : Node, nodeID : Nat]
    \/ m \in [type : {"PProposal"}, src : Node, dst : Node, pp : Proposal]
    \/ m \in [type : {"PResponse"}, src : Node, dst : Node, block : Block \cup {NoBlock}]
    \/ m \in [type : {"BBroadcast"}, src : Node, dst : Node, block : Block]
    \/ /\ m.type = "BChain"
       /\ m = BChain(m.src, m.dst, m.chain)
       /\ m.src \in Node /\ m.dst \in Node
       /\ IsChain(m.chain)

\* Every variable has its type; in particular the map and the list of a chain
\* always hold the same IDs, and no block is registered under ID 0.
TypeOK ==
    /\ now \in Nat
    /\ myID \in [Node -> Nat]
    /\ joined \in [Node -> BOOLEAN]
    /\ DOMAIN chain = Node /\ \A n \in Node : IsChain(chain[n])
    /\ DOMAIN waiting = Node
    /\ \A n \in Node : /\ DOMAIN waiting[n] \subseteq Node
                       /\ waiting[n] \in [DOMAIN waiting[n] -> Proposal]
    /\ peers \in [Node -> SUBSET Node]
    /\ gossipers \in [Node -> SUBSET Node]
    /\ monitored \in [Node -> SUBSET Node]
    /\ matched \in [Node -> Node \cup {NoNode}]
    /\ mining \in [Node -> Job \cup {NoJob}]
    /\ nextTick \in [Node -> Nat]
    /\ crashed \in [Node -> {"no", "nilBlock", "nilMap", "integrity"}]
    /\ \A m \in net : IsPacket(m)
    /\ mined \subseteq History
    /\ faults \in Nat

\* An ID is given out again only after the block it was given out with has
\* expired: no chain a node holds, nor any chain its last block links back to,
\* has two live registrations of one ID.  (nextNodeID, addBlock)
ReissuedOnlyAfterExpiry ==
    \A n \in Node :
        LET h == Tip(chain[n])
        IN  \A j \in DOMAIN h : \A i \in 1 .. j - 1 :
                h[i].id = h[j].id => h[j].ts - h[i].ts > Expiration

\* A node that is merely behind another knows no live registration that the
\* one ahead contradicts; nodes with the same last block have the same map.
\* The map is no part of what a hash covers: it is addBlock's check of the
\* previous hash that keeps it in step with the last block.
BehindMeansAgreed ==
    \A n, k \in Node :
        IsPrefix(Tip(chain[n]), Tip(chain[k])) =>
            \A id \in DOMAIN chain[n].blocks :
                ContainsValidNodeID(chain[n], id, now) =>
                    /\ id \in DOMAIN chain[k].blocks
                    /\ chain[k].blocks[id] = chain[n].blocks[id]

\* The list of IDs follows the time of registration, so the expired blocks of
\* a chain are a prefix of it.  (report.tex:93, addNodeIDToList)
ExpiredBlocksComeFirst ==
    \A n \in Node :
        LET c == chain[n]
        IN  \A j \in DOMAIN c.order : \A i \in 1 .. j - 1 :
                c.blocks[c.order[i]].ts <= c.blocks[c.order[j]].ts

\* A node considers itself joined only on a chain that ends with a live block
\* it mined itself, however late or often the chain was delivered.
\* (handleBlockChain takes any chain it is sent)
JoinsWithOwnLiveBlock ==
    [][\A n \in Node : ~ joined[n] /\ joined'[n] =>
           /\ chain'[n].last # NoBlock
           /\ chain'[n].last.key = n
           /\ IsValid(chain'[n].last, now)]_vars

\* Membership ends with a ticker that knows nothing of blocks, so that it may
\* outlast the block it rests on: but, however late the chain came, a member
\* mined a block of its chain at most two lifetimes ago.
\* (expireJoining, puzzleshandler.go:163)
MembershipLapses ==
    \A n \in Node :
        joined[n] /\ Running(n) =>
            LET h == Tip(chain[n])
            IN  \E i \in DOMAIN h : h[i].key = n /\ now - h[i].ts <= 2 * Expiration

\* The branch each node is at the end of, and the members.
at == [n \in Node |-> Tip(chain[n])]
members == {n \in Node : joined[n]}

Tree == INSTANCE BlockTree WITH Founder <- Genesis, tree <- mined

\* Whatever is lost, repeated or overtaken, the protocol grows one tree of
\* registrations, each mined under the smallest ID its branch had free when the
\* puzzle was made, and nodes only move along branches or join at a live
\* registration of their own.
GrowsTree == Tree!Spec

\* Where nobody's membership ends, every node whose process does not panic
\* joins, whatever else it answers meanwhile, and stays a member.  (That others
\* come to let its packets through is more than the code grants: see
\* NeighboursAreHeard.)
EveryoneJoins == <>[](\A n \in Node : Running(n) => joined[n])

(***************************************************************************)
(* What the safety properties rest on.                                     *)
(***************************************************************************)

\* A block with this ID and timestamp may come after entry e.
MayFollow(e, id, ts) ==
    /\ e.ts <= ts
    /\ e.id = id => ts - e.ts > Expiration

SoundHistory(h) ==
    /\ h # NoHash
    /\ h[Len(h)].ts <= now
    /\ \A j \in DOMAIN h : \A i \in 1 .. j - 1 : MayFollow(h[i], h[j].id, h[j].ts)

SoundPuzzle(pp) ==
    /\ pp.prev \in mined
    /\ pp.ts <= now
    /\ \A i \in DOMAIN pp.prev : MayFollow(pp.prev[i], pp.id, pp.ts)

\* The map of the chain is the one its last block's hash commits to.
SoundChain(c) ==
    /\ c.last \in Block
    /\ Hash(c.last) \in mined
    /\ c.blocks = Registry(Hash(c.last))

\* A proposer has a chain to extend; the puzzle being solved is a sound one.
SoundNode(n) ==
    /\ chain[n] = EmptyChain \/ SoundChain(chain[n])
    /\ DOMAIN waiting[n] # {} => chain[n].last # NoBlock
    /\ mining[n] # NoJob => SoundPuzzle(mining[n].pp)

\* A response carries its sender's block, a chain ends with its receiver's.
SoundPacket(m) ==
    /\ m.type = "PProposal" => SoundPuzzle(m.pp)
    /\ m.type = "PResponse" /\ m.block # NoBlock =>
          Hash(m.block) \in mined /\ m.block.key = m.src
    /\ m.type = "BBroadcast" => Hash(m.block) \in mined
    /\ m.type = "BChain" => SoundChain(m.chain) /\ m.chain.last.key = m.dst

\* The blocks mined form a tree of histories in which IDs and timestamps fit;
\* puzzles, blocks and chains, kept or in flight, come from that tree.
\* (nextNodeID, addBlock, handlePuzzleProposal, handlePuzzleResponse)
LedgerInv ==
    /\ \A h \in mined : SoundHistory(h)
    /\ \A n \in Node : SoundNode(n)
    /\ \A m \in net : SoundPacket(m)

-----------------------------------------------------------------------------
(***************************************************************************)
(* What the report says of the protocol, and the code does not do.         *)
(***************************************************************************)

\* report.tex:93: a peer that joins receives a chain of the blocks that have
\* not expired, and not the others.
SentChainsAreLive ==
    [][\A m \in net' \ net : m.type = "BChain" => CheckIntegrity(m.chain, now)]_vars

\* report.tex:31: a node whose packets are let through has shown a proof of
\* work that has not expired: the ID it presents is registered with its key.
AdmittedOnlyIfRegistered ==
    \A m \in net :
        m.type = "Gossip" /\ Admits(m.dst, m) =>
            chain[m.dst].blocks[m.nodeID].key = m.src

\* README.md:3, report.tex:93: the number of blocks never exceeds the number
\* of peers.
NoMoreBlocksThanPeers ==
    \A n \in Node : Cardinality(DOMAIN chain[n].blocks) <= Cardinality(Node)

\* report.tex:97: a node can connect to the network from any location through
\* any joined peer: in the end every node lets the packets of every node that
\* has it in its -peers flag through.
NeighboursAreHeard ==
    \A n, k \in Node :
        k \in ToSet(PeerList[n]) =>
            <>[](Registered(k, myID[n]) /\ n \in monitored[k])
=============================================================================
