--------------------------- MODULE JoiningProofs ----------------------------
(***************************************************************************)
(* Proofs about Joining, for any number of nodes, any topology, any        *)
(* expiration delay, and any value of the bounds.                          *)
(***************************************************************************)
EXTENDS Joining, BlockChainLemmas

-----------------------------------------------------------------------------
(***************************************************************************)
(* Packets.                                                                *)
(***************************************************************************)

\* What a packet in flight carries, by its type.
LEMMA PacketFields ==
    ASSUME NEW m, IsPacket(m)
    PROVE  /\ m.src \in Node /\ m.dst \in Node
           /\ m.type \in PacketType
           /\ m.type = "Gossip" => m.nodeID \in Nat
           /\ m.type = "PProposal" => m.pp \in Proposal
           /\ m.type = "PResponse" => m.block \in Block \cup {NoBlock}
           /\ m.type = "BBroadcast" => m.block \in Block
           /\ m.type = "BChain" => IsChain(m.chain)
BY DEF IsPacket, PacketType, BChain

\* The packets the handlers build are packets.
LEMMA PacketTypes ==
    ASSUME NEW src \in Node, NEW dst \in Node
    PROVE  /\ \A id \in Nat : IsPacket(Gossip(src, dst, id))
           /\ \A pp \in Proposal : IsPacket(PProposal(src, dst, pp))
           /\ \A b \in Block \cup {NoBlock} : IsPacket(PResponse(src, dst, b))
           /\ \A b \in Block : IsPacket(BBroadcast(src, dst, b))
           /\ \A c : IsChain(c) => IsPacket(BChain(src, dst, c))
BY DEF IsPacket, Gossip, PProposal, PResponse, BBroadcast, BChain

\* Receiving a packet puts nothing but the answers into flight.
LEMMA ExchangeNet ==
    ASSUME NEW m, NEW out, Exchange(m, out), faults \in Nat
    PROVE  net' \subseteq net \cup out /\ faults' \in Nat
BY DEF Exchange

-----------------------------------------------------------------------------
(***************************************************************************)
(* Types.                                                                  *)
(***************************************************************************)

\* The chain of a node that has none yet has the type of a chain.
LEMMA EmptyChainIsChain == IsChain(EmptyChain)
<1>1. DOMAIN <<>> = {} /\ IsFiniteSet({}) /\ <<>> \in Seq(NodeID)
  BY FS_EmptySet
<1>2. ToSet(<<>>) = {}
  BY DEF ToSet
<1> QED BY <1>1, <1>2 DEF EmptyChain, IsChain

\* initGenesis makes a block and a chain that ends with it.
LEMMA GenesisIsChain ==
    ASSUME NEW n \in Node
    PROVE  /\ MakeBlock(1, 0, n, NoHash) \in Block
           /\ IsChain(InitGenesis(1, 0, n))
           /\ InitGenesis(1, 0, n).last = MakeBlock(1, 0, n, NoHash)
<1>1. MakeBlock(1, 0, n, NoHash) \in Block
  BY DEF MakeBlock, Block, NoHash, NodeID, History
<1>2. /\ <<1>> \in Seq(NodeID) /\ ToSet(<<1>>) = {1}
      /\ 1 \in NodeID
  BY DEF NodeID, ToSet
<1>3. IsFiniteSet({1})
  BY FS_Singleton
<1> QED BY <1>1, <1>2, <1>3 DEF InitGenesis, IsChain

\* The initial state has the types.
LEMMA TypeInit == Init => TypeOK
<1> SUFFICES ASSUME Init PROVE TypeOK
  OBVIOUS
<1>1. \A n \in Node : IsChain(chain[n])
  BY EmptyChainIsChain, GenesisIsChain DEF Init
<1>2. mined \subseteq History
  BY GenesisIsChain, HashType, GenesisAssumption DEF Init
<1>3. /\ peers \in [Node -> SUBSET Node]
      /\ gossipers \in [Node -> SUBSET Node]
      /\ monitored \in [Node -> SUBSET Node]
  <2>1. \A n \in Node : ToSet(PeerList[n]) \subseteq Node
    BY PeerListAssumption DEF ToSet
  <2>2. \A n \in Node : PeerList[n] # <<>> => PeerList[n][1] \in Node
    BY PeerListAssumption
  <2> QED BY <2>1, <2>2 DEF Init
<1>4. \A n \in Node : /\ DOMAIN waiting[n] \subseteq Node
                      /\ waiting[n] \in [DOMAIN waiting[n] -> Proposal]
  BY DEF Init
<1>5. nextTick \in [Node -> Nat]
  BY ExpirationAssumption DEF Init
<1> QED
  BY <1>1, <1>2, <1>3, <1>4, <1>5 DEF Init, TypeOK

\* A node that is not registered is sent a puzzle.
LEMMA TypeGossip ==
    ASSUME TypeOK, NEW m \in net, HandleGossipPacket(m)
    PROVE  TypeOK'
<1>1. IsPacket(m) /\ m.src \in Node /\ m.dst \in Node
  BY PacketFields DEF TypeOK
<1>2. gossipers' \in [Node -> SUBSET Node]
  <2>1. CASE Receive(m, "Gossip", {})
    BY <1>1, <2>1 DEF Receive, TypeOK
  <2>2. ASSUME NEW k \in Node, Receive(m, "Gossip", {k}) PROVE gossipers' \in [Node -> SUBSET Node]
    BY <1>1, <2>2 DEF Receive, TypeOK
  <2> QED BY <2>1, <2>2 DEF HandleGossipPacket
<1>3. CASE Ignore(m)
  BY <1>2, <1>3, ExchangeNet DEF HandleGossipPacket, Ignore, ledger, TypeOK
<1>4. CASE CanPropose(m.dst, m.src) /\ SendPuzzleProposal(m)
  <2> DEFINE n == m.dst
             pp == [id   |-> NextNodeID(chain[n], now),
                    ts   |-> now,
                    prev |-> Hash(chain[n].last)]
  <2>1. pp \in Proposal
    <3>1. IsChain(chain[n]) /\ chain[n].last \in Block
      BY <1>1, <1>4 DEF CanPropose, TypeOK, IsChain
    <3>2. pp.id \in NodeID /\ pp.prev \in History
      BY <3>1, NextNodeIDIsFree, HashType
    <3> QED BY <3>2 DEF Proposal, TypeOK
  <2>2. IsPacket(PProposal(n, m.src, pp))
    BY <1>1, <2>1, PacketTypes
  <2> HIDE DEF pp
  <2>3. /\ waiting' = [waiting EXCEPT ![n] =
                         [a \in DOMAIN @ \cup {m.src} |-> IF a = m.src THEN pp ELSE @[a]]]
        /\ Exchange(m, {PProposal(n, m.src, pp)})
        /\ UNCHANGED <<myID, joined, chain, peers, matched, mining, crashed>>
    BY <1>4 DEF SendPuzzleProposal, pp
  <2>4. \A k \in Node : /\ DOMAIN waiting'[k] \subseteq Node
                        /\ waiting'[k] \in [DOMAIN waiting'[k] -> Proposal]
    BY <1>1, <2>1, <2>3 DEF TypeOK
  <2>5. \A p \in net' : IsPacket(p)
    BY <2>2, <2>3, ExchangeNet DEF TypeOK
  <2> QED
    BY <1>2, <2>3, <2>4, <2>5, ExchangeNet DEF HandleGossipPacket, TypeOK
<1> QED
  BY <1>3, <1>4 DEF HandleGossipPacket

\* A node that has not joined starts mining.
LEMMA TypeProposal ==
    ASSUME TypeOK, NEW m \in net, HandlePuzzleProposal(m)
    PROVE  TypeOK'
<1>1. IsPacket(m) /\ m.src \in Node /\ m.dst \in Node /\ m.pp \in Proposal
  BY PacketFields DEF TypeOK, HandlePuzzleProposal, Receive
<1>2. gossipers' \in [Node -> SUBSET Node]
  BY <1>1 DEF HandlePuzzleProposal, Receive, TypeOK
<1>3. CASE Ignore(m)
  BY <1>2, <1>3, ExchangeNet DEF HandlePuzzleProposal, Ignore, ledger, TypeOK
<1>4. CASE /\ mining' = [mining EXCEPT ![m.dst] =
                            [pp |-> m.pp, from |-> m.src, start |-> now]]
           /\ Exchange(m, {})
           /\ UNCHANGED <<ledger, matched, crashed>>
  <2>1. mining' \in [Node -> Job \cup {NoJob}]
    BY <1>1, <1>4 DEF Job, TypeOK
  <2> QED
    BY <1>2, <1>4, <2>1, ExchangeNet DEF HandlePuzzleProposal, ledger, TypeOK
<1> QED
  BY <1>3, <1>4 DEF HandlePuzzleProposal

\* Broadcasting a block.
LEMMA BroadcastTypes ==
    ASSUME peers' \in [Node -> SUBSET Node], NEW n \in Node, NEW b \in Block, NEW from
    PROVE  \A p \in BroadcastBlock(n, b, from) : IsPacket(p)
BY PacketTypes DEF BroadcastBlock

\* The block of an accepted response is added, broadcast, and the chain sent.
LEMMA TypeResponse ==
    ASSUME TypeOK, NEW m \in net, HandlePuzzleResponse(m)
    PROVE  TypeOK'
<1>1. IsPacket(m) /\ m.src \in Node /\ m.dst \in Node /\ m.block \in Block \cup {NoBlock}
  BY PacketFields DEF TypeOK, HandlePuzzleResponse, Receive
<1>2. gossipers' \in [Node -> SUBSET Node]
  BY <1>1 DEF HandlePuzzleResponse, Receive, TypeOK
<1>3. CASE Ignore(m)
  BY <1>2, <1>3, ExchangeNet DEF HandlePuzzleResponse, Ignore, ledger, TypeOK
<1>4. CASE Panic(m, "nilBlock")
  BY <1>1, <1>2, <1>4, ExchangeNet DEF HandlePuzzleResponse, Panic, ledger, TypeOK
<1>5. CASE m.block # NoBlock /\ AcceptResponse(m)
  <2> DEFINE n == m.dst
  <2>1. m.block \in Block
    BY <1>1, <1>5
  <2>2. \A k \in Node : IsChain(chain'[k])
    BY <1>1, <1>5, <2>1, AddBlockIsChain DEF AcceptResponse, TypeOK
  <2>3. /\ DOMAIN chain' = Node
        /\ DOMAIN waiting' = Node
        /\ \A k \in Node : /\ DOMAIN waiting'[k] \subseteq Node
                           /\ waiting'[k] \in [DOMAIN waiting'[k] -> Proposal]
        /\ peers' \in [Node -> SUBSET Node]
        /\ matched' \in [Node -> Node \cup {NoNode}]
    BY <1>1, <1>5 DEF AcceptResponse, TypeOK
  <2>4. \A p \in net' : IsPacket(p)
    <3>1. net' \subseteq net \cup BroadcastBlock(n, m.block, m.src)
                             \cup {BChain(n, m.src, chain'[n])}
      BY <1>5, ExchangeNet DEF AcceptResponse, TypeOK
    <3>2. IsPacket(BChain(n, m.src, chain'[n]))
      BY <1>1, <2>2, PacketTypes
    <3>3. \A p \in BroadcastBlock(n, m.block, m.src) : IsPacket(p)
      BY <1>1, <2>1, <2>3, BroadcastTypes
    <3> QED BY <3>1, <3>2, <3>3 DEF TypeOK
  <2>5. faults' \in Nat
    BY <1>5, ExchangeNet DEF AcceptResponse, TypeOK
  <2> QED
    BY <1>2, <1>5, <2>2, <2>3, <2>4, <2>5
    DEF HandlePuzzleResponse, AcceptResponse, TypeOK
<1> QED
  BY <1>3, <1>4, <1>5 DEF HandlePuzzleResponse

\* A block that extends the chain is added and passed on.
LEMMA TypeBroadcast ==
    ASSUME TypeOK, NEW m \in net, HandleBlockBroadcast(m)
    PROVE  TypeOK'
<1>1. IsPacket(m) /\ m.src \in Node /\ m.dst \in Node /\ m.block \in Block
  BY PacketFields DEF TypeOK, HandleBlockBroadcast, Receive
<1>2. gossipers' \in [Node -> SUBSET Node]
  BY <1>1 DEF HandleBlockBroadcast, Receive, TypeOK
<1>3. CASE Ignore(m)
  BY <1>2, <1>3, ExchangeNet DEF HandleBlockBroadcast, Ignore, ledger, TypeOK
<1>4. CASE Panic(m, "nilMap")
  BY <1>1, <1>2, <1>4, ExchangeNet DEF HandleBlockBroadcast, Panic, ledger, TypeOK
<1>5. CASE /\ chain' = [chain EXCEPT ![m.dst] = AddBlock(@, m.block)]
           /\ UNCHANGED <<myID, joined, waiting, peers, matched, mining, crashed>>
           /\ Exchange(m, BroadcastBlock(m.dst, m.block, m.src))
  <2>1. DOMAIN chain' = Node /\ \A k \in Node : IsChain(chain'[k])
    BY <1>1, <1>5, AddBlockIsChain DEF TypeOK
  <2>2. \A p \in net' : IsPacket(p)
    BY <1>1, <1>5, BroadcastTypes, ExchangeNet DEF TypeOK
  <2> QED
    BY <1>2, <1>5, <2>1, <2>2, ExchangeNet DEF HandleBlockBroadcast, TypeOK
<1> QED
  BY <1>3, <1>4, <1>5 DEF HandleBlockBroadcast

\* A node that has not joined takes the chain it is sent.
LEMMA TypeBlockChain ==
    ASSUME TypeOK, NEW m \in net, HandleBlockChain(m)
    PROVE  TypeOK'
<1>1. IsPacket(m) /\ m.src \in Node /\ m.dst \in Node /\ IsChain(m.chain)
  BY PacketFields DEF TypeOK, HandleBlockChain, Receive
<1>2. gossipers' \in [Node -> SUBSET Node]
  BY <1>1 DEF HandleBlockChain, Receive, TypeOK
<1>3. CASE Ignore(m)
  BY <1>2, <1>3, ExchangeNet DEF HandleBlockChain, Ignore, ledger, TypeOK
<1>4. CASE Panic(m, "integrity")
  BY <1>1, <1>2, <1>4, ExchangeNet DEF HandleBlockChain, Panic, ledger, TypeOK
<1>5. CASE /\ chain' = [chain EXCEPT ![m.dst] = m.chain]
           /\ joined' = [joined EXCEPT ![m.dst] = TRUE]
           /\ Exchange(m, {})
           /\ UNCHANGED <<myID, waiting, peers, matched, mining, crashed>>
  BY <1>1, <1>2, <1>5, ExchangeNet DEF HandleBlockChain, TypeOK
<1> QED
  BY <1>3, <1>4, <1>5 DEF HandleBlockChain

\* The end of mining.
LEMMA TypeRespond ==
    ASSUME TypeOK, NEW n \in Node, mining[n] # NoJob,
           NEW b \in Block \cup {NoBlock}, Respond(n, b), mined' \subseteq History
    PROVE  TypeOK'
<1>1. mining[n] \in Job
  BY DEF TypeOK
<1>2. mining[n].pp.id \in Nat /\ mining[n].from \in Node
  BY <1>1 DEF Job, Proposal, NodeID
<1>3. \A p \in net' : IsPacket(p)
  BY <1>2, PacketTypes DEF Respond, TypeOK
<1> QED
  BY <1>2, <1>3 DEF Respond, monitor, TypeOK

\* Every step keeps the types.
LEMMA TypeNext == TypeOK /\ [Next]_vars => TypeOK'
<1> SUFFICES ASSUME TypeOK, [Next]_vars PROVE TypeOK'
  OBVIOUS
<1>1. ASSUME NEW m \in net, Handle(m) PROVE TypeOK'
  BY <1>1, TypeGossip, TypeProposal, TypeResponse, TypeBroadcast, TypeBlockChain DEF Handle
<1>2. ASSUME NEW m \in net, Lose(m) PROVE TypeOK'
  BY <1>2 DEF Lose, ledger, monitor, TypeOK
<1>3. ASSUME NEW n \in Node, FinishMining(n) PROVE TypeOK'
  <2> DEFINE b == MakeBlock(mining[n].pp.id, mining[n].pp.ts, n, mining[n].pp.prev)
  <2>1. mining[n] \in Job
    BY <1>3 DEF FinishMining, TypeOK
  <2>2. b \in Block
    BY <2>1 DEF Job, Proposal, MakeBlock, Block
  <2> HIDE DEF b
  <2>3. Respond(n, b) /\ mined' = mined \cup {Hash(b)} /\ mining[n] # NoJob
    BY <1>3 DEF FinishMining, b
  <2>4. mined' \subseteq History
    BY <2>2, <2>3, HashType DEF TypeOK
  <2> QED BY <2>2, <2>3, <2>4, TypeRespond
<1>4. ASSUME NEW n \in Node, GiveUpMining(n) PROVE TypeOK'
  BY <1>4, TypeRespond DEF GiveUpMining, TypeOK
<1>5. ASSUME NEW n \in Node, UpdateMapWithMatches(n) PROVE TypeOK'
  BY <1>5 DEF UpdateMapWithMatches, ledger, TypeOK
<1>6. ASSUME NEW n \in Node, ExpireJoining(n) PROVE TypeOK'
  BY <1>6, ExpirationAssumption DEF ExpireJoining, monitor, TypeOK
<1>7. ASSUME NEW n \in Node, NEW to \in gossipers[n], SendGossip(n, to) PROVE TypeOK'
  <2>1. to \in Node /\ myID[n] \in Nat
    BY <1>7 DEF TypeOK
  <2>2. \A p \in net' : IsPacket(p)
    BY <1>7, <2>1, PacketTypes DEF SendGossip, TypeOK
  <2> QED BY <1>7, <2>2 DEF SendGossip, ledger, monitor, TypeOK
<1>8. CASE Tick
  BY <1>8 DEF Tick, ledger, monitor, TypeOK
<1>9. CASE UNCHANGED vars
  BY <1>9 DEF vars, ledger, monitor, TypeOK
<1> QED
  BY <1>1, <1>2, <1>3, <1>4, <1>5, <1>6, <1>7, <1>8, <1>9 DEF Next

\* Every variable keeps its type; the map and the list of a chain always hold
\* the same IDs.  (addBlock, addNodeIDToList, nextNodeID)
THEOREM TypeCorrect == Spec => []TypeOK
BY TypeInit, TypeNext, PTL DEF Spec

-----------------------------------------------------------------------------
(***************************************************************************)
(* The ledger.                                                             *)
(***************************************************************************)

\* A history that is not empty has a last entry.
LEMMA LastEntry ==
    ASSUME NEW h \in History, h # NoHash
    PROVE  Len(h) \in DOMAIN h /\ DOMAIN h = 1 .. Len(h) /\ Len(h) \in Nat
BY DEF History, NoHash

\* What is sound stays sound as time passes and blocks are mined.
LEMMA Monotone ==
    ASSUME TypeOK, TypeOK', mined \subseteq mined', now <= now'
    PROVE  /\ \A h \in mined : SoundHistory(h) => SoundHistory(h)'
           /\ \A pp \in Proposal : SoundPuzzle(pp) => SoundPuzzle(pp)'
           /\ \A c : SoundChain(c) => SoundChain(c)'
           /\ \A m : IsPacket(m) /\ SoundPacket(m) => SoundPacket(m)'
<1>1. now \in Nat /\ now' \in Nat /\ mined \subseteq History
  BY DEF TypeOK
<1>2. ASSUME NEW h \in mined, SoundHistory(h) PROVE SoundHistory(h)'
  <2>1. h \in History /\ h # NoHash /\ h[Len(h)].ts \in Nat
    <3>1. h \in History /\ h # NoHash
      BY <1>1, <1>2 DEF SoundHistory
    <3>2. Len(h) \in DOMAIN h
      BY <3>1, LastEntry
    <3>3. h[Len(h)] \in Entry
      BY <3>1, <3>2 DEF History
    <3> QED BY <3>1, <3>3 DEF Entry
  <2> QED BY <1>1, <1>2, <2>1 DEF SoundHistory
<1>3. ASSUME NEW pp \in Proposal, SoundPuzzle(pp) PROVE SoundPuzzle(pp)'
  BY <1>1, <1>3 DEF SoundPuzzle, Proposal
<1>4. ASSUME NEW c, SoundChain(c) PROVE SoundChain(c)'
  BY <1>4 DEF SoundChain
<1>5. ASSUME NEW m, IsPacket(m), SoundPacket(m) PROVE SoundPacket(m)'
  <2>1. m.type = "PProposal" => m.pp \in Proposal
    BY <1>5, PacketFields
  <2> QED BY <1>3, <1>4, <1>5, <2>1 DEF SoundPacket
<1> QED
  BY <1>2, <1>3, <1>4, <1>5

\* A node whose chain, puzzles and job do not change stays sound.
LEMMA NodeUnchanged ==
    ASSUME TypeOK, TypeOK', mined \subseteq mined', now <= now',
           NEW k \in Node, SoundNode(k),
           chain'[k] = chain[k], waiting'[k] = waiting[k], mining'[k] = mining[k]
    PROVE  SoundNode(k)'
<1>1. mining[k] # NoJob => mining[k].pp \in Proposal
  BY DEF TypeOK, Job
<1> QED
  BY <1>1, Monotone DEF SoundNode

\* A free ID and the current time may follow every entry of the chain.
LEMMA FreeIDMayFollow ==
    ASSUME TypeOK, NEW c, IsChain(c), SoundChain(c), SoundHistory(Hash(c.last))
    PROVE  \A i \in DOMAIN Hash(c.last) :
               MayFollow(Hash(c.last)[i], NextNodeID(c, now), now)
<1> DEFINE h == Hash(c.last)
           id == NextNodeID(c, now)
<1> SUFFICES ASSUME NEW i \in DOMAIN h PROVE MayFollow(h[i], id, now)
  OBVIOUS
<1>1. /\ h \in History /\ now \in Nat
      /\ DOMAIN h = 1 .. Len(h) /\ Len(h) \in DOMAIN h /\ Len(h) \in Nat
      /\ \A k \in DOMAIN h : h[k] \in Entry
  BY HashType, LastEntry DEF SoundChain, TypeOK, History
<1>2. \A j, k \in DOMAIN h : j <= k => h[j].ts <= h[k].ts
  <2> SUFFICES ASSUME NEW j \in DOMAIN h, NEW k \in DOMAIN h, j < k
               PROVE  h[j].ts <= h[k].ts
    BY <1>1 DEF Entry
  <2> QED BY <1>1 DEF SoundHistory, MayFollow
<1>3. h[i].ts <= now
  <2>1. h[i].ts <= h[Len(h)].ts /\ h[Len(h)].ts <= now
    BY <1>1, <1>2 DEF SoundHistory
  <2> QED BY <1>1, <2>1 DEF Entry
<1>4. ASSUME h[i].id = id PROVE now - h[i].ts > Expiration
  <2> DEFINE k == LatestEntry(h, id)
  <2>1. k \in DOMAIN h /\ i <= k
    BY <1>1, <1>4, LatestEntryIsLatest
  <2>2. id \in DOMAIN c.blocks /\ c.blocks[id] = BlockAt(h, k)
    BY <1>4 DEF SoundChain, Registry
  <2>3. ~ IsValid(c.blocks[id], now)
    BY <2>2, NextNodeIDIsFree DEF ContainsValidNodeID
  <2>4. now - h[k].ts > Expiration
    BY <2>2, <2>3 DEF IsValid, Expired, BlockAt, MakeBlock
  <2>5. h[i].ts <= h[k].ts
    BY <1>2, <2>1
  <2> HIDE DEF h, k
  <2>6. h[i].ts \in Nat /\ h[k].ts \in Nat
    BY <1>1, <2>1 DEF Entry, h
  <2> QED BY <1>1, <2>4, <2>5, <2>6, ExpirationAssumption
<1> QED
  BY <1>3, <1>4 DEF MayFollow

\* The block that answers a sound puzzle has a sound history.
LEMMA MinedBlockIsSound ==
    ASSUME TypeOK, NEW pp \in Proposal, SoundPuzzle(pp), SoundHistory(pp.prev),
           NEW n \in Node, NEW b, b = MakeBlock(pp.id, pp.ts, n, pp.prev)
    PROVE  b \in Block /\ SoundHistory(Hash(b))
<1> DEFINE h == Hash(b)
           p == pp.prev
<1>1. b \in Block /\ b.prev = p /\ p \in History
  BY DEF MakeBlock, Block, Proposal
<1>2. /\ h \in History /\ h # NoHash /\ Len(h) = Len(p) + 1
      /\ \A i \in 1 .. Len(p) : h[i] = p[i]
      /\ h[Len(h)] = EntryOf(b)
  BY <1>1, HashType
<1>3. h[Len(h)].id = pp.id /\ h[Len(h)].ts = pp.ts
  BY <1>2 DEF EntryOf, MakeBlock
<1>4. DOMAIN h = 1 .. Len(h) /\ DOMAIN p = 1 .. Len(p) /\ Len(p) \in Nat
  BY <1>1, <1>2 DEF History
<1>5. \A i \in 1 .. Len(p) : MayFollow(p[i], pp.id, pp.ts)
  BY <1>4 DEF SoundPuzzle
<1> HIDE DEF h, p
<1>6. ASSUME NEW j \in DOMAIN h, NEW i \in 1 .. j - 1
      PROVE  MayFollow(h[i], h[j].id, h[j].ts)
  <2>1. CASE j = Len(h)
    <3>1. i \in 1 .. Len(p) /\ h[i] = p[i]
      BY <1>2, <1>4, <2>1
    <3> QED BY <1>3, <1>5, <2>1, <3>1
  <2>2. CASE j # Len(h)
    <3>1. j \in DOMAIN p /\ h[j] = p[j] /\ h[i] = p[i]
      BY <1>2, <1>4, <2>2
    <3> QED BY <3>1 DEF SoundHistory, p
  <2> QED BY <2>1, <2>2
<1>7. h[Len(h)].ts <= now
  BY <1>3 DEF SoundPuzzle
<1> QED
  BY <1>1, <1>2, <1>6, <1>7 DEF SoundHistory, h

\* Adding a mined block that links to the last one keeps a chain sound.
LEMMA AddBlockIsSound ==
    ASSUME NEW c, IsChain(c), SoundChain(c), NEW b \in Block,
           Hash(b) \in mined, b.prev = Hash(c.last)
    PROVE  SoundChain(AddBlock(c, b))
<1> DEFINE f == AddBlock(c, b).blocks
           g == Registry(Hash(b))
<1>1. /\ f = [i \in DOMAIN c.blocks \cup {b.id} |-> IF i = b.id THEN b ELSE c.blocks[i]]
      /\ AddBlock(c, b).last = b
  BY DEF AddBlock
<1>2. c.blocks = Registry(b.prev)
  BY DEF SoundChain
<1>3. /\ DOMAIN g = DOMAIN c.blocks \cup {b.id}
      /\ g[b.id] = b
      /\ \A id \in DOMAIN c.blocks : id # b.id => g[id] = c.blocks[id]
  BY <1>2, RegistryOfHash
<1>4. g = [i \in DOMAIN g |-> g[i]]
  BY DEF Registry
<1> HIDE DEF g
<1>5. f = g
  BY <1>1, <1>3, <1>4
<1> QED
  BY <1>1, <1>5 DEF SoundChain, g

\* The invariant holds when only the genesis block has been mined.
LEMMA LedgerInit == Init => LedgerInv
<1> SUFFICES ASSUME Init PROVE LedgerInv
  OBVIOUS
<1>1. ASSUME NEW n \in Genesis
      PROVE  /\ SoundHistory(Hash(MakeBlock(1, 0, n, NoHash)))
             /\ SoundChain(InitGenesis(1, 0, n))
  <2> DEFINE b == MakeBlock(1, 0, n, NoHash)
             h == Hash(b)
  <2>1. b \in Block /\ h \in mined /\ InitGenesis(1, 0, n).last = b
    BY GenesisIsChain, GenesisAssumption DEF Init
  <2>2. b.prev = <<>> /\ b.id = 1 /\ b.ts = 0 /\ Len(<<>>) = 0 /\ DOMAIN <<>> = {}
    BY DEF MakeBlock, NoHash
  <2>3. h \in History /\ h # NoHash /\ Len(h) = 1 /\ h[1] = EntryOf(b) /\ DOMAIN h = 1 .. 1
    <3>1. h \in History /\ Len(h) = Len(b.prev) + 1 /\ h # NoHash /\ h[Len(b.prev) + 1] = EntryOf(b)
      BY <2>1, HashType
    <3>2. Len(b.prev) = 0
      BY <2>2
    <3> HIDE DEF h, b
    <3> QED BY <3>1, <3>2, LastEntry
  <2>4. SoundHistory(h)
    BY <2>2, <2>3 DEF SoundHistory, EntryOf, Init
  <2>5. InitGenesis(1, 0, n).blocks = Registry(h)
    <3>1. DOMAIN Registry(<<>>) = {}
      BY <2>2 DEF Registry
    <3>2. DOMAIN Registry(h) = {1} /\ Registry(h)[1] = b
      BY <2>1, <2>2, <3>1, RegistryOfHash
    <3>3. Registry(h) = [i \in DOMAIN Registry(h) |-> Registry(h)[i]]
      BY DEF Registry
    <3>4. InitGenesis(1, 0, n).blocks = [i \in {1} |-> b]
      BY DEF InitGenesis
    <3> HIDE DEF h, b
    <3> QED BY <3>2, <3>3, <3>4
  <2> QED BY <2>1, <2>4, <2>5 DEF SoundChain
<1>2. \A n \in Node : SoundNode(n)
  BY <1>1 DEF Init, SoundNode
<1> QED
  BY <1>1, <1>2 DEF Init, LedgerInv

\* A step that mines nothing and changes no chain, puzzle or job.
LEMMA LedgerKept ==
    ASSUME TypeOK, TypeOK', LedgerInv, mined' = mined, now <= now',
           UNCHANGED <<chain, waiting, mining>>,
           \A m \in net' : m \in net \/ SoundPacket(m)'
    PROVE  LedgerInv'
<1>1. \A h \in mined' : SoundHistory(h)'
  BY Monotone DEF LedgerInv
<1>2. \A n \in Node : SoundNode(n)'
  BY NodeUnchanged DEF LedgerInv
<1>3. \A m \in net' : SoundPacket(m)'
  BY Monotone DEF LedgerInv, TypeOK
<1> QED
  BY <1>1, <1>2, <1>3 DEF LedgerInv

\* A packet that is ignored, or that the process panics on, adds nothing.
LEMMA LedgerIgnore ==
    ASSUME TypeOK, TypeOK', LedgerInv, NEW m \in net, NEW why,
           Ignore(m) \/ Panic(m, why), UNCHANGED <<now, mined>>
    PROVE  LedgerInv'
<1>1. net' \subseteq net
  BY ExchangeNet DEF Ignore, Panic, TypeOK
<1>2. now <= now'
  BY DEF TypeOK
<1>3. UNCHANGED <<chain, waiting, mining>>
  BY DEF Ignore, Panic, ledger
<1> QED
  BY <1>1, <1>2, <1>3, LedgerKept

\* A step that mines nothing and changes one node and the packets in flight.
LEMMA LedgerStep ==
    ASSUME TypeOK, TypeOK', LedgerInv, mined' = mined, now' = now, NEW n \in Node,
           \A k \in Node \ {n} : /\ chain'[k] = chain[k]
                                 /\ waiting'[k] = waiting[k]
                                 /\ mining'[k] = mining[k],
           SoundNode(n)',
           \A m \in net' : m \in net \/ SoundPacket(m)'
    PROVE  LedgerInv'
<1>1. now <= now' /\ mined \subseteq mined'
  BY DEF TypeOK
<1>2. \A h \in mined' : SoundHistory(h)'
  BY <1>1, Monotone DEF LedgerInv
<1>3. \A k \in Node : SoundNode(k)'
  BY <1>1, NodeUnchanged DEF LedgerInv
<1>4. \A m \in net' : SoundPacket(m)'
  BY <1>1, Monotone DEF LedgerInv, TypeOK
<1> QED
  BY <1>2, <1>3, <1>4 DEF LedgerInv

\* A gossip packet keeps the invariant: the puzzle it is answered with is sound.
LEMMA LedgerGossip ==
    ASSUME TypeOK, TypeOK', LedgerInv, NEW m \in net, HandleGossipPacket(m)
    PROVE  LedgerInv'
<1>1. UNCHANGED <<now, mined>>
  BY DEF HandleGossipPacket
<1>2. CASE Ignore(m)
  BY <1>1, <1>2, LedgerIgnore
<1>3. CASE CanPropose(m.dst, m.src) /\ SendPuzzleProposal(m)
  <2> DEFINE n == m.dst
  <2>1. PICK pp : pp = [id   |-> NextNodeID(chain[n], now),
                        ts   |-> now,
                        prev |-> Hash(chain[n].last)]
    OBVIOUS
  <2>2. n \in Node /\ m.src \in Node
    BY PacketFields DEF TypeOK
  <2>3. chain[n].last # NoBlock /\ SoundChain(chain[n]) /\ IsChain(chain[n])
    BY <1>3, <2>2 DEF CanPropose, LedgerInv, SoundNode, EmptyChain, TypeOK
  <2>4. SoundPuzzle(pp)
    <3>1. Hash(chain[n].last) \in mined /\ SoundHistory(Hash(chain[n].last))
      BY <2>3 DEF SoundChain, LedgerInv
    <3>2. now <= now
      BY DEF TypeOK
    <3> QED BY <2>1, <2>3, <3>1, <3>2, FreeIDMayFollow DEF SoundPuzzle
  <2>5. SoundPuzzle(pp)'
    BY <1>1, <2>4 DEF SoundPuzzle
  <2>6. /\ waiting' = [waiting EXCEPT ![n] =
                         [a \in DOMAIN @ \cup {m.src} |-> IF a = m.src THEN pp ELSE @[a]]]
        /\ net' \subseteq net \cup {PProposal(n, m.src, pp)}
        /\ UNCHANGED <<chain, mining>>
    BY <1>3, <2>1, ExchangeNet DEF SendPuzzleProposal, TypeOK
  <2>7. ASSUME NEW p, p = PProposal(n, m.src, pp) PROVE SoundPacket(p)'
    BY <2>5, <2>7 DEF SoundPacket, PProposal
  <2>8. SoundNode(n)'
    <3>1. SoundChain(chain[n])' /\ chain'[n].last # NoBlock
      BY <1>1, <2>3, <2>6 DEF SoundChain
    <3>2. mining'[n] # NoJob => SoundPuzzle(mining[n].pp)'
      BY <1>1, <2>2, <2>6 DEF LedgerInv, SoundNode, SoundPuzzle
    <3> QED BY <2>6, <3>1, <3>2 DEF SoundNode
  <2>9. \A k \in Node \ {n} : waiting'[k] = waiting[k]
    BY <2>6 DEF TypeOK
  <2>10. \A p \in net' : p \in net \/ SoundPacket(p)'
    BY <2>6, <2>7
  <2> QED
    BY <1>1, <2>2, <2>6, <2>8, <2>9, <2>10, LedgerStep
<1> QED
  BY <1>2, <1>3 DEF HandleGossipPacket

\* So does a puzzle that a joiner is proposed.
LEMMA LedgerProposal ==
    ASSUME TypeOK, TypeOK', LedgerInv, NEW m \in net, HandlePuzzleProposal(m)
    PROVE  LedgerInv'
<1>1. UNCHANGED <<now, mined>>
  BY DEF HandlePuzzleProposal
<1>2. CASE Ignore(m)
  BY <1>1, <1>2, LedgerIgnore
<1>3. CASE /\ mining' = [mining EXCEPT ![m.dst] =
                            [pp |-> m.pp, from |-> m.src, start |-> now]]
           /\ Exchange(m, {})
           /\ UNCHANGED <<ledger, matched, crashed>>
  <2> DEFINE n == m.dst
  <2>1. n \in Node /\ m.type = "PProposal"
    BY PacketFields DEF TypeOK, HandlePuzzleProposal, Receive
  <2>2. SoundPuzzle(m.pp)'
    BY <1>1, <2>1 DEF LedgerInv, SoundPacket, SoundPuzzle
  <2>3. net' \subseteq net /\ UNCHANGED <<chain, waiting>>
    BY <1>3, ExchangeNet DEF TypeOK, ledger
  <2>4. mining'[n].pp = m.pp /\ \A k \in Node \ {n} : mining'[k] = mining[k]
    BY <1>3, <2>1 DEF TypeOK
  <2>5. SoundNode(n)'
    <3>1. chain'[n] = EmptyChain \/ SoundChain(chain[n])'
      BY <1>1, <2>1, <2>3 DEF LedgerInv, SoundNode, SoundChain
    <3> QED BY <2>1, <2>2, <2>3, <2>4, <3>1 DEF LedgerInv, SoundNode
  <2> QED
    BY <1>1, <2>1, <2>3, <2>4, <2>5, LedgerStep
<1> QED
  BY <1>2, <1>3 DEF HandlePuzzleProposal

\* A block in flight that a chain accepts leaves its node sound.
LEMMA AddedIsSound ==
    ASSUME TypeOK, TypeOK', LedgerInv, UNCHANGED <<now, mined>>, NEW n \in Node,
           NEW b \in Block, Hash(b) \in mined,
           CanAdd(chain[n], b, now), chain[n].last # NoBlock,
           chain' = [chain EXCEPT ![n] = AddBlock(@, b)],
           mining' = mining
    PROVE  /\ SoundChain(chain[n])' /\ chain'[n].last = b
           /\ SoundNode(n)'
<1>1. SoundChain(chain[n]) /\ IsChain(chain[n])
  BY DEF LedgerInv, SoundNode, EmptyChain, TypeOK
<1>2. b.prev = Hash(chain[n].last)
  BY DEF CanAdd
<1>3. SoundChain(AddBlock(chain[n], b))
  BY <1>1, <1>2, AddBlockIsSound
<1>4. chain'[n] = AddBlock(chain[n], b)
  BY DEF TypeOK
<1>5. SoundChain(chain[n])'
  BY <1>3, <1>4 DEF SoundChain
<1>6. chain'[n].last = b /\ b # NoBlock
  BY <1>1, <1>4, AddBlockIsChain, NoBlockAssumption
<1>7. mining'[n] # NoJob => SoundPuzzle(mining[n].pp)'
  BY DEF LedgerInv, SoundNode, SoundPuzzle
<1> QED
  BY <1>5, <1>6, <1>7 DEF SoundNode

\* So does a response, whether the block fits or not.
LEMMA LedgerResponse ==
    ASSUME TypeOK, TypeOK', LedgerInv, NEW m \in net, HandlePuzzleResponse(m)
    PROVE  LedgerInv'
<1>1. UNCHANGED <<now, mined>>
  BY DEF HandlePuzzleResponse
<1>2. CASE Ignore(m) \/ Panic(m, "nilBlock")
  BY <1>1, <1>2, LedgerIgnore
<1>3. CASE /\ m.src \in DOMAIN waiting[m.dst]
           /\ m.block # NoBlock
           /\ CanAdd(chain[m.dst], m.block, now)
           /\ AcceptResponse(m)
  <2> DEFINE n == m.dst
  <2>1. /\ n \in Node /\ m.src \in Node /\ m.type = "PResponse" /\ m.block \in Block
        /\ Hash(m.block) \in mined /\ m.block.key = m.src
    <3>1. m.type = "PResponse"
      BY DEF HandlePuzzleResponse, Receive
    <3> QED BY <1>3, <3>1, PacketFields DEF TypeOK, LedgerInv, SoundPacket
  <2>2. chain[n].last # NoBlock
    BY <1>3, <2>1 DEF LedgerInv, SoundNode
  <2>3. /\ chain' = [chain EXCEPT ![n] = AddBlock(@, m.block)]
        /\ waiting' = [waiting EXCEPT ![n] = [a \in DOMAIN @ \ {m.src} |-> @[a]]]
        /\ net' \subseteq net \cup BroadcastBlock(n, m.block, m.src)
                              \cup {BChain(n, m.src, chain'[n])}
        /\ mining' = mining
    BY <1>3, ExchangeNet DEF AcceptResponse, TypeOK
  <2>4. SoundChain(chain[n])' /\ chain'[n].last = m.block /\ SoundNode(n)'
    BY <1>1, <1>3, <2>1, <2>2, <2>3, AddedIsSound
  <2>5. ASSUME NEW p, p = BChain(n, m.src, chain'[n]) PROVE SoundPacket(p)'
    BY <2>1, <2>4, <2>5 DEF SoundPacket, BChain, SoundChain
  <2>6. \A p \in BroadcastBlock(n, m.block, m.src) : SoundPacket(p)'
    BY <1>1, <2>1 DEF BroadcastBlock, BBroadcast, SoundPacket
  <2>7. \A k \in Node \ {n} : chain'[k] = chain[k] /\ waiting'[k] = waiting[k]
    BY <2>3 DEF TypeOK
  <2>8. \A p \in net' : p \in net \/ SoundPacket(p)'
    BY <2>3, <2>5, <2>6
  <2> QED
    BY <1>1, <2>1, <2>3, <2>4, <2>7, <2>8, LedgerStep
<1> QED
  BY <1>2, <1>3 DEF HandlePuzzleResponse

\* So does a block that is broadcast.
LEMMA LedgerBroadcast ==
    ASSUME TypeOK, TypeOK', LedgerInv, NEW m \in net, HandleBlockBroadcast(m)
    PROVE  LedgerInv'
<1>1. UNCHANGED <<now, mined>>
  BY DEF HandleBlockBroadcast
<1>2. CASE Ignore(m) \/ Panic(m, "nilMap")
  BY <1>1, <1>2, LedgerIgnore
<1>3. CASE /\ CanAdd(chain[m.dst], m.block, now)
           /\ chain[m.dst].last # NoBlock
           /\ chain' = [chain EXCEPT ![m.dst] = AddBlock(@, m.block)]
           /\ UNCHANGED <<myID, joined, waiting, peers, matched, mining, crashed>>
           /\ Exchange(m, BroadcastBlock(m.dst, m.block, m.src))
  <2> DEFINE n == m.dst
  <2>1. n \in Node /\ m.block \in Block /\ Hash(m.block) \in mined
    <3>1. m.type = "BBroadcast"
      BY DEF HandleBlockBroadcast, Receive
    <3> QED BY <3>1, PacketFields DEF TypeOK, LedgerInv, SoundPacket
  <2>2. SoundNode(n)'
    BY <1>1, <1>3, <2>1, AddedIsSound
  <2>3. net' \subseteq net \cup BroadcastBlock(n, m.block, m.src)
    BY <1>3, ExchangeNet DEF TypeOK
  <2>4. \A p \in BroadcastBlock(n, m.block, m.src) : SoundPacket(p)'
    BY <1>1, <2>1 DEF BroadcastBlock, BBroadcast, SoundPacket
  <2>5. \A k \in Node \ {n} : chain'[k] = chain[k]
    BY <1>3 DEF TypeOK
  <2> QED
    BY <1>1, <1>3, <2>1, <2>2, <2>3, <2>4, <2>5, LedgerStep
<1> QED
  BY <1>2, <1>3 DEF HandleBlockBroadcast

\* So does the chain a joiner is sent.
LEMMA LedgerBlockChain ==
    ASSUME TypeOK, TypeOK', LedgerInv, NEW m \in net, HandleBlockChain(m)
    PROVE  LedgerInv'
<1>1. UNCHANGED <<now, mined>>
  BY DEF HandleBlockChain
<1>2. CASE Ignore(m) \/ Panic(m, "integrity")
  BY <1>1, <1>2, LedgerIgnore
<1>3. CASE /\ chain' = [chain EXCEPT ![m.dst] = m.chain]
           /\ Exchange(m, {})
           /\ UNCHANGED <<myID, waiting, peers, matched, mining, crashed>>
  <2> DEFINE n == m.dst
  <2>1. n \in Node /\ SoundChain(m.chain)
    <3>1. m.type = "BChain"
      BY DEF HandleBlockChain, Receive
    <3> QED BY <3>1, PacketFields DEF TypeOK, LedgerInv, SoundPacket
  <2>2. chain'[n] = m.chain /\ \A k \in Node \ {n} : chain'[k] = chain[k]
    BY <1>3, <2>1 DEF TypeOK
  <2>3. SoundChain(chain[n])' /\ chain'[n].last # NoBlock
    BY <1>1, <2>1, <2>2, NoBlockAssumption DEF SoundChain
  <2>4. mining'[n] # NoJob => SoundPuzzle(mining[n].pp)'
    BY <1>1, <1>3, <2>1 DEF LedgerInv, SoundNode, SoundPuzzle
  <2>5. SoundNode(n)'
    BY <2>3, <2>4 DEF SoundNode
  <2>6. net' \subseteq net
    BY <1>3, ExchangeNet DEF TypeOK
  <2> QED
    BY <1>1, <1>3, <2>1, <2>2, <2>5, <2>6, LedgerStep
<1> QED
  BY <1>2, <1>3 DEF HandleBlockChain

\* Mining ends with a block that answers the puzzle, or with none.
LEMMA LedgerFinishMining ==
    ASSUME TypeOK, TypeOK', LedgerInv, NEW n \in Node, FinishMining(n)
    PROVE  LedgerInv'
<1> DEFINE pp == mining[n].pp
<1>1. PICK b : b = MakeBlock(pp.id, pp.ts, n, pp.prev)
  OBVIOUS
<1>2. /\ mined' = mined \cup {Hash(b)} /\ now' = now
      /\ mining' = [mining EXCEPT ![n] = NoJob]
      /\ net' = net \cup {PResponse(n, mining[n].from, b)}
      /\ UNCHANGED <<chain, waiting>>
  BY <1>1 DEF FinishMining, Respond
<1>3. pp \in Proposal /\ SoundPuzzle(pp) /\ SoundHistory(pp.prev)
  BY DEF FinishMining, TypeOK, Job, LedgerInv, SoundNode, SoundPuzzle
<1>4. b \in Block /\ SoundHistory(Hash(b)) /\ b.key = n
  BY <1>1, <1>3, MinedBlockIsSound DEF MakeBlock
<1>5. mined \subseteq mined' /\ now <= now'
  BY <1>2 DEF TypeOK
<1>6. \A h \in mined' : SoundHistory(h)'
  <2>1. \A h \in mined : SoundHistory(h)'
    BY <1>5, Monotone DEF LedgerInv
  <2>2. ASSUME NEW h, h = Hash(b) PROVE SoundHistory(h)'
    BY <1>2, <1>4, <2>2 DEF SoundHistory
  <2> QED BY <1>2, <2>1, <2>2
<1>7. SoundNode(n)'
  <2>1. chain'[n] = EmptyChain \/ SoundChain(chain[n])'
    BY <1>2, <1>5 DEF LedgerInv, SoundNode, SoundChain
  <2>2. mining'[n] = NoJob
    BY <1>2 DEF TypeOK
  <2> QED BY <1>2, <2>1, <2>2 DEF LedgerInv, SoundNode
<1>8. ASSUME NEW k \in Node \ {n} PROVE SoundNode(k)'
  <2>1. mining'[k] = mining[k]
    BY <1>2 DEF TypeOK
  <2> QED BY <1>2, <1>5, <2>1, NodeUnchanged DEF LedgerInv
<1>9. ASSUME NEW p, p = PResponse(n, mining[n].from, b) PROVE SoundPacket(p)'
  BY <1>2, <1>4, <1>9 DEF SoundPacket, PResponse
<1>10. \A p \in net' : SoundPacket(p)'
  BY <1>2, <1>5, <1>9, Monotone DEF LedgerInv, TypeOK
<1> QED
  BY <1>6, <1>7, <1>8, <1>10 DEF LedgerInv

\* So does a mining that is given up.
LEMMA LedgerGiveUpMining ==
    ASSUME TypeOK, TypeOK', LedgerInv, NEW n \in Node, GiveUpMining(n)
    PROVE  LedgerInv'
<1>1. /\ UNCHANGED <<now, mined, chain, waiting>>
      /\ mining' = [mining EXCEPT ![n] = NoJob]
      /\ net' = net \cup {PResponse(n, mining[n].from, NoBlock)}
  BY DEF GiveUpMining, Respond
<1>2. SoundNode(n)'
  <2>1. chain'[n] = EmptyChain \/ SoundChain(chain[n])'
    BY <1>1 DEF LedgerInv, SoundNode, SoundChain
  <2>2. mining'[n] = NoJob
    BY <1>1 DEF TypeOK
  <2> QED BY <1>1, <2>1, <2>2 DEF LedgerInv, SoundNode
<1>3. ASSUME NEW p, p = PResponse(n, mining[n].from, NoBlock) PROVE SoundPacket(p)'
  BY <1>3 DEF SoundPacket, PResponse
<1>4. \A k \in Node \ {n} : mining'[k] = mining[k]
  BY <1>1 DEF TypeOK
<1>5. \A p \in net' : p \in net \/ SoundPacket(p)'
  BY <1>1, <1>3
<1> QED
  BY <1>1, <1>2, <1>4, <1>5, LedgerStep

\* Every step keeps the invariant.
LEMMA LedgerNext ==
    TypeOK /\ TypeOK' /\ LedgerInv /\ [Next]_vars => LedgerInv'
<1> SUFFICES ASSUME TypeOK, TypeOK', LedgerInv, [Next]_vars PROVE LedgerInv'
  OBVIOUS
<1>0. now <= now
  BY DEF TypeOK
<1>1. ASSUME NEW m \in net, Handle(m) PROVE LedgerInv'
  BY <1>1, LedgerGossip, LedgerProposal, LedgerResponse, LedgerBroadcast, LedgerBlockChain
     DEF Handle
<1>2. ASSUME NEW m \in net, Lose(m) PROVE LedgerInv'
  BY <1>0, <1>2, LedgerKept DEF Lose, ledger
<1>3. ASSUME NEW n \in Node, FinishMining(n) \/ GiveUpMining(n) PROVE LedgerInv'
  BY <1>3, LedgerFinishMining, LedgerGiveUpMining
<1>4. ASSUME NEW n \in Node, UpdateMapWithMatches(n) PROVE LedgerInv'
  BY <1>0, <1>4, LedgerKept DEF UpdateMapWithMatches, ledger
<1>5. ASSUME NEW n \in Node, ExpireJoining(n) PROVE LedgerInv'
  BY <1>0, <1>5, LedgerKept DEF ExpireJoining
<1>6. ASSUME NEW n \in Node, NEW to \in gossipers[n], SendGossip(n, to) PROVE LedgerInv'
  <2>1. ASSUME NEW p, p = Gossip(n, to, myID[n]) PROVE SoundPacket(p)'
    BY <2>1 DEF SoundPacket, Gossip
  <2>2. /\ net' = net \cup {Gossip(n, to, myID[n])}
        /\ UNCHANGED <<now, mined, chain, waiting, mining>>
    BY <1>6 DEF SendGossip, ledger
  <2> QED BY <1>0, <2>1, <2>2, LedgerKept
<1>7. CASE Tick
  <2>1. now <= now' /\ UNCHANGED <<mined, chain, waiting, mining, net>>
    BY <1>7 DEF Tick, ledger, TypeOK
  <2> QED BY <2>1, LedgerKept
<1>8. CASE UNCHANGED vars
  <2>1. UNCHANGED <<now, mined, chain, waiting, mining, net>>
    BY <1>8 DEF vars, ledger
  <2> QED BY <1>0, <2>1, LedgerKept
<1> QED
  BY <1>1, <1>2, <1>3, <1>4, <1>5, <1>6, <1>7, <1>8 DEF Next

\* The blocks mined form a tree in which IDs and timestamps fit, and every
\* chain, puzzle and block, kept or in flight, comes from it.
\* (nextNodeID, addBlock, handlePuzzleProposal, handlePuzzleResponse)
THEOREM LedgerCorrect == Spec => []LedgerInv
<1>1. Init => TypeOK /\ LedgerInv
  BY TypeInit, LedgerInit
<1>2. TypeOK /\ LedgerInv /\ [Next]_vars => (TypeOK /\ LedgerInv)'
  BY TypeNext, LedgerNext
<1> QED
  BY <1>1, <1>2, PTL DEF Spec

-----------------------------------------------------------------------------
(***************************************************************************)
(* What follows from the ledger invariant.                                 *)
(***************************************************************************)

\* A node has no chain yet, or its last block's history is a sound one and its
\* map is the registry of that history.
LEMMA TipIsSound ==
    ASSUME TypeOK, LedgerInv, NEW n \in Node
    PROVE  \/ chain[n] = EmptyChain /\ Tip(chain[n]) = <<>>
           \/ /\ Tip(chain[n]) \in History /\ Tip(chain[n]) # NoHash
              /\ SoundHistory(Tip(chain[n]))
              /\ chain[n].blocks = Registry(Tip(chain[n]))
<1>1. CASE chain[n] = EmptyChain
  BY <1>1 DEF EmptyChain, Tip, NoHash
<1>2. CASE SoundChain(chain[n])
  <2>1. Tip(chain[n]) = Hash(chain[n].last)
    BY <1>2, NoBlockAssumption DEF SoundChain, Tip
  <2>2. Tip(chain[n]) \in mined /\ mined \subseteq History
    BY <1>2, <2>1 DEF SoundChain, TypeOK
  <2> QED BY <1>2, <2>1, <2>2 DEF SoundChain, LedgerInv, SoundHistory
<1> QED
  BY <1>1, <1>2 DEF LedgerInv, SoundNode

\* The invariant implies that an ID is given out again only after its block has expired.
LEMMA LedgerReissued == TypeOK /\ LedgerInv => ReissuedOnlyAfterExpiry
<1> SUFFICES ASSUME TypeOK, LedgerInv, NEW n \in Node, NEW h, h = Tip(chain[n]),
                    NEW j \in DOMAIN h, NEW i \in 1 .. j - 1, h[i].id = h[j].id
             PROVE  h[j].ts - h[i].ts > Expiration
  BY DEF ReissuedOnlyAfterExpiry
<1>1. SoundHistory(h)
  BY TipIsSound
<1> QED
  BY <1>1 DEF SoundHistory, MayFollow

\* No ID is given out again before its last block has expired.
\* (nextNodeID, addBlock)
THEOREM ReissuedCorrect == Spec => []ReissuedOnlyAfterExpiry
BY TypeCorrect, LedgerCorrect, LedgerReissued, PTL

\* In a sound history a registration that is still alive is the last one of
\* its ID, whatever was registered after it.
LEMMA LiveIsLatest ==
    ASSUME now \in Nat, NEW h \in History, SoundHistory(h),
           NEW k \in DOMAIN h, ~ (now - h[k].ts > Expiration)
    PROVE  LatestEntry(h, h[k].id) = k
<1>1. /\ DOMAIN h = 1 .. Len(h) /\ Len(h) \in DOMAIN h /\ Len(h) \in Nat
      /\ \A i \in DOMAIN h : h[i].ts \in Nat
  <2>1. h # NoHash
    BY DEF SoundHistory
  <2>2. \A i \in DOMAIN h : h[i] \in Entry
    BY DEF History
  <2> QED BY <2>1, <2>2, LastEntry DEF Entry
<1>2. \A i \in DOMAIN h : h[i].ts <= now
  <2> SUFFICES ASSUME NEW i \in DOMAIN h PROVE h[i].ts <= now
    OBVIOUS
  <2>1. h[Len(h)].ts <= now
    BY DEF SoundHistory
  <2>2. i = Len(h) \/ i \in 1 .. Len(h) - 1
    BY <1>1
  <2>3. i = Len(h) \/ h[i].ts <= h[Len(h)].ts
    BY <1>1, <2>2 DEF SoundHistory, MayFollow
  <2> QED BY <1>1, <2>1, <2>3
<1>3. ASSUME NEW i \in DOMAIN h, h[i].id = h[k].id, i > k PROVE FALSE
  <2>1. k \in 1 .. i - 1
    BY <1>1, <1>3
  <2>2. h[i].ts - h[k].ts > Expiration
    BY <1>3, <2>1 DEF SoundHistory, MayFollow
  <2> QED BY <1>1, <1>2, <2>2, ExpirationAssumption
<1>4. \A i \in DOMAIN h : h[i].id = h[k].id => i <= k
  BY <1>1, <1>3
<1> QED
  BY <1>4, LatestEntryIs

\* It implies that nodes on one branch agree on live registrations.
LEMMA LedgerAgreed == TypeOK /\ LedgerInv => BehindMeansAgreed
<1> SUFFICES ASSUME TypeOK, LedgerInv, NEW n \in Node, NEW k \in Node,
                    NEW h, h = Tip(chain[n]), NEW g, g = Tip(chain[k]), IsPrefix(h, g),
                    NEW id \in DOMAIN chain[n].blocks,
                    IsValid(chain[n].blocks[id], now)
             PROVE  /\ id \in DOMAIN chain[k].blocks
                    /\ chain[k].blocks[id] = chain[n].blocks[id]
  BY DEF BehindMeansAgreed, ContainsValidNodeID
<1>1. /\ h \in History /\ h # NoHash /\ SoundHistory(h)
      /\ chain[n].blocks = Registry(h)
  <2>1. chain[n] # EmptyChain
    BY DEF EmptyChain
  <2> QED BY <2>1, TipIsSound
<1>2. /\ Len(h) \in Nat /\ Len(h) > 0
      /\ DOMAIN h = 1 .. Len(h)
  BY <1>1, LastEntry DEF History
<1>3. /\ g \in History /\ Len(g) \in Nat /\ Len(h) <= Len(g)
      /\ SubSeq(h, 1, Len(h)) = SubSeq(g, 1, Len(h))
  <2>1. g = <<>> \/ g \in History
    BY TipIsSound
  <2> QED BY <1>1, <2>1 DEF IsPrefix, History
<1>4. SoundHistory(g) /\ chain[k].blocks = Registry(g)
  <2>1. g # <<>>
    BY <1>2, <1>3
  <2> QED BY <2>1, TipIsSound
<1>5. DOMAIN g = 1 .. Len(g) /\ \A i \in DOMAIN h : i \in DOMAIN g /\ g[i] = h[i]
  <2>1. h \in Seq(Entry) /\ g \in Seq(Entry)
    BY <1>1, <1>3 DEF History
  <2>2. ASSUME NEW i \in 1 .. Len(h) PROVE g[i] = h[i]
    <3>1. SubSeq(h, 1, Len(h))[i] = h[i]
      BY <1>2, <2>1, <2>2
    <3>2. SubSeq(g, 1, Len(h))[i] = g[i]
      BY <1>2, <1>3, <2>1, <2>2
    <3> QED BY <1>3, <3>1, <3>2
  <2> QED BY <1>2, <1>3, <2>1, <2>2
<1>6. PICK j \in DOMAIN h : h[j].id = id
  BY <1>1 DEF Registry
<1>7. PICK l : l = LatestEntry(h, id)
  OBVIOUS
<1>8. l \in DOMAIN h /\ h[l].id = id
  BY <1>1, <1>6, <1>7, LatestEntryIsLatest
<1>9. chain[n].blocks[id] = BlockAt(h, l)
  BY <1>1, <1>7 DEF Registry
<1>10. ~ (now - h[l].ts > Expiration)
  BY <1>9 DEF IsValid, Expired, BlockAt, MakeBlock
<1>11. LatestEntry(g, id) = l
  <2>1. l \in DOMAIN g /\ g[l] = h[l] /\ now \in Nat
    BY <1>5, <1>8 DEF TypeOK
  <2> QED BY <1>3, <1>4, <1>8, <1>10, <2>1, LiveIsLatest
<1>12. id \in DOMAIN Registry(g) /\ Registry(g)[id] = BlockAt(g, l)
  BY <1>5, <1>8, <1>11 DEF Registry
<1>13. SubSeq(g, 1, l - 1) = SubSeq(h, 1, l - 1)
  <2>1. h \in Seq(Entry) /\ g \in Seq(Entry) /\ l - 1 \in Nat /\ l - 1 <= Len(h) /\ l - 1 <= Len(g)
    BY <1>1, <1>2, <1>3, <1>8 DEF History
  <2>2. /\ SubSeq(h, 1, l - 1) \in Seq(Entry) /\ Len(SubSeq(h, 1, l - 1)) = l - 1
        /\ SubSeq(g, 1, l - 1) \in Seq(Entry) /\ Len(SubSeq(g, 1, l - 1)) = l - 1
        /\ \A i \in 1 .. l - 1 : SubSeq(h, 1, l - 1)[i] = h[i] /\ SubSeq(g, 1, l - 1)[i] = g[i]
    BY <2>1
  <2>3. \A i \in 1 .. l - 1 : g[i] = h[i]
    BY <1>2, <1>5, <1>8
  <2> QED BY <2>2, <2>3
<1>14. BlockAt(g, l) = BlockAt(h, l)
  BY <1>5, <1>8, <1>13 DEF BlockAt
<1> QED
  BY <1>4, <1>9, <1>12, <1>14

\* Nodes on one branch never contradict each other on a live registration.
\* (addBlock)
THEOREM AgreedCorrect == Spec => []BehindMeansAgreed
BY TypeCorrect, LedgerCorrect, LedgerAgreed, PTL

\* A chain whose integrity was checked ends with a live block.
LEMMA IntegrityCoversLast ==
    ASSUME NEW c, IsChain(c), SoundChain(c), NEW t, CheckIntegrity(c, t)
    PROVE  IsValid(c.last, t)
<1>1. c.last \in Block /\ c.blocks = Registry(Hash(c.last))
  BY DEF SoundChain
<1>2. c.last.id \in DOMAIN c.blocks /\ c.blocks[c.last.id] = c.last
  BY <1>1, RegistryOfHash
<1>3. PICK i \in DOMAIN c.order : c.order[i] = c.last.id
  BY <1>2 DEF IsChain, ToSet
<1> QED
  BY <1>2, <1>3 DEF CheckIntegrity

\* Whoever becomes a member in a step does so on its own live block.
LEMMA JoinsStep ==
    ASSUME TypeOK, LedgerInv, [Next]_vars,
           NEW n \in Node, ~ joined[n], joined'[n]
    PROVE  /\ chain'[n].last # NoBlock
           /\ chain'[n].last.key = n
           /\ IsValid(chain'[n].last, now)
<1>1. ASSUME NEW m \in net, HandleBlockChain(m), m.dst = n PROVE
           /\ chain'[n].last # NoBlock
           /\ chain'[n].last.key = n
           /\ IsValid(chain'[n].last, now)
  <2>1. CheckIntegrity(m.chain, now) /\ chain' = [chain EXCEPT ![n] = m.chain]
    BY <1>1 DEF HandleBlockChain, Ignore, Panic, ledger
  <2>2. chain'[n] = m.chain
    BY <2>1 DEF TypeOK
  <2>3. m.type = "BChain"
    BY <1>1 DEF HandleBlockChain, Receive
  <2>4. IsChain(m.chain) /\ SoundChain(m.chain) /\ m.chain.last.key = n
    BY <1>1, <2>3, PacketFields DEF TypeOK, LedgerInv, SoundPacket
  <2> QED BY <2>1, <2>2, <2>4, IntegrityCoversLast, NoBlockAssumption DEF SoundChain
<1>2. ASSUME NEW m \in net, HandleBlockChain(m), m.dst # n PROVE FALSE
  BY <1>2 DEF HandleBlockChain, Ignore, Panic, ledger, TypeOK
<1>3. ASSUME NEW m \in net, \/ HandleGossipPacket(m) \/ HandlePuzzleProposal(m)
                            \/ HandlePuzzleResponse(m) \/ HandleBlockBroadcast(m) \/ Lose(m)
      PROVE  joined' = joined
  <2>1. CASE HandleGossipPacket(m)
    BY <2>1 DEF HandleGossipPacket, SendPuzzleProposal, Ignore, ledger
  <2>2. CASE HandlePuzzleProposal(m)
    BY <2>2 DEF HandlePuzzleProposal, Ignore, ledger
  <2>3. CASE HandlePuzzleResponse(m)
    BY <2>3 DEF HandlePuzzleResponse, AcceptResponse, Ignore, Panic, ledger
  <2>4. CASE HandleBlockBroadcast(m)
    BY <2>4 DEF HandleBlockBroadcast, Ignore, Panic, ledger
  <2>5. CASE Lose(m)
    BY <2>5 DEF Lose, ledger
  <2> QED BY <1>3, <2>1, <2>2, <2>3, <2>4, <2>5
<1>4. ASSUME NEW k \in Node, ExpireJoining(k) PROVE FALSE
  BY <1>4 DEF ExpireJoining, TypeOK
<1>5. ASSUME NEW k \in Node, \/ FinishMining(k) \/ GiveUpMining(k) \/ UpdateMapWithMatches(k)
                             \/ \E to \in gossipers[k] : SendGossip(k, to)
      PROVE  joined' = joined
  BY <1>5 DEF FinishMining, GiveUpMining, Respond, UpdateMapWithMatches, SendGossip, ledger
<1>6. CASE Tick \/ UNCHANGED vars
  BY <1>6 DEF Tick, vars, ledger
<1> QED
  BY <1>1, <1>2, <1>3, <1>4, <1>5, <1>6 DEF Next, Handle

\* Whatever chain a node is sent, and whenever, it becomes a member only on
\* one that ends with its own live block.  (handleBlockChain, checkIntegrity)
THEOREM JoinsCorrect == Spec => JoinsWithOwnLiveBlock
<1>1. TypeOK /\ LedgerInv /\ [Next]_vars =>
        [\A n \in Node : ~ joined[n] /\ joined'[n] =>
            /\ chain'[n].last # NoBlock
            /\ chain'[n].last.key = n
            /\ IsValid(chain'[n].last, now)]_vars
  BY JoinsStep
<1> QED
  BY <1>1, TypeCorrect, LedgerCorrect, PTL DEF Spec, JoinsWithOwnLiveBlock
-----------------------------------------------------------------------------
(***************************************************************************)
(* The order of a chain's list of IDs.                                     *)
(***************************************************************************)

\* The list names no ID twice and follows the time of registration.
InOrder(c) ==
    \A j \in DOMAIN c.order : \A i \in 1 .. j - 1 :
        /\ c.order[i] # c.order[j]
        /\ c.blocks[c.order[i]].ts <= c.blocks[c.order[j]].ts

\* Every chain is in order, the nodes' own and those sent to joiners.
ChainsInOrder ==
    /\ \A n \in Node : InOrder(chain[n])
    /\ \A m \in net : m.type = "BChain" => InOrder(m.chain)

\* A block no older than those of the chain is added in order, also when it takes
\* over the ID of an expired one.
LEMMA AddBlockInOrder ==
    ASSUME NEW c, IsChain(c), InOrder(c), NEW b \in Block,
           \A id \in DOMAIN c.blocks : c.blocks[id].ts <= b.ts
    PROVE  InOrder(AddBlock(c, b))
<1> DEFINE d == AddBlock(c, b)
<1>1. /\ c.order \in Seq(NodeID) /\ ToSet(c.order) = DOMAIN c.blocks /\ b.id \in NodeID
      /\ \A j \in DOMAIN c.order : \A i \in 1 .. j - 1 : c.order[i] # c.order[j]
  BY DEF IsChain, InOrder, Block
<1>2. PICK new : new = AddNodeIDToList(c.order, b.id)
  OBVIOUS
<1>3. \A j \in DOMAIN new : \A i \in 1 .. j - 1 :
         /\ new[i] # b.id /\ new[i] \in ToSet(c.order)
         /\ \/ new[j] = b.id
            \/ \E l \in DOMAIN c.order : \E k \in 1 .. l - 1 :
                  c.order[k] = new[i] /\ c.order[l] = new[j] /\ new[j] # b.id
  BY <1>1, <1>2, AddNodeIDToListOrder
<1>4. /\ d.order = new
      /\ d.blocks[b.id] = b
      /\ \A id \in DOMAIN c.blocks : id # b.id => d.blocks[id] = c.blocks[id]
  BY <1>2 DEF AddBlock
<1> HIDE DEF d
<1>5. ASSUME NEW j \in DOMAIN new, NEW i \in 1 .. j - 1
      PROVE  new[i] # new[j] /\ d.blocks[new[i]].ts <= d.blocks[new[j]].ts
  <2>1. new[i] # b.id /\ d.blocks[new[i]] = c.blocks[new[i]] /\ new[i] \in DOMAIN c.blocks
    BY <1>1, <1>3, <1>4
  <2>2. CASE new[j] = b.id
    BY <1>4, <2>1, <2>2
  <2>3. CASE new[j] # b.id
    <3>1. PICK l \in DOMAIN c.order : \E k \in 1 .. l - 1 : c.order[k] = new[i] /\ c.order[l] = new[j]
      BY <1>3, <2>3
    <3>2. c.blocks[new[i]].ts <= c.blocks[new[j]].ts /\ new[i] # new[j]
      BY <3>1 DEF InOrder
    <3>3. d.blocks[new[j]] = c.blocks[new[j]]
      BY <1>1, <1>4, <2>3, <3>1 DEF ToSet
    <3> QED BY <2>1, <3>2, <3>3
  <2> QED BY <2>2, <2>3
<1> QED BY <1>4, <1>5 DEF InOrder, d

\* A mined block that extends a chain is no older than the blocks of the chain.
LEMMA AddedIsLatest ==
    ASSUME TypeOK, LedgerInv, NEW c, SoundChain(c), NEW b \in Block,
           Hash(b) \in mined, b.prev = Hash(c.last)
    PROVE  \A id \in DOMAIN c.blocks : c.blocks[id].ts <= b.ts
<1> SUFFICES ASSUME NEW id \in DOMAIN c.blocks PROVE c.blocks[id].ts <= b.ts
  OBVIOUS
<1> DEFINE p == b.prev
<1>1. p \in History /\ c.blocks = Registry(p)
  BY DEF Block, SoundChain
<1>2. PICK k \in DOMAIN p : p[k].id = id
  BY <1>1 DEF Registry
<1>3. PICK l : l = LatestEntry(p, id)
  OBVIOUS
<1>4. l \in DOMAIN p
  BY <1>1, <1>2, <1>3, LatestEntryIsLatest
<1>5. c.blocks[id].ts = p[l].ts
  BY <1>1, <1>3 DEF Registry, BlockAt, MakeBlock
<1>6. /\ Len(p) \in Nat /\ DOMAIN p = 1 .. Len(p)
      /\ Hash(b) \in History /\ Len(Hash(b)) = Len(p) + 1
      /\ Hash(b)[l] = p[l] /\ Hash(b)[Len(p) + 1].ts = b.ts
  <2>1. Len(p) \in Nat /\ DOMAIN p = 1 .. Len(p)
    BY <1>1 DEF History
  <2>2. EntryOf(b).ts = b.ts
    BY DEF EntryOf
  <2> QED BY <1>4, <2>1, <2>2, HashType
<1>7. SoundHistory(Hash(b))
  BY DEF LedgerInv
<1>8. Len(p) + 1 \in DOMAIN Hash(b) /\ l \in 1 .. (Len(p) + 1) - 1
  BY <1>4, <1>6 DEF History
<1>9. MayFollow(Hash(b)[l], Hash(b)[Len(p) + 1].id, Hash(b)[Len(p) + 1].ts)
  BY <1>7, <1>8 DEF SoundHistory
<1> QED BY <1>5, <1>6, <1>9 DEF MayFollow

\* A block a node accepts is added in order.
LEMMA AcceptedInOrder ==
    ASSUME TypeOK, LedgerInv, ChainsInOrder, NEW n \in Node, NEW b \in Block,
           Hash(b) \in mined, CanAdd(chain[n], b, now), chain[n].last # NoBlock,
           chain' = [chain EXCEPT ![n] = AddBlock(@, b)]
    PROVE  \A k \in Node : InOrder(chain'[k])
<1>1. SoundChain(chain[n]) /\ IsChain(chain[n]) /\ b.prev = Hash(chain[n].last)
  BY DEF LedgerInv, SoundNode, EmptyChain, TypeOK, CanAdd
<1>2. InOrder(AddBlock(chain[n], b))
  BY <1>1, AddedIsLatest, AddBlockInOrder DEF ChainsInOrder
<1> QED BY <1>2 DEF TypeOK, ChainsInOrder

\* At first there is at most one block.
LEMMA OrderInit == Init => ChainsInOrder
<1> SUFFICES ASSUME Init PROVE ChainsInOrder
  OBVIOUS
<1>1. InOrder(EmptyChain)
  BY DEF EmptyChain, InOrder
<1>2. \A n \in Node : InOrder(InitGenesis(1, 0, n))
  BY DEF InitGenesis, InOrder
<1> QED BY <1>1, <1>2 DEF Init, ChainsInOrder

\* A step that neither changes a chain nor sends one keeps the chains in order.
LEMMA OrderKept ==
    ASSUME ChainsInOrder, UNCHANGED chain,
           \A m \in net' : m \in net \/ m.type # "BChain"
    PROVE  ChainsInOrder'
BY DEF ChainsInOrder, InOrder

\* So does every handler.
LEMMA OrderHandle ==
    ASSUME TypeOK, LedgerInv, ChainsInOrder, NEW m \in net, Handle(m)
    PROVE  ChainsInOrder'
<1>1. CASE Ignore(m) \/ \E why : Panic(m, why)
  BY <1>1, OrderKept, ExchangeNet DEF Ignore, Panic, ledger, TypeOK
<1>2. CASE HandleGossipPacket(m) /\ SendPuzzleProposal(m)
  <2>1. \A pp : PProposal(m.dst, m.src, pp).type # "BChain"
    BY DEF PProposal
  <2>2. UNCHANGED chain /\ \E pp : net' \subseteq net \cup {PProposal(m.dst, m.src, pp)}
    BY <1>2, ExchangeNet DEF SendPuzzleProposal, TypeOK
  <2> QED BY <2>1, <2>2, OrderKept
<1>3. CASE HandlePuzzleProposal(m)
  BY <1>1, <1>3, OrderKept, ExchangeNet DEF HandlePuzzleProposal, ledger, TypeOK
<1>4. CASE HandlePuzzleResponse(m) /\ ~ (Ignore(m) \/ \E why : Panic(m, why))
  <2> DEFINE n == m.dst
  <2>1. /\ m.src \in DOMAIN waiting[n] /\ m.block # NoBlock
        /\ CanAdd(chain[n], m.block, now) /\ AcceptResponse(m)
    BY <1>4 DEF HandlePuzzleResponse
  <2>2. /\ n \in Node /\ m.block \in Block /\ Hash(m.block) \in mined /\ chain[n].last # NoBlock
    <3>1. m.type = "PResponse"
      BY <1>4 DEF HandlePuzzleResponse, Receive
    <3> QED BY <2>1, <3>1, PacketFields DEF TypeOK, LedgerInv, SoundPacket, SoundNode
  <2>3. \A k \in Node : InOrder(chain'[k])
    BY <2>1, <2>2, AcceptedInOrder DEF AcceptResponse
  <2>4. net' \subseteq net \cup BroadcastBlock(n, m.block, m.src) \cup {BChain(n, m.src, chain'[n])}
    BY <2>1, ExchangeNet DEF AcceptResponse, TypeOK
  <2>5. \A p \in BroadcastBlock(n, m.block, m.src) : p.type # "BChain"
    BY DEF BroadcastBlock, BBroadcast
  <2>6. BChain(n, m.src, chain'[n]).chain = chain'[n]
    BY DEF BChain
  <2>7. \A p \in net' : p.type = "BChain" => InOrder(p.chain)
    BY <2>2, <2>3, <2>4, <2>5, <2>6 DEF ChainsInOrder
  <2> QED BY <2>3, <2>7 DEF ChainsInOrder, InOrder
<1>5. CASE HandleBlockBroadcast(m) /\ ~ (Ignore(m) \/ \E why : Panic(m, why))
  <2> DEFINE n == m.dst
  <2>1. /\ CanAdd(chain[n], m.block, now) /\ chain[n].last # NoBlock
        /\ chain' = [chain EXCEPT ![n] = AddBlock(@, m.block)]
        /\ Exchange(m, BroadcastBlock(n, m.block, m.src))
    BY <1>5 DEF HandleBlockBroadcast
  <2>2. n \in Node /\ m.block \in Block /\ Hash(m.block) \in mined
    <3>1. m.type = "BBroadcast"
      BY <1>5 DEF HandleBlockBroadcast, Receive
    <3> QED BY <3>1, PacketFields DEF TypeOK, LedgerInv, SoundPacket
  <2>3. \A k \in Node : InOrder(chain'[k])
    BY <2>1, <2>2, AcceptedInOrder
  <2>4. \A p \in BroadcastBlock(n, m.block, m.src) : p.type # "BChain"
    BY DEF BroadcastBlock, BBroadcast
  <2>5. \A p \in net' : p.type = "BChain" => InOrder(p.chain)
    BY <2>1, <2>4, ExchangeNet DEF ChainsInOrder, TypeOK
  <2> QED BY <2>3, <2>5 DEF ChainsInOrder, InOrder
<1>6. CASE HandleBlockChain(m) /\ ~ (Ignore(m) \/ \E why : Panic(m, why))
  <2>1. /\ chain' = [chain EXCEPT ![m.dst] = m.chain]
        /\ Exchange(m, {}) /\ m.type = "BChain"
    BY <1>6 DEF HandleBlockChain, Receive
  <2>2. \A k \in Node : InOrder(chain'[k])
    BY <2>1 DEF ChainsInOrder, TypeOK
  <2>3. net' \subseteq net
    BY <2>1, ExchangeNet DEF TypeOK
  <2> QED BY <2>2, <2>3 DEF ChainsInOrder, InOrder
<1>7. HandleGossipPacket(m) => Ignore(m) \/ SendPuzzleProposal(m)
  BY DEF HandleGossipPacket
<1> QED BY <1>1, <1>2, <1>3, <1>4, <1>5, <1>6, <1>7 DEF Handle

\* So does every step.
LEMMA OrderNext == TypeOK /\ LedgerInv /\ ChainsInOrder /\ [Next]_vars => ChainsInOrder'
<1> SUFFICES ASSUME TypeOK, LedgerInv, ChainsInOrder, [Next]_vars PROVE ChainsInOrder'
  OBVIOUS
<1>1. ASSUME NEW m \in net, Handle(m) PROVE ChainsInOrder'
  BY <1>1, OrderHandle
<1>2. ASSUME NEW m \in net, Lose(m) PROVE ChainsInOrder'
  BY <1>2, OrderKept DEF Lose, ledger
<1>3. ASSUME NEW n \in Node, NEW b, Respond(n, b) PROVE ChainsInOrder'
  <2>1. PResponse(n, mining[n].from, b).type # "BChain"
    BY DEF PResponse
  <2> QED BY <1>3, <2>1, OrderKept DEF Respond
<1>4. ASSUME NEW n \in Node, FinishMining(n) \/ GiveUpMining(n) PROVE ChainsInOrder'
  BY <1>3, <1>4 DEF FinishMining, GiveUpMining
<1>5. ASSUME NEW n \in Node, UpdateMapWithMatches(n) \/ ExpireJoining(n) PROVE ChainsInOrder'
  BY <1>5, OrderKept DEF UpdateMapWithMatches, ExpireJoining, ledger
<1>6. ASSUME NEW n \in Node, NEW to, SendGossip(n, to) PROVE ChainsInOrder'
  <2>1. Gossip(n, to, myID[n]).type # "BChain"
    BY DEF Gossip
  <2> QED BY <1>6, <2>1, OrderKept DEF SendGossip, ledger
<1>7. CASE Tick \/ UNCHANGED vars
  BY <1>7, OrderKept DEF Tick, vars, ledger
<1> QED BY <1>1, <1>2, <1>4, <1>5, <1>6, <1>7 DEF Next

\* The expired blocks of a chain come first in its list: an ID that is given out
\* again moves to the end.  (addBlock, addNodeIDToList)
THEOREM OrderCorrect == Spec => []ExpiredBlocksComeFirst
<1>1. Init => ChainsInOrder
  BY OrderInit
<1>2. ChainsInOrder => ExpiredBlocksComeFirst
  BY DEF ChainsInOrder, InOrder, ExpiredBlocksComeFirst
<1> QED
  BY <1>1, <1>2, OrderNext, TypeCorrect, LedgerCorrect, PTL DEF Spec

-----------------------------------------------------------------------------
(***************************************************************************)
(* How long membership lasts.                                              *)
(***************************************************************************)

\* n has an entry of h that is at most two lifetimes old at time t.
RecentAt(n, h, t) == \E i \in DOMAIN h : h[i].key = n /\ t - h[i].ts <= 2 * Expiration

\* A process that runs has missed no tick, the next one is at most a lifetime
\* away, and a member's own block will be at most two lifetimes old then.
TickerInv ==
    \A n \in Node :
        Running(n) =>
            /\ now <= nextTick[n] /\ nextTick[n] <= now + Expiration
            /\ joined[n] => RecentAt(n, Tip(chain[n]), nextTick[n])

\* What a chain's tip is, and what it becomes when a block is added.
LEMMA TipTypes ==
    ASSUME NEW c, IsChain(c)
    PROVE  /\ Tip(c) \in History
           /\ \A i \in DOMAIN Tip(c) : Tip(c)[i].ts \in Nat
           /\ \A t : \A b \in Block : CanAdd(c, b, t) /\ Tip(c) # NoHash =>
                 Tip(AddBlock(c, b)) = Append(Tip(c), EntryOf(b))
<1>1. c.last \in Block \cup {NoBlock}
  BY DEF IsChain
<1>2. Tip(c) \in History
  BY <1>1, HashType DEF Tip, NoHash, History
<1>3. \A i \in DOMAIN Tip(c) : Tip(c)[i].ts \in Nat
  <2>1. \A i \in DOMAIN Tip(c) : Tip(c)[i] \in Entry
    BY <1>2 DEF History
  <2> QED BY <2>1 DEF Entry
<1>4. ASSUME NEW b \in Block, NEW t, CanAdd(c, b, t), Tip(c) # NoHash
      PROVE  Tip(AddBlock(c, b)) = Append(Tip(c), EntryOf(b))
  <2>1. c.last # NoBlock /\ b.prev = Hash(c.last)
    BY <1>4 DEF CanAdd, Tip
  <2>2. AddBlock(c, b).last = b /\ b # NoBlock
    BY NoBlockAssumption DEF AddBlock
  <2>3. Tip(AddBlock(c, b)) = Hash(b) /\ Tip(c) = Hash(c.last)
    BY <2>1, <2>2 DEF Tip
  <2>4. Hash(b) = Append(b.prev, EntryOf(b))
    BY DEF Hash
  <2> QED BY <2>1, <2>3, <2>4
<1> QED
  BY <1>2, <1>3, <1>4

\* A longer chain keeps the entry.
LEMMA RecentStays ==
    ASSUME NEW c, IsChain(c), NEW b \in Block, NEW t, CanAdd(c, b, t), NEW n, NEW u,
           RecentAt(n, Tip(c), u)
    PROVE  RecentAt(n, Tip(AddBlock(c, b)), u)
<1>1. PICK i \in DOMAIN Tip(c) : Tip(c)[i].key = n /\ u - Tip(c)[i].ts <= 2 * Expiration
  BY DEF RecentAt
<1>2. Tip(c) \in History /\ Tip(c) # NoHash
  BY <1>1, TipTypes DEF NoHash
<1>3. Tip(AddBlock(c, b)) = Append(Tip(c), EntryOf(b))
  BY <1>2, TipTypes
<1>4. Tip(c) \in Seq(Entry) /\ i \in 1 .. Len(Tip(c))
  BY <1>1, <1>2 DEF History
<1>5. i \in DOMAIN Append(Tip(c), EntryOf(b)) /\ Append(Tip(c), EntryOf(b))[i] = Tip(c)[i]
  BY <1>4
<1> QED
  BY <1>1, <1>3, <1>5 DEF RecentAt

\* The invariant gives the property.
LEMMA TickerMembership == TypeOK /\ TickerInv => MembershipLapses
<1> SUFFICES ASSUME TypeOK, TickerInv, NEW n \in Node, joined[n], Running(n)
             PROVE  RecentAt(n, Tip(chain[n]), now)
  BY DEF MembershipLapses, RecentAt
<1>1. PICK i \in DOMAIN Tip(chain[n]) : /\ Tip(chain[n])[i].key = n
                                        /\ nextTick[n] - Tip(chain[n])[i].ts <= 2 * Expiration
  BY DEF TickerInv, RecentAt
<1>2. now <= nextTick[n] /\ now \in Nat /\ nextTick[n] \in Nat /\ Expiration \in Nat
  BY ExpirationAssumption DEF TickerInv, TypeOK
<1>3. Tip(chain[n])[i].ts \in Nat
  BY TipTypes DEF TypeOK
<1>4. now - Tip(chain[n])[i].ts <= 2 * Expiration
  BY <1>1, <1>2, <1>3
<1> QED
  BY <1>1, <1>4 DEF RecentAt

\* A genesis node's ticker starts within a lifetime of its block's timestamp.
LEMMA TickerInit == Init => TickerInv
<1> SUFFICES ASSUME Init, NEW n \in Node
             PROVE  /\ now <= nextTick[n] /\ nextTick[n] <= now + Expiration
                    /\ joined[n] => RecentAt(n, Tip(chain[n]), nextTick[n])
  BY DEF TickerInv
<1>1. now \in Nat /\ now <= Expiration /\ Expiration \in Nat \ {0}
  BY ExpirationAssumption DEF Init
<1>2. nextTick[n] \in now + 1 .. now + Expiration
  BY DEF Init
<1>3. ASSUME joined[n] PROVE RecentAt(n, Tip(chain[n]), nextTick[n])
  <2> DEFINE b == MakeBlock(1, 0, n, NoHash)
  <2>1. n \in Genesis /\ chain[n] = InitGenesis(1, 0, n) /\ nextTick[n] = now + Expiration
    BY <1>3 DEF Init
  <2>2. chain[n].last = b /\ b \in Block /\ b.ts = 0 /\ b.key = n /\ b.prev = <<>>
    BY <2>1, GenesisIsChain DEF MakeBlock, NoHash
  <2>3. Tip(chain[n]) = Append(<<>>, EntryOf(b))
    BY <2>2, NoBlockAssumption DEF Tip, Hash
  <2>4. EntryOf(b).ts = 0 /\ EntryOf(b).key = n
    BY <2>2 DEF EntryOf
  <2> HIDE DEF b
  <2>5. 1 \in DOMAIN Tip(chain[n]) /\ Tip(chain[n])[1] = EntryOf(b)
    BY <2>3
  <2>6. nextTick[n] - Tip(chain[n])[1].ts <= 2 * Expiration
    BY <1>1, <2>1, <2>4, <2>5
  <2> QED BY <2>4, <2>5, <2>6 DEF RecentAt
<1> QED
  BY <1>1, <1>2, <1>3

\* A step of another node, or one that leaves time and the ticker alone.
LEMMA TickerKept ==
    ASSUME TickerInv, NEW n \in Node, now' = now, nextTick'[n] = nextTick[n],
           Running(n)' => Running(n),
           joined'[n] => joined[n] \/ RecentAt(n, Tip(chain'[n]), nextTick[n]),
           RecentAt(n, Tip(chain[n]), nextTick[n]) => RecentAt(n, Tip(chain'[n]), nextTick[n])
    PROVE  Running(n)' =>
               /\ now' <= nextTick'[n] /\ nextTick'[n] <= now' + Expiration
               /\ joined'[n] => RecentAt(n, Tip(chain'[n]), nextTick'[n])
BY DEF TickerInv

\* The handlers: a chain taken over ends with the node's own live block.
LEMMA TickerHandle ==
    ASSUME TypeOK, LedgerInv, TickerInv, NEW m \in net, Handle(m)
    PROVE  TickerInv'
<1>1. IsPacket(m) /\ m.dst \in Node /\ m.src \in Node
  BY PacketFields DEF TypeOK
<1>2. UNCHANGED <<now, nextTick>>
  BY DEF Handle, HandleGossipPacket, HandlePuzzleProposal, HandlePuzzleResponse,
         HandleBlockBroadcast, HandleBlockChain
<1> SUFFICES ASSUME NEW n \in Node
             PROVE  Running(n)' =>
                       /\ now' <= nextTick'[n] /\ nextTick'[n] <= now' + Expiration
                       /\ joined'[n] => RecentAt(n, Tip(chain'[n]), nextTick'[n])
  BY DEF TickerInv, RecentAt
<1>3. CASE Ignore(m)
  BY <1>2, <1>3, TickerKept DEF Ignore, ledger, Running
<1>4. ASSUME NEW why, why # "no", Panic(m, why) PROVE Running(n)' => Running(n)
  BY <1>1, <1>4 DEF Panic, Running, TypeOK
<1>5. ASSUME NEW why, why # "no", Panic(m, why)
      PROVE  Running(n)' =>
                /\ now' <= nextTick'[n] /\ nextTick'[n] <= now' + Expiration
                /\ joined'[n] => RecentAt(n, Tip(chain'[n]), nextTick'[n])
  BY <1>2, <1>4, <1>5, TickerKept DEF Panic, ledger
<1>6. CASE SendPuzzleProposal(m)
  BY <1>2, <1>6, TickerKept DEF SendPuzzleProposal, Running
<1>7. CASE UNCHANGED <<ledger, matched, crashed>>
  BY <1>2, <1>7, TickerKept DEF ledger, Running
<1>8. ASSUME m.block \in Block, CanAdd(chain[m.dst], m.block, now),
             chain' = [chain EXCEPT ![m.dst] = AddBlock(@, m.block)],
             UNCHANGED <<joined, crashed>>
      PROVE  Running(n)' =>
                /\ now' <= nextTick'[n] /\ nextTick'[n] <= now' + Expiration
                /\ joined'[n] => RecentAt(n, Tip(chain'[n]), nextTick'[n])
  <2>1. chain'[n] = chain[n] \/ (n = m.dst /\ chain'[n] = AddBlock(chain[n], m.block))
    BY <1>8 DEF TypeOK
  <2>2. RecentAt(n, Tip(chain[n]), nextTick[n]) => RecentAt(n, Tip(chain'[n]), nextTick[n])
    BY <1>8, <2>1, RecentStays DEF TypeOK
  <2> QED BY <1>2, <1>8, <2>2, TickerKept DEF Running
<1>9. ASSUME m.type = "BChain", ~ joined[m.dst], Running(m.dst), CheckIntegrity(m.chain, now),
             chain' = [chain EXCEPT ![m.dst] = m.chain],
             joined' = [joined EXCEPT ![m.dst] = TRUE],
             UNCHANGED crashed
      PROVE  Running(n)' =>
                /\ now' <= nextTick'[n] /\ nextTick'[n] <= now' + Expiration
                /\ joined'[n] => RecentAt(n, Tip(chain'[n]), nextTick'[n])
  <2>1. CASE n # m.dst
    <3>1. chain'[n] = chain[n] /\ joined'[n] = joined[n]
      BY <1>9, <2>1 DEF TypeOK
    <3> QED BY <1>2, <1>9, <3>1, TickerKept DEF Running
  <2>2. CASE n = m.dst
    <3>1. IsChain(m.chain) /\ SoundChain(m.chain) /\ m.chain.last.key = n
      BY <1>1, <1>9, <2>2, PacketFields DEF LedgerInv, SoundPacket
    <3>2. m.chain.last \in Block /\ IsValid(m.chain.last, now) /\ m.chain.last # NoBlock
      BY <1>9, <3>1, IntegrityCoversLast, NoBlockAssumption DEF SoundChain
    <3> DEFINE b == m.chain.last
               h == Hash(b)
    <3>3. chain'[n] = m.chain /\ Tip(chain'[n]) = h
      BY <1>1, <1>9, <2>2, <3>2 DEF TypeOK, Tip
    <3>4. h \in History /\ Len(b.prev) + 1 \in DOMAIN h /\ h[Len(b.prev) + 1] = EntryOf(b)
      <4>1. h \in History /\ Len(h) = Len(b.prev) + 1 /\ h # NoHash /\ h[Len(b.prev) + 1] = EntryOf(b)
        BY <3>2, HashType
      <4> HIDE DEF h, b
      <4> QED BY <4>1, LastEntry
    <3>5. EntryOf(b).key = n /\ EntryOf(b).ts = b.ts /\ b.ts \in Nat
      BY <3>1, <3>2 DEF EntryOf, Block
    <3>6. now - b.ts <= Expiration
      BY <3>2, <3>5, ExpirationAssumption DEF IsValid, Expired, TypeOK
    <3>7. /\ now <= nextTick[n] /\ nextTick[n] <= now + Expiration
          /\ now \in Nat /\ nextTick[n] \in Nat /\ Expiration \in Nat
      BY <1>9, <2>2, ExpirationAssumption DEF TickerInv, TypeOK
    <3> HIDE DEF h, b
    <3>8. nextTick[n] - b.ts <= 2 * Expiration
      BY <3>5, <3>6, <3>7
    <3>9. RecentAt(n, Tip(chain'[n]), nextTick[n])
      BY <3>3, <3>4, <3>5, <3>8 DEF RecentAt
    <3> QED BY <1>2, <3>7, <3>9
  <2> QED BY <2>1, <2>2
<1>10. CASE HandleGossipPacket(m)
  BY <1>3, <1>6, <1>10 DEF HandleGossipPacket
<1>11. CASE HandlePuzzleProposal(m)
  BY <1>3, <1>7, <1>11 DEF HandlePuzzleProposal
<1>12. CASE HandlePuzzleResponse(m)
  <2>1. m.type = "PResponse"
    BY <1>12 DEF HandlePuzzleResponse, Receive
  <2>2. CASE m.block # NoBlock /\ CanAdd(chain[m.dst], m.block, now) /\ AcceptResponse(m)
    <3>1. m.block \in Block
      BY <1>1, <2>1, <2>2, PacketFields
    <3> QED BY <1>8, <2>2, <3>1 DEF AcceptResponse
  <2> QED BY <1>3, <1>5, <1>12, <2>2 DEF HandlePuzzleResponse
<1>13. CASE HandleBlockBroadcast(m)
  <2>1. m.type = "BBroadcast"
    BY <1>13 DEF HandleBlockBroadcast, Receive
  <2>2. m.block \in Block
    BY <1>1, <2>1, PacketFields
  <2> QED BY <1>3, <1>5, <1>8, <1>13, <2>2 DEF HandleBlockBroadcast
<1>14. CASE HandleBlockChain(m)
  <2>1. m.type = "BChain" /\ Running(m.dst)
    BY <1>14 DEF HandleBlockChain, Receive
  <2> QED BY <1>3, <1>5, <1>9, <1>14, <2>1 DEF HandleBlockChain
<1> QED
  BY <1>10, <1>11, <1>12, <1>13, <1>14 DEF Handle

\* Every step keeps the invariant; a tick of the clock waits for the tickers.
LEMMA TickerNext == TypeOK /\ LedgerInv /\ TickerInv /\ [Next]_vars => TickerInv'
<1> SUFFICES ASSUME TypeOK, LedgerInv, TickerInv, [Next]_vars PROVE TickerInv'
  OBVIOUS
<1>1. ASSUME NEW m \in net, Handle(m) PROVE TickerInv'
  BY <1>1, TickerHandle
<1>2. ASSUME UNCHANGED <<now, nextTick, crashed, joined, chain>> PROVE TickerInv'
  BY <1>2 DEF TickerInv, Running, RecentAt
<1>3. ASSUME NEW m \in net, Lose(m) PROVE TickerInv'
  BY <1>2, <1>3 DEF Lose, ledger
<1>4. ASSUME NEW n \in Node, \/ FinishMining(n) \/ GiveUpMining(n) \/ UpdateMapWithMatches(n)
                             \/ \E to \in gossipers[n] : SendGossip(n, to)
      PROVE  TickerInv'
  BY <1>2, <1>4 DEF FinishMining, GiveUpMining, Respond, UpdateMapWithMatches, SendGossip, ledger
<1>5. ASSUME NEW k \in Node, ExpireJoining(k) PROVE TickerInv'
  <2> SUFFICES ASSUME NEW n \in Node, Running(n)'
               PROVE  /\ now' <= nextTick'[n] /\ nextTick'[n] <= now' + Expiration
                      /\ joined'[n] => RecentAt(n, Tip(chain'[n]), nextTick'[n])
    BY DEF TickerInv, RecentAt
  <2>1. /\ now' = now /\ chain' = chain /\ Running(n)
        /\ now <= nextTick[n] /\ nextTick[n] <= now + Expiration
        /\ joined[n] => RecentAt(n, Tip(chain[n]), nextTick[n])
    BY <1>5 DEF ExpireJoining, Running, TickerInv
  <2>2. CASE n # k
    BY <1>5, <2>1, <2>2 DEF ExpireJoining, TypeOK
  <2>3. CASE n = k
    <3>1. nextTick'[n] = nextTick[n] + Expiration /\ ~ joined'[n] /\ now >= nextTick[n]
      BY <1>5, <2>3 DEF ExpireJoining, TypeOK
    <3> QED BY <2>1, <3>1, ExpirationAssumption DEF TypeOK
  <2> QED BY <2>2, <2>3
<1>6. CASE Tick
  <2>1. \A n \in Node : now \in Nat /\ nextTick[n] \in Nat /\ Expiration \in Nat
    BY ExpirationAssumption DEF TypeOK
  <2> QED BY <1>6, <2>1 DEF Tick, ledger, TickerInv, Running, RecentAt
<1>7. CASE UNCHANGED vars
  BY <1>2, <1>7 DEF vars, ledger
<1> QED
  BY <1>1, <1>3, <1>4, <1>5, <1>6, <1>7 DEF Next

\* A member mined a block of its chain at most two lifetimes ago, for every
\* lifetime and however late, often or out of order packets come.
\* (expireJoining, handleBlockChain)
THEOREM MembershipCorrect == Spec => []MembershipLapses
<1>1. TypeOK /\ LedgerInv /\ TickerInv /\ [Next]_vars => TickerInv'
  BY TickerNext
<1>2. TypeOK /\ TickerInv => MembershipLapses
  BY TickerMembership
<1> QED
  BY <1>1, <1>2, TickerInit, TypeCorrect, LedgerCorrect, PTL DEF Spec
=============================================================================
