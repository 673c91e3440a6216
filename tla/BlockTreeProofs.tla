-------------------------- MODULE BlockTreeProofs ---------------------------
(***************************************************************************)
(* Joining implements BlockTree, proved for any number of nodes, any       *)
(* topology, any expiration delay, and any value of the bounds.            *)
(***************************************************************************)
EXTENDS JoiningProofs

-----------------------------------------------------------------------------
(***************************************************************************)
(* Puzzles.                                                                *)
(***************************************************************************)

\* The puzzle's ID is the smallest that was free on its branch.
HasNextID(pp) ==
    /\ pp.id <= Len(pp.prev) + 1
    /\ Tree!IsNextID(pp.id, pp.prev, pp.ts)

\* So it is with every puzzle, and nobody solves one while it is a member.
PuzzleInv ==
    /\ \A m \in net : m.type = "PProposal" => HasNextID(m.pp)
    /\ \A n \in Node : mining[n] # NoJob => HasNextID(mining[n].pp) /\ ~ joined[n]

\* A map of registrations has no more IDs than the history has entries.
LEMMA RegistryIsSmall ==
    ASSUME NEW h \in History, IsFiniteSet(DOMAIN Registry(h))
    PROVE  Cardinality(DOMAIN Registry(h)) <= Len(h)
<1> DEFINE D == DOMAIN Registry(h)
           last == [id \in D |-> LatestEntry(h, id)]
<1>1. Len(h) \in Nat /\ DOMAIN h = 1 .. Len(h)
  BY DEF History
<1>2. \A id \in D : last[id] \in 1 .. Len(h) /\ h[last[id]].id = id
  <2> SUFFICES ASSUME NEW id \in D PROVE last[id] \in 1 .. Len(h) /\ h[last[id]].id = id
    OBVIOUS
  <2>1. PICK k \in DOMAIN h : h[k].id = id
    BY DEF Registry
  <2> QED BY <1>1, <2>1, LatestEntryIsLatest
<1>3. last \in Injection(D, 1 .. Len(h))
  <2> HIDE DEF D
  <2> QED BY <1>2 DEF Injection, IsInjective
<1>4. IsFiniteSet(1 .. Len(h)) /\ Cardinality(1 .. Len(h)) = Len(h)
  BY <1>1, FS_Interval
<1> QED BY <1>3, <1>4, FS_Injection

\* The IDs in use on a sound branch are those with a live block in its registry.
LEMMA InUseIsLive ==
    ASSUME now \in Nat, NEW c, SoundChain(c), SoundHistory(Hash(c.last)), NEW id
    PROVE  ContainsValidNodeID(c, id, now) <=> id \in Tree!InUse(Hash(c.last), now)
<1> DEFINE h == Hash(c.last)
<1>1. h \in History /\ c.blocks = Registry(h)
  BY HashType DEF SoundChain
<1> HIDE DEF h
<1>0. \A i \in DOMAIN h : h[i].ts \in Nat
  <2>1. \A i \in DOMAIN h : h[i] \in Entry
    BY <1>1 DEF History
  <2> QED BY <2>1 DEF Entry
<1>2. ASSUME ContainsValidNodeID(c, id, now) PROVE id \in Tree!InUse(h, now)
  <2>1. PICK k \in DOMAIN h : h[k].id = id
    BY <1>1, <1>2 DEF ContainsValidNodeID, Registry
  <2> DEFINE l == LatestEntry(h, id)
  <2>2. l \in DOMAIN h /\ h[l].id = id
    BY <1>1, <2>1, LatestEntryIsLatest
  <2>3. c.blocks[id] = BlockAt(h, l)
    BY <1>1, <2>1 DEF Registry
  <2>4. IsValid(BlockAt(h, l), now)
    BY <1>2, <2>3 DEF ContainsValidNodeID
  <2>5. ~ (now - h[l].ts > Expiration)
    BY <2>4 DEF IsValid, Expired, BlockAt, MakeBlock
  <2> HIDE DEF l
  <2>6. h[l].ts \in Nat
    BY <1>0, <2>2
  <2>7. now - h[l].ts <= Expiration
    BY <2>5, <2>6, ExpirationAssumption
  <2> QED BY <2>2, <2>7 DEF Tree!InUse, Tree!IsLive
<1>3. ASSUME id \in Tree!InUse(h, now) PROVE ContainsValidNodeID(c, id, now)
  <2>1. PICK k \in DOMAIN h : h[k].id = id /\ now - h[k].ts <= Expiration
    BY <1>3 DEF Tree!InUse, Tree!IsLive
  <2>2. h[k].ts \in Nat
    BY <1>0
  <2>3. ~ (now - h[k].ts > Expiration)
    BY <2>1, <2>2, ExpirationAssumption
  <2>4. SoundHistory(h)
    BY DEF h
  <2>5. LatestEntry(h, id) = k
    BY <1>1, <2>1, <2>3, <2>4, LiveIsLatest
  <2>6. id \in DOMAIN c.blocks /\ c.blocks[id] = BlockAt(h, k)
    BY <1>1, <2>1, <2>5 DEF Registry
  <2> QED BY <2>3, <2>6 DEF ContainsValidNodeID, IsValid, Expired, BlockAt, MakeBlock
<1> QED BY <1>2, <1>3 DEF h

\* nextNodeID gives out the smallest ID that is free.
LEMMA NextIDIsSmallest ==
    ASSUME now \in Nat, NEW c, IsChain(c), SoundChain(c), SoundHistory(Hash(c.last)),
           NEW pp, pp = [id |-> NextNodeID(c, now), ts |-> now, prev |-> Hash(c.last)]
    PROVE  HasNextID(pp)
<1> DEFINE h == Hash(c.last)
           id == NextNodeID(c, now)
           size == Cardinality(DOMAIN c.blocks)
<1>1. id \in NodeID /\ ~ ContainsValidNodeID(c, id, now)
  BY NextNodeIDIsFree
<1>2. h \in History /\ c.blocks = Registry(h)
  BY HashType DEF SoundChain
<1>3. size \in Nat /\ size <= Len(h) /\ Len(h) \in Nat
  <2>1. IsFiniteSet(DOMAIN c.blocks)
    BY DEF IsChain
  <2>2. size \in Nat
    BY <2>1, FS_CardinalityType
  <2>3. Len(h) \in Nat
    BY <1>2 DEF History
  <2> HIDE DEF h
  <2> QED BY <1>2, <2>1, <2>2, <2>3, RegistryIsSmall
<1>4. FreeIDs(c, now) \in SUBSET Nat /\ FreeIDs(c, now) # {}
  BY <1>3, FreeIDsExist
<1>5. id \in FreeIDs(c, now) /\ \A i \in FreeIDs(c, now) : id <= i
  BY <1>4, MinNat DEF NextNodeID
<1>6. id <= size + 1
  BY <1>5 DEF FreeIDs
<1>7. \A i \in 1 .. id - 1 : ContainsValidNodeID(c, i, now)
  <2> SUFFICES ASSUME NEW i \in 1 .. id - 1, ~ ContainsValidNodeID(c, i, now) PROVE FALSE
    OBVIOUS
  <2>1. id \in Nat
    BY <1>1 DEF NodeID
  <2> HIDE DEF id, size
  <2>2. i \in 1 .. size + 1 /\ i < id
    BY <1>3, <1>6, <2>1
  <2>3. i \in FreeIDs(c, now)
    BY <2>2 DEF FreeIDs, size
  <2> QED BY <1>5, <2>1, <2>2, <2>3
<1>8. Tree!IsNextID(id, h, now)
  BY <1>1, <1>7, InUseIsLive DEF Tree!IsNextID
<1>9. id <= Len(h) + 1
  BY <1>1, <1>3, <1>6 DEF NodeID
<1> QED BY <1>8, <1>9 DEF HasNextID

\* What that says does not change with time.
LEMMA NextIDStays == \A pp : HasNextID(pp)' <=> HasNextID(pp)
BY DEF HasNextID, Tree!IsNextID, Tree!InUse, Tree!IsLive

\* The packets of a step that are no new puzzles keep the puzzles' invariant, if
\* nobody becomes a member while it solves one.
LEMMA PuzzlesKept ==
    ASSUME PuzzleInv,
           \A m \in net' : m \in net \/ m.type # "PProposal" \/ HasNextID(m.pp),
           \A n \in Node : mining'[n] # NoJob =>
              ~ joined'[n] /\ (mining'[n] = mining[n] \/ HasNextID(mining'[n].pp))
    PROVE  PuzzleInv'
<1>1. \A m \in net' : m.type = "PProposal" => HasNextID(m.pp)
  BY DEF PuzzleInv
<1>2. \A n \in Node : mining'[n] # NoJob => HasNextID(mining'[n].pp) /\ ~ joined'[n]
  BY DEF PuzzleInv
<1>3. \A m \in net' : m.type = "PProposal" => HasNextID(m.pp)'
  BY <1>1, NextIDStays
<1>4. \A n \in Node : mining'[n] # NoJob => HasNextID(mining[n].pp)' /\ ~ joined'[n]
  BY <1>2 DEF HasNextID, Tree!IsNextID, Tree!InUse, Tree!IsLive
<1> QED BY <1>3, <1>4 DEF PuzzleInv

LEMMA PuzzleInit == Init => PuzzleInv
BY DEF Init, PuzzleInv

LEMMA PuzzleNext ==
    ASSUME TypeOK, TypeOK', LedgerInv, PuzzleInv, [Next]_vars
    PROVE  PuzzleInv'
<1>0. \A n \in Node : mining[n] # NoJob => ~ joined[n]
  BY DEF PuzzleInv
<1>1. ASSUME NEW m \in net, HandleGossipPacket(m) PROVE PuzzleInv'
  <2>1. UNCHANGED <<joined, mining>>
    BY <1>1 DEF HandleGossipPacket, SendPuzzleProposal, Ignore, ledger
  <2>2. CASE Ignore(m)
    <3>1. net' \subseteq net
      BY <2>2, ExchangeNet DEF Ignore, TypeOK
    <3> QED BY <1>0, <2>1, <3>1, PuzzlesKept
  <2>3. CASE CanPropose(m.dst, m.src) /\ SendPuzzleProposal(m)
    <3> DEFINE n == m.dst
    <3>1. PICK pp : pp = [id   |-> NextNodeID(chain[n], now),
                          ts   |-> now,
                          prev |-> Hash(chain[n].last)]
      OBVIOUS
    <3>2. n \in Node
      BY PacketFields DEF TypeOK
    <3>3. chain[n].last # NoBlock /\ SoundChain(chain[n]) /\ IsChain(chain[n])
      BY <2>3, <3>2 DEF CanPropose, LedgerInv, SoundNode, EmptyChain, TypeOK
    <3>4. SoundHistory(Hash(chain[n].last)) /\ now \in Nat
      BY <3>3 DEF SoundChain, LedgerInv, TypeOK
    <3>5. HasNextID(pp)
      BY <3>1, <3>3, <3>4, NextIDIsSmallest
    <3>6. net' \subseteq net \cup {PProposal(n, m.src, pp)}
      BY <2>3, <3>1, ExchangeNet DEF SendPuzzleProposal, TypeOK
    <3>7. \A p \in net' : p \in net \/ HasNextID(p.pp)
      BY <3>5, <3>6 DEF PProposal
    <3> QED BY <1>0, <2>1, <3>7, PuzzlesKept
  <2> QED BY <1>1, <2>2, <2>3 DEF HandleGossipPacket
<1>2. ASSUME NEW m \in net, HandlePuzzleProposal(m) PROVE PuzzleInv'
  <2>1. net' \subseteq net /\ joined' = joined
    BY <1>2, ExchangeNet DEF HandlePuzzleProposal, Ignore, ledger, TypeOK
  <2>2. CASE mining' = mining
    BY <1>0, <2>1, <2>2, PuzzlesKept
  <2>3. CASE /\ ~ joined[m.dst]
             /\ mining' = [mining EXCEPT ![m.dst] =
                             [pp |-> m.pp, from |-> m.src, start |-> now]]
    <3>1. m.type = "PProposal" /\ HasNextID(m.pp)
      BY <1>2 DEF HandlePuzzleProposal, Receive, PuzzleInv
    <3>2. \A n \in Node : \/ n # m.dst /\ mining'[n] = mining[n]
                          \/ n = m.dst /\ mining'[n].pp = m.pp
      BY <2>3 DEF TypeOK
    <3> QED BY <1>0, <2>1, <2>3, <3>1, <3>2, PuzzlesKept
  <2> QED BY <1>2, <2>2, <2>3 DEF HandlePuzzleProposal, Ignore
<1>3. ASSUME NEW m \in net, HandlePuzzleResponse(m) \/ HandleBlockBroadcast(m) PROVE PuzzleInv'
  <2>1. UNCHANGED <<joined, mining>>
    BY <1>3 DEF HandlePuzzleResponse, HandleBlockBroadcast, AcceptResponse, Ignore, Panic, ledger
  <2>2. CASE Ignore(m) \/ \E why : Panic(m, why)
    <3>1. net' \subseteq net
      BY <2>2, ExchangeNet DEF Ignore, Panic, TypeOK
    <3> QED BY <1>0, <2>1, <3>1, PuzzlesKept
  <2>3. CASE \E out : /\ Exchange(m, out)
                      /\ \A p \in out : p.type # "PProposal"
    <3>1. \A p \in net' : p \in net \/ p.type # "PProposal"
      BY <2>3, ExchangeNet DEF TypeOK
    <3> QED BY <1>0, <2>1, <3>1, PuzzlesKept
  <2>4. CASE HandlePuzzleResponse(m) /\ AcceptResponse(m)
    <3>1. Exchange(m, BroadcastBlock(m.dst, m.block, m.src) \cup {BChain(m.dst, m.src, chain'[m.dst])})
      BY <2>4 DEF AcceptResponse
    <3>2. \A p \in BroadcastBlock(m.dst, m.block, m.src) \cup {BChain(m.dst, m.src, chain'[m.dst])} :
             p.type # "PProposal"
      BY DEF BroadcastBlock, BBroadcast, BChain
    <3> QED BY <2>3, <3>1, <3>2
  <2>5. CASE Exchange(m, BroadcastBlock(m.dst, m.block, m.src))
    <3>1. \A p \in BroadcastBlock(m.dst, m.block, m.src) : p.type # "PProposal"
      BY DEF BroadcastBlock, BBroadcast
    <3> QED BY <2>3, <2>5, <3>1
  <2> QED BY <1>3, <2>2, <2>4, <2>5 DEF HandlePuzzleResponse, HandleBlockBroadcast
<1>4. ASSUME NEW m \in net, HandleBlockChain(m) PROVE PuzzleInv'
  <2>1. net' \subseteq net /\ mining' = mining
    BY <1>4, ExchangeNet DEF HandleBlockChain, Ignore, Panic, TypeOK
  <2>2. mining[m.dst] = NoJob
    BY <1>4 DEF HandleBlockChain, Receive
  <2>3. \A n \in Node : n = m.dst \/ joined'[n] = joined[n]
    BY <1>4 DEF HandleBlockChain, Ignore, Panic, ledger, TypeOK
  <2> QED BY <1>0, <2>1, <2>2, <2>3, PuzzlesKept
<1>5. ASSUME NEW n \in Node, FinishMining(n) \/ GiveUpMining(n) PROVE PuzzleInv'
  <2>1. PICK b : Respond(n, b)
    BY <1>5 DEF FinishMining, GiveUpMining
  <2>2. net' = net \cup {PResponse(n, mining[n].from, b)} /\ joined' = joined
    BY <2>1 DEF Respond
  <2>3. \A p \in net' : p \in net \/ p.type # "PProposal"
    BY <2>2 DEF PResponse
  <2>4. \A k \in Node : mining'[k] = mining[k] \/ mining'[k] = NoJob
    BY <2>1 DEF Respond, TypeOK
  <2> QED BY <1>0, <2>2, <2>3, <2>4, PuzzlesKept
<1>6. ASSUME NEW n \in Node, NEW to, SendGossip(n, to) PROVE PuzzleInv'
  <2>1. net' = net \cup {Gossip(n, to, myID[n])} /\ UNCHANGED <<joined, mining>>
    BY <1>6 DEF SendGossip, ledger
  <2>2. \A p \in net' : p \in net \/ p.type # "PProposal"
    BY <2>1 DEF Gossip
  <2> QED BY <1>0, <2>1, <2>2, PuzzlesKept
<1>7. ASSUME NEW n \in Node, ExpireJoining(n) PROVE PuzzleInv'
  <2>1. \A k \in Node : ~ joined[k] => ~ joined'[k]
    BY <1>7 DEF ExpireJoining, TypeOK
  <2>2. UNCHANGED <<net, mining>>
    BY <1>7 DEF ExpireJoining
  <2> QED BY <1>0, <2>1, <2>2, PuzzlesKept
<1>8. CASE (\E m \in net : Lose(m)) \/ (\E n \in Node : UpdateMapWithMatches(n)) \/ Tick
           \/ UNCHANGED vars
  <2>1. net' \subseteq net /\ UNCHANGED <<joined, mining>>
    BY <1>8 DEF Lose, UpdateMapWithMatches, Tick, vars, ledger, monitor
  <2> QED BY <1>0, <2>1, PuzzlesKept
<1> QED
  BY <1>1, <1>2, <1>3, <1>4, <1>5, <1>6, <1>7, <1>8 DEF Next, Handle

-----------------------------------------------------------------------------
(***************************************************************************)
(* Every step is one of the tree's or leaves it as it is.                  *)
(***************************************************************************)

\* Steps that move nobody.
LEMMA TreeStays ==
    ASSUME UNCHANGED <<now, mined, chain, joined>>
    PROVE  UNCHANGED Tree!vars
BY DEF Tree!vars, at, members

\* Where a node is that has a new chain.
LEMMA AtMoves ==
    ASSUME TypeOK, NEW n \in Node, NEW c, chain' = [chain EXCEPT ![n] = c]
    PROVE  at' = [at EXCEPT ![n] = Tip(c)]
BY DEF at, TypeOK

\* A block is its branch, its registration and what comes before it.
LEMMA BranchOf ==
    ASSUME NEW b \in Block
    PROVE  /\ Tree!Last(Hash(b)) = EntryOf(b) /\ Tree!Front(Hash(b)) = b.prev
           /\ b # NoBlock
<1>1. b.prev \in Seq(Entry) /\ EntryOf(b) \in Entry
  BY HashType DEF Block, History
<1> QED BY <1>1, NoBlockAssumption DEF Hash, Tree!Last, Tree!Front

LEMMA RegisterStep ==
    ASSUME TypeOK, LedgerInv, PuzzleInv, NEW n \in Node, FinishMining(n)
    PROVE  Tree!Register(n)
<1> DEFINE pp == mining[n].pp
           h == pp.prev
<1>1. PICK b : b = MakeBlock(pp.id, pp.ts, n, h)
  OBVIOUS
<1>2. /\ mining[n] # NoJob /\ IsValid(b, now)
      /\ mined' = mined \cup {Hash(b)} /\ UNCHANGED <<now, chain, joined>>
  BY <1>1 DEF FinishMining, Respond
<1>3. SoundPuzzle(pp) /\ HasNextID(pp) /\ ~ joined[n]
  BY <1>2 DEF LedgerInv, SoundNode, PuzzleInv
<1>4. pp.id \in NodeID /\ pp.ts \in Nat /\ h \in History /\ now \in Nat
  BY <1>2 DEF TypeOK, Job, Proposal
<1>5. Hash(b) = Append(h, Tree!Registration(n, pp.id, pp.ts))
  BY <1>1 DEF Hash, EntryOf, MakeBlock, Tree!Registration
<1>6. h \in mined /\ pp.ts \in 0 .. now /\ \A i \in DOMAIN h : h[i].ts <= pp.ts
  BY <1>3, <1>4 DEF SoundPuzzle, MayFollow
<1>7. Len(h) \in Nat /\ pp.id \in 1 .. Len(h) + 1
  <2>1. Len(h) \in Nat
    BY <1>4 DEF History
  <2> QED BY <1>3, <1>4, <2>1 DEF HasNextID, NodeID
<1>8. now - pp.ts <= Expiration
  <2>1. ~ (now - pp.ts > Expiration)
    BY <1>1, <1>2 DEF IsValid, Expired, MakeBlock
  <2> QED BY <1>4, <2>1, ExpirationAssumption
<1>9. Tree!MayRegister(n, h, pp.id, pp.ts)
  BY <1>3, <1>6, <1>8 DEF Tree!MayRegister, members, HasNextID
<1>10. UNCHANGED <<at, members>>
  BY <1>2 DEF at, members
<1> QED BY <1>2, <1>5, <1>6, <1>7, <1>9, <1>10 DEF Tree!Register

LEMMA FollowStep ==
    ASSUME TypeOK, LedgerInv, NEW n \in Node, NEW b \in Block, Hash(b) \in mined,
           CanAdd(chain[n], b, now), chain[n].last # NoBlock,
           chain' = [chain EXCEPT ![n] = AddBlock(@, b)], UNCHANGED <<now, mined, joined>>
    PROVE  Tree!Follow(n)
<1>1. chain[n].last \in Block
  BY DEF TypeOK, IsChain
<1>2. at[n] = Hash(chain[n].last) /\ at[n] # <<>>
  BY <1>1, HashType DEF at, Tip, NoHash
<1>3. Tree!Front(Hash(b)) = at[n]
  BY <1>2, BranchOf DEF CanAdd
<1>4. Tree!IsLive(Tree!Last(Hash(b)), now)
  <2>1. ~ (now - b.ts > Expiration) /\ now \in Nat /\ b.ts \in Nat
    BY DEF CanAdd, IsValid, Expired, TypeOK, Block
  <2>2. Tree!Last(Hash(b)).ts = b.ts
    BY BranchOf DEF EntryOf
  <2> QED BY <2>1, <2>2, ExpirationAssumption DEF Tree!IsLive
<1>5. at' = [at EXCEPT ![n] = Hash(b)]
  <2>1. AddBlock(chain[n], b).last = b
    BY DEF AddBlock
  <2>2. Tip(AddBlock(chain[n], b)) = Hash(b)
    BY <2>1, BranchOf DEF Tip
  <2> QED BY <2>2, AtMoves
<1>6. members' = members
  BY DEF members
<1>7. Tree!MoveTo(n, Hash(b))
  BY <1>4, <1>5 DEF Tree!MoveTo
<1>8. UNCHANGED <<now, mined, members>>
  BY <1>6
<1> QED BY <1>2, <1>3, <1>7, <1>8 DEF Tree!Follow

LEMMA JoinStep ==
    ASSUME TypeOK, LedgerInv, NEW m \in net, HandleBlockChain(m)
    PROVE  Tree!Join(m.dst) \/ UNCHANGED Tree!vars
<1> DEFINE n == m.dst
           c == m.chain
<1>1. n \in Node /\ UNCHANGED <<now, mined>>
  BY PacketFields DEF TypeOK, HandleBlockChain
<1>2. CASE Ignore(m) \/ Panic(m, "integrity")
  BY <1>1, <1>2, TreeStays DEF Ignore, Panic, ledger
<1>3. CASE /\ ~ joined[n] /\ CheckIntegrity(c, now)
           /\ chain' = [chain EXCEPT ![n] = c]
           /\ joined' = [joined EXCEPT ![n] = TRUE]
  <2>1. IsChain(c) /\ SoundChain(c) /\ c.last.key = n
    <3>1. m.type = "BChain"
      BY DEF HandleBlockChain, Receive
    <3> QED BY <3>1, PacketFields DEF TypeOK, LedgerInv, SoundPacket
  <2>2. c.last \in Block /\ Hash(c.last) \in mined
    BY <2>1 DEF SoundChain
  <2>3. Tree!Last(Hash(c.last)) = EntryOf(c.last) /\ Tip(c) = Hash(c.last)
    BY <2>2, BranchOf DEF Tip
  <2>4. Tree!Last(Hash(c.last)).key = n /\ Tree!Last(Hash(c.last)).ts = c.last.ts
    BY <2>1, <2>3 DEF EntryOf
  <2>5. Tree!IsLive(Tree!Last(Hash(c.last)), now)
    <3>1. IsValid(c.last, now)
      BY <1>3, <2>1, IntegrityCoversLast
    <3>2. ~ (now - c.last.ts > Expiration) /\ now \in Nat /\ c.last.ts \in Nat
      BY <2>2, <3>1 DEF IsValid, Expired, TypeOK, Block
    <3> QED BY <2>4, <3>2, ExpirationAssumption DEF Tree!IsLive
  <2>6. at' = [at EXCEPT ![n] = Hash(c.last)]
    BY <1>1, <1>3, <2>3, AtMoves
  <2>7. n \notin members /\ members' = members \cup {n}
    BY <1>1, <1>3 DEF members, TypeOK
  <2>8. Tree!MoveTo(n, Hash(c.last))
    BY <2>5, <2>6 DEF Tree!MoveTo
  <2>9. UNCHANGED <<now, mined>>
    BY <1>1
  <2> QED BY <2>2, <2>4, <2>7, <2>8, <2>9 DEF Tree!Join
<1> QED BY <1>2, <1>3 DEF HandleBlockChain

LEMMA TreeStep ==
    ASSUME TypeOK, LedgerInv, PuzzleInv, [Next]_vars
    PROVE  [Tree!Next]_(Tree!vars)
<1>1. ASSUME NEW m \in net, HandleGossipPacket(m) \/ HandlePuzzleProposal(m) \/ Lose(m)
      PROVE  UNCHANGED Tree!vars
  <2>1. UNCHANGED <<now, mined, chain, joined>>
    BY <1>1 DEF HandleGossipPacket, HandlePuzzleProposal, SendPuzzleProposal, Ignore, Lose, ledger
  <2> QED BY <2>1, TreeStays
<1>2. ASSUME NEW m \in net, HandlePuzzleResponse(m)
      PROVE  Tree!Follow(m.dst) \/ UNCHANGED Tree!vars
  <2>1. m.dst \in Node /\ m.type = "PResponse" /\ UNCHANGED <<now, mined>>
    BY <1>2, PacketFields DEF TypeOK, HandlePuzzleResponse, Receive
  <2>2. CASE Ignore(m) \/ Panic(m, "nilBlock")
    BY <2>1, <2>2, TreeStays DEF Ignore, Panic, ledger
  <2>3. CASE /\ m.src \in DOMAIN waiting[m.dst] /\ m.block # NoBlock
             /\ CanAdd(chain[m.dst], m.block, now) /\ AcceptResponse(m)
    <3>1. m.block \in Block /\ Hash(m.block) \in mined
      BY <2>1, <2>3, PacketFields DEF TypeOK, LedgerInv, SoundPacket
    <3>2. chain[m.dst].last # NoBlock
      BY <2>1, <2>3 DEF LedgerInv, SoundNode
    <3>3. chain' = [chain EXCEPT ![m.dst] = AddBlock(@, m.block)] /\ joined' = joined
      BY <2>3 DEF AcceptResponse
    <3> QED BY <2>1, <2>3, <3>1, <3>2, <3>3, FollowStep
  <2> QED BY <1>2, <2>2, <2>3 DEF HandlePuzzleResponse
<1>3. ASSUME NEW m \in net, HandleBlockBroadcast(m)
      PROVE  Tree!Follow(m.dst) \/ UNCHANGED Tree!vars
  <2>1. m.dst \in Node /\ m.type = "BBroadcast" /\ UNCHANGED <<now, mined>>
    BY <1>3, PacketFields DEF TypeOK, HandleBlockBroadcast, Receive
  <2>2. CASE Ignore(m) \/ Panic(m, "nilMap")
    BY <2>1, <2>2, TreeStays DEF Ignore, Panic, ledger
  <2>3. CASE /\ CanAdd(chain[m.dst], m.block, now) /\ chain[m.dst].last # NoBlock
             /\ chain' = [chain EXCEPT ![m.dst] = AddBlock(@, m.block)]
             /\ UNCHANGED joined
    <3>1. m.block \in Block /\ Hash(m.block) \in mined
      BY <2>1, PacketFields DEF TypeOK, LedgerInv, SoundPacket
    <3> QED BY <2>1, <2>3, <3>1, FollowStep
  <2> QED BY <1>3, <2>2, <2>3 DEF HandleBlockBroadcast
<1>4. ASSUME NEW m \in net, HandleBlockChain(m)
      PROVE  Tree!Join(m.dst) \/ UNCHANGED Tree!vars
  BY <1>4, JoinStep
<1>5. ASSUME NEW n \in Node, FinishMining(n) PROVE Tree!Register(n)
  BY <1>5, RegisterStep
<1>6. ASSUME NEW n \in Node, ExpireJoining(n) PROVE Tree!Leave(n)
  <2>1. joined' = [joined EXCEPT ![n] = FALSE] /\ UNCHANGED <<now, mined, chain>>
    BY <1>6 DEF ExpireJoining
  <2>2. members' = members \ {n} /\ at' = at
    BY <2>1 DEF members, at, TypeOK
  <2> QED BY <2>1, <2>2 DEF Tree!Leave
<1>7. ASSUME NEW n \in Node, \/ GiveUpMining(n) \/ UpdateMapWithMatches(n)
                             \/ \E to \in gossipers[n] : SendGossip(n, to)
      PROVE  UNCHANGED Tree!vars
  <2>1. UNCHANGED <<now, mined, chain, joined>>
    BY <1>7 DEF GiveUpMining, Respond, UpdateMapWithMatches, SendGossip, ledger
  <2> QED BY <2>1, TreeStays
<1>8. CASE Tick
  <2>1. now' = now + 1 /\ UNCHANGED <<mined, chain, joined>>
    BY <1>8 DEF Tick, ledger
  <2>2. UNCHANGED <<at, members>>
    BY <2>1 DEF at, members
  <2> QED BY <2>1, <2>2 DEF Tree!Tick, Tree!Next
<1>9. CASE UNCHANGED vars
  BY <1>9, TreeStays DEF vars, ledger
<1>10. \A m \in net : m.dst \in Node
  BY PacketFields DEF TypeOK
<1> QED
  BY <1>1, <1>2, <1>3, <1>4, <1>5, <1>6, <1>7, <1>8, <1>9, <1>10 DEF Next, Handle, Tree!Next

\* The protocol grows one tree of registrations, each under the smallest ID free on
\* its branch; nodes move along branches, or join at a live registration of their
\* own: the refinement of BlockTree.  (nextNodeID, addBlock, handlePuzzleProposal,
\* handlePuzzleResponse, handleBlockBroadcast, handleBlockChain)
THEOREM JoiningGrowsTree == Spec => GrowsTree
<1>1. Init => Tree!Init
  <2> SUFFICES ASSUME Init PROVE Tree!Init
    OBVIOUS
  <2>1. \A n : Hash(MakeBlock(1, 0, n, NoHash)) = Tree!Root(n)
    BY DEF Hash, MakeBlock, EntryOf, NoHash, Tree!Root, Tree!Registration
  <2>2. mined = {Tree!Root(n) : n \in Genesis} /\ now \in 0 .. Expiration
    BY <2>1 DEF Init
  <2>3. ASSUME NEW n \in Node
        PROVE  Tip(chain[n]) = IF n \in Genesis THEN Tree!Root(n) ELSE <<>>
    <3>1. CASE n \in Genesis
      <4>1. chain[n].last = MakeBlock(1, 0, n, NoHash)
        BY <3>1, GenesisIsChain DEF Init
      <4>2. chain[n].last # NoBlock
        BY <4>1, GenesisIsChain, NoBlockAssumption
      <4> QED BY <2>1, <3>1, <4>1, <4>2 DEF Tip
    <3>2. CASE n \notin Genesis
      BY <3>2 DEF Init, EmptyChain, Tip, NoHash
    <3> QED BY <3>1, <3>2
  <2>4. at = [n \in Node |-> IF n \in Genesis THEN Tree!Root(n) ELSE <<>>]
    BY <2>3 DEF at
  <2>5. members = Genesis
    BY GenesisAssumption DEF Init, members
  <2> QED BY <2>2, <2>4, <2>5 DEF Tree!Init
<1>2. TypeOK /\ LedgerInv /\ PuzzleInv /\ [Next]_vars => (TypeOK /\ LedgerInv /\ PuzzleInv)'
  BY TypeNext, LedgerNext, PuzzleNext
<1>3. TypeOK /\ LedgerInv /\ PuzzleInv /\ [Next]_vars => [Tree!Next]_(Tree!vars)
  BY TreeStep
<1>4. Init => TypeOK /\ LedgerInv /\ PuzzleInv
  BY TypeInit, LedgerInit, PuzzleInit
<1> QED BY <1>1, <1>2, <1>3, <1>4, PTL DEF Spec, GrowsTree, Tree!Spec
=============================================================================
