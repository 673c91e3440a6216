----------------------------- MODULE BlockChain -----------------------------
(***************************************************************************)
(* The local copy of the blockchain (code/blockchain.go): one block per    *)
(* registered peer, the block expires, and the ID of an expired block is   *)
(* given out again.  Operators only; Joining holds the state.              *)
(*                                                                         *)
(* SHA-256 is a random oracle: the hash of a block is injective and, since *)
(* it covers the predecessor's hash, commits to the block's whole history. *)
(* It is modelled as that history: the sequence of the entries (ID,        *)
(* timestamp, public key) from the genesis block to the block itself.      *)
(* mineBlock tries the nonces 0, 1, 2, ... in order and keeps the first    *)
(* that meets the difficulty, so the nonce is a function of the other      *)
(* fields and is left out.                                                 *)
(***************************************************************************)
EXTENDS Integers, FiniteSets, Sequences, FiniteSetsExt, SequencesExt

CONSTANTS
    Node,        \* the peers; a peer stands for its address, its name and its key
    Expiration,  \* lifetime of a block, in clock units
    NoBlock      \* the nil *Block

NodeID == Nat \ {0}     \* 0 is "not joined"

Entry == [id : NodeID, ts : Nat, key : Node]

History == Seq(Entry)

Block == [id : NodeID, ts : Nat, key : Node, prev : History]

ASSUME ExpirationAssumption == Expiration \in Nat \ {0}
ASSUME NoBlockAssumption == NoBlock \notin Block

\* The genesis block's PreviousHash, the hash of nothing.
NoHash == <<>>

EntryOf(b) == [id |-> b.id, ts |-> b.ts, key |-> b.key]

Hash(b) == Append(b.prev, EntryOf(b))

MakeBlock(id, ts, key, prev) == [id |-> id, ts |-> ts, key |-> key, prev |-> prev]

\* Mutant: a block expires one unit early.
ExpiredEarly(b, now) == now - b.ts >= Expiration

\* Every block in the system comes out of mineBlock, so its hash has the
\* required leading zeros: a block is valid until it expires.
Expired(b, now) == now - b.ts > Expiration

IsValid(b, now) == ~ Expired(b, now)

(***************************************************************************)
(* Chains.                                                                 *)
(***************************************************************************)

\* &BlockChain{}: a nil map, an empty list, no last block.
EmptyChain == [blocks |-> <<>>, order |-> <<>>, last |-> NoBlock]

InitGenesis(id, ts, key) ==
    LET b == MakeBlock(id, ts, key, NoHash)
    IN  [blocks |-> [i \in {id} |-> b], order |-> <<id>>, last |-> b]

\* Mutant: the previous hash is not compared.
CanAddUnlinked(c, b, now) == IsValid(b, now)

\* addBlock's condition.
CanAdd(c, b, now) ==
    /\ IsValid(b, now)
    /\ c.last = NoBlock \/ b.prev = Hash(c.last)

\* Mutant: the ID's earlier place in the list is kept.
AppendNodeID(order, id) == Append(order, id)

\* An ID is listed once: without its first occurrence it is not listed.
AddNodeIDToList(order, id) == Append(RemoveFirst(order, id), id)

\* addBlock's effect, on a chain whose map is not nil.
AddBlock(c, b) ==
    [blocks |-> [i \in DOMAIN c.blocks \cup {b.id} |-> IF i = b.id THEN b ELSE c.blocks[i]],
     order  |-> AddNodeIDToList(c.order, b.id),
     last   |-> b]

ContainsValidNodeID(c, id, now) ==
    /\ id \in DOMAIN c.blocks
    /\ IsValid(c.blocks[id], now)

\* Mutant: IDs are counted from 0.
FreeIDsFromZero(c, now) ==
    {i \in 0 .. Cardinality(DOMAIN c.blocks) : ~ ContainsValidNodeID(c, i, now)}

FreeIDs(c, now) ==
    {i \in 1 .. Cardinality(DOMAIN c.blocks) + 1 : ~ ContainsValidNodeID(c, i, now)}

\* Mutant: the IDs of expired blocks are not given out again.
NextUnusedID(c, now) == Cardinality(DOMAIN c.blocks) + 1

\* The smallest ID that is unused or whose block has expired.
NextNodeID(c, now) == Min(FreeIDs(c, now))

\* Mutant: the blocks' validity is not checked.
SkipIntegrity(c, now) == TRUE

\* checkIntegrity compares a block with its predecessor only once prevHash is
\* set, and sets it only there: no hash is ever compared.
CheckIntegrity(c, now) ==
    \A i \in DOMAIN c.order : IsValid(c.blocks[c.order[i]], now)

(***************************************************************************)
(* What the last block's hash commits to.                                  *)
(***************************************************************************)

\* The hash of the chain's last block.
Tip(c) == IF c.last = NoBlock THEN NoHash ELSE Hash(c.last)

BlockAt(h, i) == MakeBlock(h[i].id, h[i].ts, h[i].key, SubSeq(h, 1, i - 1))

LatestEntry(h, id) == Max({i \in DOMAIN h : h[i].id = id})

\* The registrations a history leaves behind: for every ID its latest block.
Registry(h) ==
    [id \in {h[i].id : i \in DOMAIN h} |-> BlockAt(h, LatestEntry(h, id))]

IsChain(c) ==
    /\ c = [blocks |-> c.blocks, order |-> c.order, last |-> c.last]
    /\ DOMAIN c.blocks \subseteq NodeID
    /\ IsFiniteSet(DOMAIN c.blocks)
    /\ c.blocks \in [DOMAIN c.blocks -> Block]
    /\ c.order \in Seq(NodeID)
    /\ ToSet(c.order) = DOMAIN c.blocks
    /\ c.last \in Block \cup {NoBlock}
=============================================================================
