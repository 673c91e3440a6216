----------------------------- MODULE BlockTree ------------------------------
(***************************************************************************)
(* What the joining protocol promises of the blockchain: registrations     *)
(* grow a tree, each under the smallest ID its branch has free; a node     *)
(* moves along a branch one live registration at a time, and becomes a     *)
(* member only by moving to the end of a branch that is a live             *)
(* registration of its own.  Packets, puzzles, maps and lists are gone.    *)
(***************************************************************************)
EXTENDS Integers, Sequences, SequencesExt

CONSTANTS
    Node,
    Founder,    \* the members from the start
    Expiration

VARIABLES
    now,
    tree,       \* the branches, each the sequence of its registrations
    at,         \* the branch each node is at the end of, <<>> at first
    members

vars == <<now, tree, at, members>>

Registration(n, id, ts) == [id |-> id, ts |-> ts, key |-> n]

IsLive(e, t) == t - e.ts <= Expiration

Root(n) == <<Registration(n, 1, 0)>>

Init ==
    /\ now \in 0 .. Expiration
    /\ tree = {Root(n) : n \in Founder}
    /\ at = [n \in Node |-> IF n \in Founder THEN Root(n) ELSE <<>>]
    /\ members = Founder

\* The IDs of the registrations of h that live at time t.
InUse(h, t) == {h[i].id : i \in {j \in DOMAIN h : IsLive(h[j], t)}}

IsNextID(id, h, t) == id \notin InUse(h, t) /\ 1 .. id - 1 \subseteq InUse(h, t)

\* n may register after h, as of time ts, which is not long ago.
MayRegister(n, h, id, ts) ==
    /\ n \notin members
    /\ \A i \in DOMAIN h : h[i].ts <= ts
    /\ IsNextID(id, h, ts)
    /\ now - ts <= Expiration

Register(n) ==
    /\ \E h \in tree, ts \in 0 .. now : \E id \in 1 .. Len(h) + 1 :
          /\ MayRegister(n, h, id, ts)
          /\ tree' = tree \cup {Append(h, Registration(n, id, ts))}
    /\ UNCHANGED <<now, at, members>>

MoveTo(n, h) ==
    /\ IsLive(Last(h), now)
    /\ at' = [at EXCEPT ![n] = h]

Follow(n) ==
    /\ at[n] # <<>>
    /\ \E h \in tree : Front(h) = at[n] /\ MoveTo(n, h)
    /\ UNCHANGED <<now, tree, members>>

Join(n) ==
    /\ n \notin members
    /\ \E h \in tree : Last(h).key = n /\ MoveTo(n, h)
    /\ members' = members \cup {n}
    /\ UNCHANGED <<now, tree>>

Leave(n) == members' = members \ {n} /\ UNCHANGED <<now, tree, at>>

Tick == now' = now + 1 /\ UNCHANGED <<tree, at, members>>

Next == Tick \/ \E n \in Node : Register(n) \/ Follow(n) \/ Join(n) \/ Leave(n)

Spec == Init /\ [][Next]_vars
=============================================================================
