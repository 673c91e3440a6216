--------------------------- MODULE NeighborMonitor ---------------------------
(***************************************************************************)
(* The goroutines of one node that decide which neighbours are active      *)
(* (code/node_communication.go), and how the listener of packets gets past *)
(* them (code/sybilresistance.go, code/puzzleshandler.go):                 *)
(*                                                                         *)
(*   - the listener (listenPeers), which looks the sender up, hands its ID *)
(*     to a watcher over an unbuffered channel, and hands every accepted   *)
(*     joiner to the updater over another;                                 *)
(*   - the updater (updateMapWithMatches);                                 *)
(*   - the watchers (identifyInactiveNodes), one more for every joiner;    *)
(*   - the searcher (searchForInactiveNodes), which takes no lock.         *)
(*                                                                         *)
(* A critical section of mu1 inside which nothing blocks is one step; so   *)
(* the lock is seen taken only by a watcher that will never release it.    *)
(***************************************************************************)
EXTENDS Integers, FiniteSets, Sequences

CONSTANTS
    Neighbor,       \* the addresses that send packets to this node
    First,          \* the first address of the -peers flag
    Joiner,         \* the addresses whose puzzle responses this node accepts
    NoNeighbor,
    Timeout,        \* how long a watcher waits for a packet: the code's 30 s
    MaxTime,        \* bound on the clock
    MaxResponses,   \* bound on the puzzle responses accepted
    MaxDialErrors   \* bound on the failures of net.Dial

ASSUME NeighborAssumption ==
    /\ First \in Neighbor
    /\ Joiner \subseteq Neighbor
    /\ NoNeighbor \notin Neighbor

ASSUME TimeoutAssumption == Timeout \in Nat \ {0}

attempts == 2

VARIABLES
    now,         \* the clock
    lock,        \* the watcher that holds mu1 for ever, or Free
    active,      \* cn.activeNeighbors
    unreachable, \* cn.neighbors: how often in a row Dial failed
    listener,    \* where the listener is, and with whose packet
    updater,     \* the joiner the updater is about to record
    watchers,    \* the watchers started so far
    dialErrors,
    crashed,     \* the runtime found two goroutines in one map
    heard        \* when each neighbour's last packet was let through

vars == <<now, lock, active, unreachable, listener, updater, watchers,
          dialErrors, crashed, heard>>

Free == 0

\* A goroutine identifyInactiveNodes(k); c counts its timeouts in a row.
Watcher(k) == [of |-> k, pc |-> "top", c |-> 0, deadline |-> 0]

Idle == [pc |-> "read", from |-> NoNeighbor, about |-> NoNeighbor]

\* initMap and the go statements of main.
Init ==
    /\ now = 0
    /\ lock = Free
    /\ active = [k \in {First} |-> TRUE]
    /\ unreachable = [k \in Neighbor |-> 0]
    /\ listener = Idle
    /\ updater = NoNeighbor
    /\ watchers = <<Watcher(First)>>
    /\ dialErrors = 0
    /\ crashed = FALSE
    /\ heard = [k \in Neighbor |-> 0]

-----------------------------------------------------------------------------
(***************************************************************************)
(* The listener.                                                           *)
(***************************************************************************)

\* A packet of a registered sender, perhaps a report that another neighbour is
\* inactive.  (Packets of unregistered senders do not come this far.)
Receive(k, about) ==
    /\ listener = Idle
    /\ about # k
    /\ listener' = [pc |-> "lookup", from |-> k, about |-> about]
    /\ UNCHANGED <<now, lock, active, unreachable, updater, watchers, dialErrors, crashed, heard>>

LookUp ==
    /\ listener.pc = "lookup"
    /\ lock = Free
    /\ listener' = IF listener.from \in DOMAIN active /\ active[listener.from]
                   THEN [listener EXCEPT !.pc = "hand"]
                   ELSE Idle
    /\ UNCHANGED <<now, lock, active, unreachable, updater, watchers, dialErrors, crashed, heard>>

\* The watchers of k blocked at the channel's receive.
Waiting(k) == {w \in DOMAIN watchers : watchers[w].of = k /\ watchers[w].pc = "select"}

\* Mutant: the watcher that receives keeps its count of timeouts.
Reached(w) == [w EXCEPT !.pc = "relock"]

Hears(w) == [w EXCEPT !.pc = "relock", !.c = 0]

\* MsgRecv[from] <- NodeID: a channel serves first who has waited longest.
Hand(w) ==
    /\ listener.pc = "hand"
    /\ w \in Waiting(listener.from)
    /\ \A v \in Waiting(listener.from) : watchers[w].deadline <= watchers[v].deadline
    /\ watchers' = [watchers EXCEPT ![w] = Hears(@)]
    /\ listener' = IF listener.about = NoNeighbor THEN Idle ELSE [listener EXCEPT !.pc = "mark"]
    /\ heard' = [heard EXCEPT ![listener.from] = now]
    /\ UNCHANGED <<now, lock, active, unreachable, updater, dialErrors, crashed>>

\* The report is acted on if its signature is valid, and dropped otherwise.
Mark ==
    /\ listener.pc = "mark"
    /\ \/ UNCHANGED active
       \/ /\ lock = Free
          /\ active' = [k \in DOMAIN active |-> active[k] /\ k # listener.about]
    /\ listener' = Idle
    /\ UNCHANGED <<now, lock, unreachable, updater, watchers, dialErrors, crashed, heard>>

\* Every watcher but First's was started for an accepted response.
AcceptResponse(k) ==
    /\ listener = Idle
    /\ Len(watchers) + (IF updater = NoNeighbor THEN 0 ELSE 1) <= MaxResponses
    /\ listener' = [Idle EXCEPT !.pc = "match", !.from = k]
    /\ UNCHANGED <<now, lock, active, unreachable, updater, watchers, dialErrors, crashed, heard>>

\* channel <- &IPMatchNodeID: the updater is at its receive.
Match ==
    /\ listener.pc = "match"
    /\ updater = NoNeighbor
    /\ updater' = listener.from
    /\ listener' = Idle
    /\ UNCHANGED <<now, lock, active, unreachable, watchers, dialErrors, crashed, heard>>

-----------------------------------------------------------------------------
(***************************************************************************)
(* The updater, the watchers and the searcher.                             *)
(***************************************************************************)

\* Mutant: a joiner is watched only if it was known already.
RecordKnown ==
    /\ updater # NoNeighbor
    /\ lock = Free
    /\ active' = [k \in DOMAIN active \cup {updater} |-> k \notin DOMAIN active \/ active[k]]
    /\ watchers' = IF updater \in DOMAIN active
                   THEN Append(watchers, Watcher(updater)) ELSE watchers
    /\ updater' = NoNeighbor
    /\ UNCHANGED <<now, lock, unreachable, listener, dialErrors, crashed, heard>>

\* A new neighbour is active; a watcher is started even for a known one.
Record ==
    /\ updater # NoNeighbor
    /\ lock = Free
    /\ active' = [k \in DOMAIN active \cup {updater} |-> k \notin DOMAIN active \/ active[k]]
    /\ watchers' = Append(watchers, Watcher(updater))
    /\ updater' = NoNeighbor
    /\ UNCHANGED <<now, lock, unreachable, listener, dialErrors, crashed, heard>>

\* The head of the loop: mu1 is released only if the neighbour is active, and
\* locking it again blocks for ever.
Watch(w) ==
    /\ watchers[w].pc = "top"
    /\ lock = Free
    /\ IF active[watchers[w].of]
       THEN /\ watchers' = [watchers EXCEPT ![w].pc = "select", ![w].deadline = now + Timeout]
            /\ UNCHANGED lock
       ELSE /\ lock' = w
            /\ watchers' = [watchers EXCEPT ![w].pc = "stuck"]
    /\ UNCHANGED <<now, active, unreachable, listener, updater, dialErrors, crashed, heard>>

Expire(w) ==
    /\ watchers[w].pc = "select"
    /\ now >= watchers[w].deadline
    /\ watchers' = [watchers EXCEPT ![w].c = @ + 1,
                                    ![w].pc = IF watchers[w].c + 1 = attempts
                                              THEN "declare" ELSE "top"]
    /\ UNCHANGED <<now, lock, active, unreachable, listener, updater, dialErrors, crashed, heard>>

\* The neighbour is reported to the others and the goroutine ends.
Declare(w) ==
    /\ watchers[w].pc = "declare"
    /\ lock = Free
    /\ active' = [active EXCEPT ![watchers[w].of] = FALSE]
    /\ watchers' = [watchers EXCEPT ![w].pc = "done"]
    /\ UNCHANGED <<now, lock, unreachable, listener, updater, dialErrors, crashed, heard>>

Reactivate(w) ==
    /\ watchers[w].pc = "relock"
    /\ lock = Free
    /\ active' = [active EXCEPT ![watchers[w].of] = TRUE]
    /\ watchers' = [watchers EXCEPT ![w].pc = "top"]
    /\ UNCHANGED <<now, lock, unreachable, listener, updater, dialErrors, crashed, heard>>

\* One neighbour's turn in checkNeighbors.
CheckNeighbor(k) ==
    /\ k \in DOMAIN active
    /\ \/ /\ unreachable' = [unreachable EXCEPT ![k] = IF @ < attempts THEN 0 ELSE @]
          /\ UNCHANGED dialErrors
       \/ /\ unreachable[k] < attempts
          /\ dialErrors < MaxDialErrors
          /\ unreachable' = [unreachable EXCEPT ![k] = @ + 1]
          /\ dialErrors' = dialErrors + 1
    /\ active' = [active EXCEPT ![k] = unreachable'[k] # attempts]
    /\ UNCHANGED <<now, lock, listener, updater, watchers, crashed, heard>>

\* A goroutine other than the searcher is about to read or write the map.
AtMap ==
    /\ lock = Free
    /\ \/ listener.pc \in {"lookup", "mark"}
       \/ updater # NoNeighbor
       \/ \E w \in DOMAIN watchers : watchers[w].pc \in {"top", "relock", "declare"}

\* checkNeighbors writes to the map while another goroutine is in it: the
\* runtime may notice, and then ends the process.
Fatal ==
    /\ AtMap
    /\ crashed' = TRUE
    /\ UNCHANGED <<now, lock, active, unreachable, listener, updater, watchers, dialErrors, heard>>

\* The listener and a goroutine that waits for it meet at a channel.
AtChannel ==
    \/ listener.pc = "hand" /\ Waiting(listener.from) # {}
    \/ listener.pc = "match" /\ updater = NoNeighbor

\* A goroutine that can run does so at once: nobody is about to enter the map
\* or to meet at a channel, and no timer is overdue, when the clock moves on.
Tick ==
    /\ now < MaxTime
    /\ ~ AtMap /\ ~ AtChannel
    /\ \A w \in DOMAIN watchers : watchers[w].pc = "select" => now < watchers[w].deadline
    /\ now' = now + 1
    /\ UNCHANGED <<lock, active, unreachable, listener, updater, watchers, dialErrors, crashed, heard>>

Listen ==
    \/ \E k \in Neighbor, about \in Neighbor \cup {NoNeighbor} : Receive(k, about)
    \/ \E k \in Joiner : AcceptResponse(k)
    \/ LookUp
    \/ \E w \in DOMAIN watchers : Hand(w)
    \/ Mark
    \/ Match

RunWatcher(w) == Watch(w) \/ Expire(w) \/ Declare(w) \/ Reactivate(w)

Next ==
    /\ ~ crashed
    /\ \/ Listen
       \/ Record
       \/ \E w \in DOMAIN watchers : RunWatcher(w)
       \/ \E k \in Neighbor : CheckNeighbor(k)
       \/ Fatal
       \/ Tick

Spec == Init /\ [][Next]_vars

(***************************************************************************)
(* Fairness: every goroutine that can run does, and the searcher comes     *)
(* round to every neighbour.                                               *)
(***************************************************************************)
Fairness ==
    /\ WF_vars(~ crashed /\ (LookUp \/ Mark \/ Match \/ \E w \in DOMAIN watchers : Hand(w)))
    /\ WF_vars(~ crashed /\ Record)
    /\ \A w \in 1 .. MaxResponses + 1 : WF_vars(~ crashed /\ w \in DOMAIN watchers /\ RunWatcher(w))
    /\ \A k \in Neighbor : WF_vars(~ crashed /\ CheckNeighbor(k))

FairSpec == Spec /\ Fairness

-----------------------------------------------------------------------------
(***************************************************************************)
(* Properties.                                                             *)
(***************************************************************************)

\* Every variable has its type, and a monitored neighbour has been given a
\* watcher.
TypeOK ==
    /\ now \in Nat
    /\ lock \in {Free} \cup DOMAIN watchers
    /\ DOMAIN active \subseteq Neighbor
    /\ active \in [DOMAIN active -> BOOLEAN]
    /\ unreachable \in [Neighbor -> 0 .. attempts]
    /\ listener \in [pc : {"read", "lookup", "hand", "mark", "match"},
                     from : Neighbor \cup {NoNeighbor},
                     about : Neighbor \cup {NoNeighbor}]
    /\ updater \in Neighbor \cup {NoNeighbor}
    /\ watchers \in Seq([of : DOMAIN active,
                         pc : {"top", "select", "relock", "declare", "done", "stuck"},
                         c : 0 .. attempts,
                         deadline : Nat])
    /\ dialErrors \in Nat
    /\ crashed \in BOOLEAN
    /\ heard \in [Neighbor -> Nat]
    /\ \A k \in DOMAIN active : \E w \in DOMAIN watchers : watchers[w].of = k

GivesUp(w) == w \in DOMAIN watchers /\ watchers[w].pc = "declare" /\ watchers'[w].pc = "done"

Silence(k) == now - heard[k]

Alone(w) == \A v \in DOMAIN watchers : watchers[v].of = watchers[w].of => v = w

\* The only watcher a neighbour has gives up on it only after two full
\* timeouts without one of its packets.  (identifyInactiveNodes)
LoneWatcherIsPatient ==
    [][\A w \in DOMAIN watchers :
          GivesUp(w) /\ Alone(w) => Silence(watchers[w].of) >= attempts * Timeout]_vars

AllActive == \A k \in DOMAIN active : active[k]

\* As long as every neighbour stays active, no order of locks and hand-overs
\* keeps the listener from the socket for good.
ListenerReturns ==
    [](AllActive /\ ~ crashed) => []<>(listener = Idle)

-----------------------------------------------------------------------------
(***************************************************************************)
(* What the report says, and the code does not do.                         *)
(***************************************************************************)

\* The report's rule on failed and departed nodes: a neighbour is considered
\* inactive after a period without a packet from it.
InactiveOnlyAfterSilence ==
    [][\A w \in DOMAIN watchers :
          GivesUp(w) => Silence(watchers[w].of) >= attempts * Timeout]_vars

\* The report's rule on registrations: a node that leaves and comes back can
\* use its registration until it expires.  Its packets are looked at: the
\* listener does not stop at one of them.
ReturningIsServed ==
    [](~ crashed) => \A k \in Neighbor :
        (listener.pc = "lookup" /\ listener.from = k) ~> listener.from # k
=============================================================================
