------------------------ MODULE NeighborMonitorProofs ------------------------
(***************************************************************************)
(* Proofs about NeighborMonitor, for any set of neighbours, any timeout    *)
(* and any value of the bounds.                                            *)
(***************************************************************************)
EXTENDS NeighborMonitor, TLAPS, SequenceTheorems

Pc == {"top", "select", "relock", "declare", "done", "stuck"}

\* How many timeouts in a row a watcher has counted, by where it is.
CountFits(w) ==
    /\ w.pc \in {"top", "select", "stuck"} => w.c \in 0 .. attempts - 1
    /\ w.pc = "relock" => w.c = 0
    /\ w.pc \in {"declare", "done"} => w.c = attempts

\* The types with what they rest on: a watcher's count is below the limit until it
\* gives up.
Counted == TypeOK /\ \A w \in DOMAIN watchers : CountFits(watchers[w])

\* Watcher r, whose neighbour was last heard at h, has counted c timeouts only
\* after as long a silence, and waits for one more.
Waited(r, h, t) ==
    /\ r.pc \in {"top", "declare"} => t - h >= r.c * Timeout
    /\ r.pc = "select" => r.deadline - h >= r.c * Timeout + Timeout

Patient(w) == Waited(watchers[w], heard[watchers[w].of], now)

\* A packet heard was heard no later than now, and the only watcher a neighbour
\* has is patient.
PatientInv ==
    /\ \A k \in Neighbor : heard[k] <= now
    /\ \A w \in DOMAIN watchers : Alone(w) => Patient(w)

-----------------------------------------------------------------------------
(***************************************************************************)
(* Types.                                                                  *)
(***************************************************************************)

WatcherType(keys) == [of : keys, pc : Pc, c : 0 .. attempts, deadline : Nat]

ListenerType == [pc : {"read", "lookup", "hand", "mark", "match"},
                 from : Neighbor \cup {NoNeighbor},
                 about : Neighbor \cup {NoNeighbor}]

\* The types of a state, by name.
LEMMA Types ==
    ASSUME Counted
    PROVE  /\ now \in Nat /\ lock \in {Free} \cup DOMAIN watchers
           /\ DOMAIN active \subseteq Neighbor /\ active \in [DOMAIN active -> BOOLEAN]
           /\ unreachable \in [Neighbor -> 0 .. attempts]
           /\ listener \in ListenerType /\ updater \in Neighbor \cup {NoNeighbor}
           /\ watchers \in Seq(WatcherType(DOMAIN active))
           /\ dialErrors \in Nat /\ crashed \in BOOLEAN /\ heard \in [Neighbor -> Nat]
           /\ \A k \in DOMAIN active : \E w \in DOMAIN watchers : watchers[w].of = k
           /\ \A w \in DOMAIN watchers : CountFits(watchers[w])
BY DEF Counted, TypeOK, ListenerType, WatcherType, Pc

\* A state with those types.
LEMMA TypesSuffice ==
    ASSUME now \in Nat, lock \in {Free} \cup DOMAIN watchers,
           DOMAIN active \subseteq Neighbor, active \in [DOMAIN active -> BOOLEAN],
           unreachable \in [Neighbor -> 0 .. attempts],
           listener \in ListenerType, updater \in Neighbor \cup {NoNeighbor},
           watchers \in Seq(WatcherType(DOMAIN active)),
           dialErrors \in Nat, crashed \in BOOLEAN, heard \in [Neighbor -> Nat],
           \A k \in DOMAIN active : \E w \in DOMAIN watchers : watchers[w].of = k,
           \A w \in DOMAIN watchers : CountFits(watchers[w])
    PROVE  Counted
BY DEF Counted, TypeOK, ListenerType, WatcherType, Pc

\* A watcher of a monitored neighbour is still one when more are monitored.
LEMMA WatchersGrow ==
    ASSUME NEW S, NEW T, S \subseteq T, NEW ws \in Seq(WatcherType(S))
    PROVE  /\ ws \in Seq(WatcherType(T))
           /\ DOMAIN ws = 1 .. Len(ws) /\ Len(ws) \in Nat
           /\ \A w \in DOMAIN ws : ws[w] \in WatcherType(S)
<1>1. WatcherType(S) \subseteq WatcherType(T)
  BY DEF WatcherType
<1>2. DOMAIN ws = 1 .. Len(ws) /\ Len(ws) \in Nat
  OBVIOUS
<1>3. \A w \in DOMAIN ws : ws[w] \in WatcherType(S)
  BY ElementOfSeq
<1>4. ws \in [1 .. Len(ws) -> WatcherType(S)]
  OBVIOUS
<1>5. ws \in [1 .. Len(ws) -> WatcherType(T)]
  BY <1>1, <1>4
<1>6. ws \in Seq(WatcherType(T))
  BY <1>2, <1>5, IsASeq
<1> QED BY <1>2, <1>3, <1>6

\* The fields of a watcher.
LEMMA WatcherFields ==
    ASSUME NEW S, NEW r \in WatcherType(S)
    PROVE  r.of \in S /\ r.pc \in Pc /\ r.c \in 0 .. attempts /\ r.deadline \in Nat
BY DEF WatcherType

\* A watcher that has moved.
LEMMA WatcherGoes ==
    ASSUME NEW S, NEW r \in WatcherType(S), NEW p \in Pc
    PROVE  LET x == [r EXCEPT !.pc = p]
           IN  x \in WatcherType(S) /\ x.of = r.of /\ x.pc = p /\ x.c = r.c /\ x.deadline = r.deadline
BY DEF WatcherType

\* A step of one watcher keeps the watchers' types.
LEMMA WatcherMoves ==
    ASSUME Counted, NEW w \in DOMAIN watchers, NEW x,
           x \in WatcherType(DOMAIN active), CountFits(x), x.of = watchers[w].of,
           watchers' = [watchers EXCEPT ![w] = x],
           DOMAIN active' = DOMAIN active
    PROVE  /\ watchers' \in Seq(WatcherType(DOMAIN active'))
           /\ DOMAIN watchers' = DOMAIN watchers
           /\ \A v \in DOMAIN watchers' : CountFits(watchers'[v])
           /\ \A v \in DOMAIN watchers' : watchers'[v].of = watchers[v].of
<1>1. watchers \in Seq(WatcherType(DOMAIN active))
  BY Types
<1>2. DOMAIN watchers = 1 .. Len(watchers) /\ Len(watchers) \in Nat
  BY <1>1
<1>3. watchers \in [1 .. Len(watchers) -> WatcherType(DOMAIN active)]
  BY <1>1
<1>4. watchers' \in [1 .. Len(watchers) -> WatcherType(DOMAIN active)]
  BY <1>2, <1>3
<1>5. watchers' \in Seq(WatcherType(DOMAIN active))
  <2> DEFINE T == WatcherType(DOMAIN active)
             n == Len(watchers)
             ws == watchers'
  <2>1. n \in Nat /\ ws \in [1 .. n -> T]
    BY <1>2, <1>4
  <2> HIDE DEF T, n, ws
  <2>2. ws \in Seq(T)
    BY <2>1, IsASeq
  <2> QED BY <2>2 DEF T, ws
<1>6. \A v \in DOMAIN watchers : CountFits(watchers[v])
  BY Types
<1>7. \A v \in DOMAIN watchers' : watchers'[v] = IF v = w THEN x ELSE watchers[v]
  OBVIOUS
<1>8. \A v \in DOMAIN watchers' : CountFits(watchers'[v])
  BY <1>6, <1>7
<1>9. \A v \in DOMAIN watchers' : watchers'[v].of = watchers[v].of
  BY <1>7
<1> QED BY <1>5, <1>8, <1>9

\* The initial state.
LEMMA CountedInit == Init => Counted
<1> SUFFICES ASSUME Init PROVE Counted
  OBVIOUS
<1>1. First \in Neighbor
  BY NeighborAssumption
<1> DEFINE x == Watcher(First)
<1>2. x \in WatcherType({First}) /\ CountFits(x) /\ x.of = First
  BY DEF Watcher, WatcherType, Pc, CountFits, attempts
<1>3. watchers = <<x>>
  BY DEF Init
<1> HIDE DEF x
<1>4. watchers \in Seq(WatcherType({First})) /\ DOMAIN watchers = {1} /\ watchers[1] = x
  BY <1>2, <1>3
<1>5. DOMAIN active = {First} /\ active \in [{First} -> BOOLEAN]
  BY DEF Init
<1>6. listener \in ListenerType
  BY DEF Init, Idle, ListenerType
<1>7. unreachable \in [Neighbor -> 0 .. attempts]
  BY DEF Init, attempts
<1>8. /\ now \in Nat /\ lock \in {Free} \cup DOMAIN watchers /\ heard \in [Neighbor -> Nat]
      /\ updater \in Neighbor \cup {NoNeighbor} /\ dialErrors \in Nat /\ crashed \in BOOLEAN
  BY DEF Init
<1>9. /\ \A k \in DOMAIN active : \E w \in DOMAIN watchers : watchers[w].of = k
      /\ \A w \in DOMAIN watchers : CountFits(watchers[w])
  BY <1>2, <1>4, <1>5
<1>10. DOMAIN active \subseteq Neighbor
  BY <1>1, <1>5
<1>11. /\ active \in [DOMAIN active -> BOOLEAN]
       /\ watchers \in Seq(WatcherType(DOMAIN active))
  BY <1>4, <1>5
<1> QED
  BY <1>6, <1>7, <1>8, <1>9, <1>10, <1>11, TypesSuffice

\* A step that leaves the watchers and the monitored neighbours as they are.
LEMMA CountedKept ==
    ASSUME Counted, UNCHANGED watchers, DOMAIN active' = DOMAIN active,
           active' \in [DOMAIN active -> BOOLEAN],
           now' \in Nat, lock' \in {Free} \cup DOMAIN watchers,
           unreachable' \in [Neighbor -> 0 .. attempts],
           listener' \in ListenerType, updater' \in Neighbor \cup {NoNeighbor},
           dialErrors' \in Nat, crashed' \in BOOLEAN, heard' \in [Neighbor -> Nat]
    PROVE  Counted'
BY DEF Counted, TypeOK, ListenerType

\* A step of one watcher.
LEMMA CountedMoves ==
    ASSUME Counted, NEW w \in DOMAIN watchers, NEW x,
           x \in WatcherType(DOMAIN active), CountFits(x), x.of = watchers[w].of,
           watchers' = [watchers EXCEPT ![w] = x],
           DOMAIN active' = DOMAIN active, active' \in [DOMAIN active -> BOOLEAN],
           lock' \in {Free} \cup DOMAIN watchers,
           listener' \in ListenerType, heard' \in [Neighbor -> Nat],
           UNCHANGED <<now, unreachable, updater, dialErrors, crashed>>
    PROVE  Counted'
<1>1. /\ watchers' \in Seq(WatcherType(DOMAIN active'))
      /\ DOMAIN watchers' = DOMAIN watchers
      /\ \A v \in DOMAIN watchers' : CountFits(watchers'[v])
      /\ \A v \in DOMAIN watchers' : watchers'[v].of = watchers[v].of
  BY WatcherMoves
<1>2. /\ now' \in Nat /\ unreachable' \in [Neighbor -> 0 .. attempts]
      /\ updater' \in Neighbor \cup {NoNeighbor} /\ dialErrors' \in Nat /\ crashed' \in BOOLEAN
  BY Types
<1>3. DOMAIN active' \subseteq Neighbor /\ active' \in [DOMAIN active' -> BOOLEAN]
  BY Types
<1>4. \A k \in DOMAIN active' : \E v \in DOMAIN watchers' : watchers'[v].of = k
  BY Types, <1>1
<1>5. lock' \in {Free} \cup DOMAIN watchers'
  BY <1>1
<1> QED BY <1>1, <1>2, <1>3, <1>4, <1>5 DEF Counted, TypeOK, WatcherType, Pc, ListenerType

\* Every step keeps the types and the counts.
LEMMA CountedNext == Counted /\ [Next]_vars => Counted'
<1> SUFFICES ASSUME Counted, [Next]_vars PROVE Counted'
  OBVIOUS
<1>0. /\ now \in Nat /\ lock \in {Free} \cup DOMAIN watchers
      /\ DOMAIN active \subseteq Neighbor /\ active \in [DOMAIN active -> BOOLEAN]
      /\ unreachable \in [Neighbor -> 0 .. attempts]
      /\ listener \in ListenerType /\ updater \in Neighbor \cup {NoNeighbor}
      /\ dialErrors \in Nat /\ crashed \in BOOLEAN /\ heard \in [Neighbor -> Nat]
  BY Types
<1>w. \A w \in DOMAIN watchers : /\ watchers[w] \in WatcherType(DOMAIN active)
                                 /\ CountFits(watchers[w])
  BY Types, WatchersGrow
<1>l. /\ Idle \in ListenerType
      /\ \A p \in {"hand", "mark"} : [listener EXCEPT !.pc = p] \in ListenerType
      /\ \A k \in Neighbor : \A about \in Neighbor \cup {NoNeighbor} :
            [pc |-> "lookup", from |-> k, about |-> about] \in ListenerType
      /\ \A k \in Neighbor : [Idle EXCEPT !.pc = "match", !.from = k] \in ListenerType
      /\ listener.from \in Neighbor \cup {NoNeighbor}
  BY <1>0 DEF Idle, ListenerType
<1>1. ASSUME NEW k \in Neighbor, NEW about \in Neighbor \cup {NoNeighbor}, Receive(k, about)
      PROVE  Counted'
  BY <1>0, <1>l, <1>1, CountedKept DEF Receive
<1>2. ASSUME NEW k \in Joiner, AcceptResponse(k) PROVE Counted'
  BY <1>0, <1>l, <1>2, NeighborAssumption, CountedKept DEF AcceptResponse
<1>3. CASE LookUp
  <2>1. listener' \in ListenerType
    BY <1>l, <1>3 DEF LookUp
  <2>2. UNCHANGED <<now, lock, active, unreachable, updater, watchers, dialErrors, crashed, heard>>
    BY <1>3 DEF LookUp
  <2> QED BY <1>0, <2>1, <2>2, CountedKept
<1>30. CASE Match
  BY <1>0, <1>l, <1>30, CountedKept DEF Match
<1>4. ASSUME NEW w \in DOMAIN watchers, Hand(w) PROVE Counted'
  <2> DEFINE x == Hears(watchers[w])
  <2>1. x \in WatcherType(DOMAIN active) /\ x.of = watchers[w].of /\ x.pc = "relock" /\ x.c = 0
    <3> DEFINE n == 0
               p == "relock"
    <3>1. p \in Pc /\ n \in 0 .. attempts
      BY DEF Pc, attempts
    <3>2. x = [watchers[w] EXCEPT !.pc = p, !.c = n]
      BY DEF Hears
    <3> HIDE DEF x, n, p
    <3>3. x \in WatcherType(DOMAIN active) /\ x.of = watchers[w].of /\ x.pc = p /\ x.c = n
      BY <1>w, <3>1, <3>2 DEF WatcherType
    <3> QED BY <3>3 DEF n, p
  <2>2. /\ watchers' = [watchers EXCEPT ![w] = x]
        /\ UNCHANGED <<now, lock, active, unreachable, updater, dialErrors, crashed>>
    BY <1>4 DEF Hand
  <2>3. heard' \in [Neighbor -> Nat]
    BY <1>0, <1>4 DEF Hand
  <2>4. listener' \in ListenerType
    BY <1>l, <1>4 DEF Hand
  <2> HIDE DEF x
  <2>5. CountFits(x)
    BY <2>1 DEF CountFits
  <2> QED BY <1>0, <2>1, <2>2, <2>3, <2>4, <2>5, CountedMoves
<1>5. CASE Mark
  <2>1. DOMAIN active' = DOMAIN active /\ active' \in [DOMAIN active -> BOOLEAN]
    BY <1>0, <1>5 DEF Mark
  <2> QED BY <1>0, <1>l, <1>5, <2>1, CountedKept DEF Mark
<1>6. CASE Record
  <2> DEFINE x == Watcher(updater)
             S == DOMAIN active \cup {updater}
  <2>1. updater \in Neighbor /\ S \subseteq Neighbor
    BY <1>0, <1>6 DEF Record
  <2>2. x \in WatcherType(S) /\ CountFits(x) /\ x.of = updater
    BY DEF Watcher, WatcherType, Pc, CountFits, attempts
  <2>3. /\ watchers' = Append(watchers, x)
        /\ updater' = NoNeighbor
        /\ UNCHANGED <<now, lock, unreachable, listener, dialErrors, crashed, heard>>
    BY <1>6 DEF Record
  <2>4. DOMAIN active' = S /\ active' \in [S -> BOOLEAN]
    BY <1>0, <1>6 DEF Record
  <2> HIDE DEF x
  <2>5. watchers \in Seq(WatcherType(S)) /\ Len(watchers) \in Nat /\ DOMAIN watchers = 1 .. Len(watchers)
    BY Types, WatchersGrow
  <2>6. /\ watchers' \in Seq(WatcherType(S))
        /\ DOMAIN watchers' = DOMAIN watchers \cup {Len(watchers) + 1}
        /\ \A w \in DOMAIN watchers : watchers'[w] = watchers[w]
        /\ watchers'[Len(watchers) + 1] = x
    <3> DEFINE T == WatcherType(S)
    <3>1. x \in T /\ watchers \in Seq(T)
      BY <2>2, <2>5
    <3> HIDE DEF T
    <3>2. /\ watchers' \in Seq(T)
          /\ Len(watchers') = Len(watchers) + 1
          /\ \A w \in 1 .. Len(watchers) : watchers'[w] = watchers[w]
          /\ watchers'[Len(watchers) + 1] = x
      BY <2>3, <3>1
    <3>3. DOMAIN watchers' = 1 .. Len(watchers) + 1
      BY <3>2
    <3> QED BY <2>5, <3>2, <3>3 DEF T
  <2>7. \A w \in DOMAIN watchers' : CountFits(watchers'[w])
    BY <1>w, <2>2, <2>6
  <2>8. \A k \in S : \E w \in DOMAIN watchers' : watchers'[w].of = k
    BY Types, <2>2, <2>6
  <2>9. lock' \in {Free} \cup DOMAIN watchers'
    BY <1>0, <2>3, <2>6
  <2>10. /\ now' \in Nat /\ unreachable' \in [Neighbor -> 0 .. attempts]
         /\ listener' \in ListenerType /\ updater' \in Neighbor \cup {NoNeighbor}
         /\ dialErrors' \in Nat /\ crashed' \in BOOLEAN /\ heard' \in [Neighbor -> Nat]
    BY <1>0, <2>3
  <2> HIDE DEF S
  <2> QED
    BY <2>1, <2>4, <2>6, <2>7, <2>8, <2>9, <2>10
    DEF Counted, TypeOK, WatcherType, Pc, ListenerType
<1>7. ASSUME NEW w \in DOMAIN watchers, Watch(w) PROVE Counted'
  <2>1. UNCHANGED <<now, active, unreachable, listener, updater, dialErrors, crashed, heard>>
    BY <1>7 DEF Watch
  <2>2. watchers[w].pc = "top" /\ CountFits(watchers[w])
    BY <1>w, <1>7 DEF Watch
  <2>3. CASE active[watchers[w].of]
    <3> DEFINE x == [watchers[w] EXCEPT !.pc = "select", !.deadline = now + Timeout]
    <3>1. /\ x \in WatcherType(DOMAIN active) /\ x.of = watchers[w].of
          /\ x.pc = "select" /\ x.c = watchers[w].c
      <4> DEFINE d == now + Timeout
                 p == "select"
      <4>1. p \in Pc /\ d \in Nat
        BY <1>0, TimeoutAssumption DEF Pc
      <4>2. x = [watchers[w] EXCEPT !.pc = p, !.deadline = d]
        OBVIOUS
      <4> HIDE DEF x, d, p
      <4>3. /\ x \in WatcherType(DOMAIN active) /\ x.of = watchers[w].of
            /\ x.pc = p /\ x.c = watchers[w].c
        BY <1>w, <4>1, <4>2 DEF WatcherType
      <4> QED BY <4>3 DEF p
    <3>2. watchers' = [watchers EXCEPT ![w] = x] /\ UNCHANGED lock
      BY <1>7, <2>3 DEF Watch
    <3> HIDE DEF x
    <3>3. CountFits(x)
      BY <2>2, <3>1 DEF CountFits
    <3> QED BY <1>0, <2>1, <3>1, <3>2, <3>3, CountedMoves
  <2>4. CASE ~ active[watchers[w].of]
    <3> DEFINE x == [watchers[w] EXCEPT !.pc = "stuck"]
    <3>1. /\ x \in WatcherType(DOMAIN active) /\ x.of = watchers[w].of
          /\ x.pc = "stuck" /\ x.c = watchers[w].c
      <4>1. "stuck" \in Pc
        BY DEF Pc
      <4> QED BY <1>w, <4>1, WatcherGoes
    <3>2. watchers' = [watchers EXCEPT ![w] = x] /\ lock' = w
      BY <1>7, <2>4 DEF Watch
    <3> HIDE DEF x
    <3>3. CountFits(x)
      BY <2>2, <3>1 DEF CountFits
    <3> QED BY <1>0, <2>1, <3>1, <3>2, <3>3, CountedMoves
  <2> QED BY <2>3, <2>4
<1>8. ASSUME NEW w \in DOMAIN watchers, Expire(w) PROVE Counted'
  <2> DEFINE n == watchers[w].c + 1
             p == IF n = attempts THEN "declare" ELSE "top"
             x == [watchers[w] EXCEPT !.c = n, !.pc = p]
  <2>1. watchers[w].pc = "select" /\ CountFits(watchers[w])
    BY <1>w, <1>8 DEF Expire
  <2>2. watchers[w].c \in 0 .. attempts - 1
    BY <2>1 DEF CountFits
  <2>3. n \in 0 .. attempts /\ p \in Pc
    BY <2>2 DEF attempts, Pc
  <2>4. /\ watchers' = [watchers EXCEPT ![w] = x]
        /\ UNCHANGED <<now, lock, active, unreachable, listener, updater, dialErrors, crashed, heard>>
    BY <1>8 DEF Expire
  <2>5. p = IF n = attempts THEN "declare" ELSE "top"
    OBVIOUS
  <2> HIDE DEF n, p
  <2>7. x \in WatcherType(DOMAIN active) /\ x.of = watchers[w].of /\ x.pc = p /\ x.c = n
    BY <1>w, <2>3 DEF WatcherType
  <2> HIDE DEF x
  <2>8. CountFits(x)
    BY <2>3, <2>5, <2>7 DEF CountFits, attempts
  <2> QED BY <1>0, <2>4, <2>7, <2>8, CountedMoves
<1>9. ASSUME NEW w \in DOMAIN watchers, Declare(w) PROVE Counted'
  <2> DEFINE x == [watchers[w] EXCEPT !.pc = "done"]
  <2>1. /\ x \in WatcherType(DOMAIN active) /\ x.of = watchers[w].of
        /\ x.pc = "done" /\ x.c = watchers[w].c
    <3>1. "done" \in Pc
      BY DEF Pc
    <3> QED BY <1>w, <3>1, WatcherGoes
  <2>2. /\ watchers' = [watchers EXCEPT ![w] = x]
        /\ UNCHANGED <<now, lock, unreachable, listener, updater, dialErrors, crashed, heard>>
    BY <1>9 DEF Declare
  <2>3. DOMAIN active' = DOMAIN active /\ active' \in [DOMAIN active -> BOOLEAN]
    BY <1>0, <1>9 DEF Declare
  <2> HIDE DEF x
  <2>4. CountFits(x)
    BY <1>w, <1>9, <2>1 DEF CountFits, Declare
  <2> QED BY <1>0, <2>1, <2>2, <2>3, <2>4, CountedMoves
<1>10. ASSUME NEW w \in DOMAIN watchers, Reactivate(w) PROVE Counted'
  <2> DEFINE x == [watchers[w] EXCEPT !.pc = "top"]
  <2>1. /\ x \in WatcherType(DOMAIN active) /\ x.of = watchers[w].of
        /\ x.pc = "top" /\ x.c = watchers[w].c
    <3>1. "top" \in Pc
      BY DEF Pc
    <3> QED BY <1>w, <3>1, WatcherGoes
  <2>2. /\ watchers' = [watchers EXCEPT ![w] = x]
        /\ UNCHANGED <<now, lock, unreachable, listener, updater, dialErrors, crashed, heard>>
    BY <1>10 DEF Reactivate
  <2>3. DOMAIN active' = DOMAIN active /\ active' \in [DOMAIN active -> BOOLEAN]
    BY <1>0, <1>10 DEF Reactivate
  <2> HIDE DEF x
  <2>4. CountFits(x)
    BY <1>w, <1>10, <2>1 DEF CountFits, Reactivate, attempts
  <2> QED BY <1>0, <2>1, <2>2, <2>3, <2>4, CountedMoves
<1>11. ASSUME NEW k \in Neighbor, CheckNeighbor(k) PROVE Counted'
  <2>1. unreachable[k] \in 0 .. attempts
    BY <1>0
  <2>2. unreachable' \in [Neighbor -> 0 .. attempts] /\ dialErrors' \in Nat
    <3>1. CASE unreachable' = [unreachable EXCEPT ![k] = IF @ < attempts THEN 0 ELSE @] /\ UNCHANGED dialErrors
      <4>1. (IF unreachable[k] < attempts THEN 0 ELSE unreachable[k]) \in 0 .. attempts
        BY <2>1 DEF attempts
      <4> QED BY <1>0, <3>1, <4>1
    <3>2. CASE /\ unreachable[k] < attempts
               /\ unreachable' = [unreachable EXCEPT ![k] = @ + 1]
               /\ dialErrors' = dialErrors + 1
      <4>1. unreachable[k] + 1 \in 0 .. attempts
        BY <2>1, <3>2 DEF attempts
      <4>2. dialErrors' \in Nat
        BY <1>0, <3>2
      <4> QED BY <1>0, <3>2, <4>1, <4>2
    <3> QED BY <1>11, <3>1, <3>2 DEF CheckNeighbor
  <2>3. DOMAIN active' = DOMAIN active /\ active' \in [DOMAIN active -> BOOLEAN]
    BY <1>0, <1>11 DEF CheckNeighbor
  <2>4. UNCHANGED <<now, lock, listener, updater, watchers, crashed, heard>>
    BY <1>11 DEF CheckNeighbor
  <2> QED BY <1>0, <2>2, <2>3, <2>4, CountedKept
<1>12. CASE Fatal \/ Tick \/ UNCHANGED vars
  <2>1. now' = now \/ now' = now + 1
    BY <1>12 DEF Fatal, Tick, vars
  <2>3. now' \in Nat
    BY <1>0, <2>1
  <2>4. crashed' \in BOOLEAN
    <3>1. crashed' = crashed \/ crashed' = TRUE
      BY <1>12 DEF Fatal, Tick, vars
    <3> QED BY <1>0, <3>1
  <2>2. UNCHANGED <<lock, active, unreachable, listener, updater, watchers, dialErrors, heard>>
    BY <1>12 DEF Fatal, Tick, vars
  <2> QED BY <1>0, <2>2, <2>3, <2>4, CountedKept
<1> QED
  BY <1>1, <1>2, <1>3, <1>4, <1>5, <1>6, <1>7, <1>8, <1>9, <1>10, <1>11, <1>12, <1>30
  DEF Next, Listen, RunWatcher

\* Every variable keeps its type, every monitored neighbour has a watcher, and no
\* watcher counts past the limit.  (identifyInactiveNodes, updateMapWithMatches)
THEOREM MonitorTypeCorrect == Spec => []TypeOK
<1>1. Counted => TypeOK
  BY DEF Counted
<1> QED BY <1>1, CountedInit, CountedNext, PTL DEF Spec

\* The counts, for the proofs that need them.
LEMMA CountedCorrect == Spec => []Counted
BY CountedInit, CountedNext, PTL DEF Spec

-----------------------------------------------------------------------------
(***************************************************************************)
(* Patience.                                                               *)
(***************************************************************************)

\* What holds of the watchers of a state, with its types.
LEMMA WatchersTyped ==
    ASSUME Counted
    PROVE  /\ now \in Nat /\ heard \in [Neighbor -> Nat]
           /\ \A k \in Neighbor : heard[k] \in Nat
           /\ \A w \in DOMAIN watchers :
                 /\ watchers[w].of \in Neighbor /\ watchers[w].deadline \in Nat
                 /\ watchers[w].c \in 0 .. attempts /\ CountFits(watchers[w])
<1>1. /\ now \in Nat /\ heard \in [Neighbor -> Nat] /\ DOMAIN active \subseteq Neighbor
      /\ \A w \in DOMAIN watchers : CountFits(watchers[w])
  BY Types
<1>2. \A w \in DOMAIN watchers : watchers[w] \in WatcherType(DOMAIN active)
  BY Types, WatchersGrow
<1> QED BY <1>1, <1>2, WatcherFields

\* As time goes by a watcher stays patient.
LEMMA WaitedLater ==
    ASSUME NEW r, r.c \in Nat, NEW h \in Nat, NEW t \in Nat, NEW u \in Nat, t <= u,
           Waited(r, h, t)
    PROVE  Waited(r, h, u)
<1> DEFINE m == r.c * Timeout
<1>1. m \in Nat
  BY TimeoutAssumption
<1>2. /\ r.pc \in {"top", "declare"} => t - h >= m
      /\ r.pc = "select" => r.deadline - h >= m + Timeout
  BY DEF Waited
<1> HIDE DEF m
<1>3. t - h >= m => u - h >= m
  BY <1>1
<1>4. /\ r.pc \in {"top", "declare"} => u - h >= m
      /\ r.pc = "select" => r.deadline - h >= m + Timeout
  BY <1>2, <1>3
<1> QED BY <1>4 DEF Waited, m

\* A watcher that starts to wait has counted as before.
LEMMA WaitedSelect ==
    ASSUME NEW r, NEW x, r.c \in Nat, NEW h \in Nat, NEW t \in Nat,
           r.pc = "top", Waited(r, h, t),
           x.pc = "select", x.c = r.c, x.deadline = t + Timeout
    PROVE  Waited(x, h, t)
<1> DEFINE m == r.c * Timeout
<1>1. m \in Nat /\ Timeout \in Nat
  BY TimeoutAssumption
<1>2. t - h >= m
  BY DEF Waited
<1> HIDE DEF m
<1>3. (t + Timeout) - h >= m + Timeout
  BY <1>1, <1>2
<1> QED BY <1>3 DEF Waited, m

\* A watcher that counts a timeout has waited for it.
LEMMA WaitedExpire ==
    ASSUME NEW r, NEW x, r.c \in 0 .. attempts - 1, r.deadline \in Nat,
           NEW h \in Nat, NEW t \in Nat,
           r.pc = "select", Waited(r, h, t), t >= r.deadline,
           x.pc \in {"top", "declare"}, x.c = r.c + 1
    PROVE  Waited(x, h, t)
<1> DEFINE m == r.c * Timeout
           d == r.deadline
<1>1. m \in Nat /\ Timeout \in Nat
  BY TimeoutAssumption DEF attempts
<1>2. x.c * Timeout = m + Timeout
  <2>1. r.c = 0 \/ r.c = 1
    BY DEF attempts
  <2>2. CASE r.c = 0
    BY <1>1, <2>2
  <2>3. CASE r.c = 1
    BY <1>1, <2>3
  <2> QED BY <2>1, <2>2, <2>3
<1>3. d - h >= m + Timeout
  BY DEF Waited
<1>4. d \in Nat /\ t >= d
  OBVIOUS
<1> HIDE DEF m, d
<1>5. t - h >= m + Timeout
  BY <1>1, <1>3, <1>4
<1>6. t - h >= x.c * Timeout
  BY <1>2, <1>5
<1> QED BY <1>6 DEF Waited

\* A watcher that has counted nothing is patient at the head of its loop.
LEMMA WaitedFresh ==
    ASSUME NEW x, x.pc = "top", x.c = 0, NEW h \in Nat, NEW t \in Nat, h <= t
    PROVE  Waited(x, h, t)
<1>1. x.c * Timeout = 0
  BY TimeoutAssumption
<1>2. t - h >= 0
  OBVIOUS
<1> QED BY <1>1, <1>2 DEF Waited

\* The initial state.
LEMMA PatientInit == Init => PatientInv
<1> SUFFICES ASSUME Init PROVE PatientInv
  OBVIOUS
<1>1. First \in Neighbor
  BY NeighborAssumption
<1>2. now = 0 /\ \A k \in Neighbor : heard[k] = 0
  BY DEF Init
<1> DEFINE x == Watcher(First)
<1>3. x.of = First /\ x.pc = "top" /\ x.c = 0
  BY DEF Watcher
<1>4. watchers = <<x>>
  BY DEF Init
<1> HIDE DEF x
<1>5. \A w \in DOMAIN watchers : watchers[w] = x
  BY <1>4
<1>6. Waited(x, 0, 0)
  BY <1>3, WaitedFresh
<1>7. \A w \in DOMAIN watchers : Patient(w)
  BY <1>1, <1>2, <1>3, <1>5, <1>6 DEF Patient
<1> QED BY <1>2, <1>7 DEF PatientInv

\* A step that leaves the watchers alone, and lets no packet through.
LEMMA PatientKept ==
    ASSUME Counted, PatientInv, UNCHANGED <<watchers, heard>>, now' \in Nat, now <= now'
    PROVE  PatientInv'
<1>1. \A k \in Neighbor : heard'[k] <= now'
  BY WatchersTyped DEF PatientInv
<1>2. ASSUME NEW w \in DOMAIN watchers', Alone(w)' PROVE Patient(w)'
  <2>1. w \in DOMAIN watchers /\ Alone(w)
    BY <1>2 DEF Alone
  <2>2. Waited(watchers[w], heard[watchers[w].of], now)
    BY <2>1 DEF PatientInv, Patient
  <2>3. /\ now \in Nat /\ heard[watchers[w].of] \in Nat /\ watchers[w].c \in Nat
    BY <2>1, WatchersTyped DEF attempts
  <2>4. Waited(watchers[w], heard[watchers[w].of], now')
    BY <2>2, <2>3, WaitedLater
  <2> QED BY <2>4 DEF Patient
<1> QED BY <1>1, <1>2 DEF PatientInv

\* A step of one watcher that stays patient.
LEMMA PatientMoves ==
    ASSUME Counted, PatientInv, NEW w \in DOMAIN watchers, NEW x, x.of = watchers[w].of,
           watchers' = [watchers EXCEPT ![w] = x], UNCHANGED <<now, heard>>,
           Alone(w) => Waited(x, heard[x.of], now)
    PROVE  PatientInv'
<1>1. DOMAIN watchers' = DOMAIN watchers
  OBVIOUS
<1>2. \A v \in DOMAIN watchers : watchers'[v] = IF v = w THEN x ELSE watchers[v]
  OBVIOUS
<1>3. \A v \in DOMAIN watchers : watchers'[v].of = watchers[v].of
  BY <1>2
<1>4. ASSUME NEW v \in DOMAIN watchers', Alone(v)' PROVE Patient(v)'
  <2>1. Alone(v)
    BY <1>1, <1>3, <1>4 DEF Alone
  <2>2. CASE v = w
    BY <1>2, <2>1, <2>2 DEF Patient
  <2>3. CASE v # w
    BY <1>1, <1>2, <2>1, <2>3 DEF Patient, PatientInv
  <2> QED BY <2>2, <2>3
<1> QED BY <1>4 DEF PatientInv

\* Every step keeps the lone watchers patient: a packet that is let through is
\* taken by a watcher of its sender, so by the only one there is; a new watcher has
\* counted nothing.
LEMMA PatientNext == Counted /\ PatientInv /\ [Next]_vars => PatientInv'
<1> SUFFICES ASSUME Counted, PatientInv, [Next]_vars PROVE PatientInv'
  OBVIOUS
<1>0. /\ now \in Nat /\ heard \in [Neighbor -> Nat]
      /\ \A k \in Neighbor : heard[k] \in Nat /\ heard[k] <= now
      /\ \A w \in DOMAIN watchers :
            /\ watchers[w].of \in Neighbor /\ watchers[w].deadline \in Nat
            /\ watchers[w].c \in Nat /\ CountFits(watchers[w])
            /\ Alone(w) => Waited(watchers[w], heard[watchers[w].of], now)
  BY WatchersTyped DEF PatientInv, Patient, attempts
<1>1. CASE UNCHANGED <<watchers, heard, now>>
  BY <1>0, <1>1, PatientKept
<1>2. CASE Tick
  <2>1. now' = now + 1 /\ UNCHANGED <<watchers, heard>>
    BY <1>2 DEF Tick
  <2>2. now' \in Nat /\ now <= now'
    BY <1>0, <2>1
  <2> QED BY <2>1, <2>2, PatientKept
<1>3. ASSUME NEW w \in DOMAIN watchers, Hand(w) PROVE PatientInv'
  <2> DEFINE k == listener.from
             x == Hears(watchers[w])
  <2>1. watchers[w].of = k /\ k \in Neighbor
    BY <1>0, <1>3 DEF Hand, Waiting
  <2>2. /\ watchers' = [watchers EXCEPT ![w] = x] /\ heard' = [heard EXCEPT ![k] = now]
        /\ now' = now
    BY <1>3 DEF Hand
  <2>3. x.of = watchers[w].of /\ x.pc = "relock"
    <3>1. watchers[w] \in WatcherType(DOMAIN active)
      BY Types, WatchersGrow
    <3> QED BY <3>1 DEF Hears, WatcherType
  <2> HIDE DEF k, x
  <2>4. \A j \in Neighbor : heard'[j] = IF j = k THEN now ELSE heard[j]
    BY <1>0, <2>2
  <2>5. \A j \in Neighbor : heard'[j] <= now'
    BY <1>0, <2>2, <2>4
  <2>6. DOMAIN watchers' = DOMAIN watchers
    BY <2>2
  <2>7. \A v \in DOMAIN watchers : watchers'[v] = IF v = w THEN x ELSE watchers[v]
    BY <2>2
  <2>8. \A v \in DOMAIN watchers : watchers'[v].of = watchers[v].of
    BY <2>3, <2>7
  <2>9. ASSUME NEW v \in DOMAIN watchers', Alone(v)' PROVE Patient(v)'
    <3>1. v \in DOMAIN watchers /\ Alone(v)
      BY <2>6, <2>8, <2>9 DEF Alone
    <3>2. CASE v = w
      <4>1. watchers'[v].pc = "relock"
        BY <2>3, <2>7, <3>1, <3>2
      <4> QED BY <4>1 DEF Patient, Waited
    <3>3. CASE v # w
      <4>1. watchers[v].of # k
        BY <2>1, <3>1, <3>3 DEF Alone
      <4>2. watchers'[v] = watchers[v] /\ heard'[watchers[v].of] = heard[watchers[v].of]
        BY <1>0, <2>4, <2>7, <3>1, <3>3, <4>1
      <4>3. Waited(watchers[v], heard[watchers[v].of], now)
        BY <1>0, <3>1
      <4> QED BY <2>2, <4>2, <4>3 DEF Patient
    <3> QED BY <3>2, <3>3
  <2> QED BY <2>5, <2>9 DEF PatientInv
<1>4. CASE Record
  <2> DEFINE x == Watcher(updater)
             n == Len(watchers)
  <2>1. updater \in Neighbor
    BY Types, <1>4 DEF Record
  <2>2. watchers' = Append(watchers, x) /\ UNCHANGED <<now, heard>>
    BY <1>4 DEF Record
  <2>3. x.of = updater /\ x.pc = "top" /\ x.c = 0
    BY DEF Watcher
  <2>4. n \in Nat /\ DOMAIN watchers = 1 .. n /\ watchers \in Seq(WatcherType(DOMAIN active))
    BY Types, WatchersGrow
  <2> HIDE DEF x
  <2>5. /\ DOMAIN watchers' = 1 .. n + 1
        /\ watchers'[n + 1] = x
        /\ \A w \in DOMAIN watchers : watchers'[w] = watchers[w] /\ w \in DOMAIN watchers'
    BY <2>2, <2>4
  <2>6. ASSUME NEW v \in DOMAIN watchers', Alone(v)' PROVE Patient(v)'
    <3>1. CASE v = n + 1
      <4>1. heard[updater] \in Nat /\ heard[updater] <= now
        BY <1>0, <2>1
      <4>2. Waited(x, heard[updater], now)
        BY <1>0, <2>3, <4>1, WaitedFresh
      <4> QED BY <2>2, <2>3, <2>5, <3>1, <4>2 DEF Patient
    <3>2. CASE v \in DOMAIN watchers
      <4>1. Alone(v)
        BY <2>5, <2>6, <3>2 DEF Alone
      <4>2. Waited(watchers[v], heard[watchers[v].of], now)
        BY <1>0, <3>2, <4>1
      <4> QED BY <2>2, <2>5, <3>2, <4>2 DEF Patient
    <3> QED BY <2>4, <2>5, <3>1, <3>2
  <2> QED BY <1>0, <2>2, <2>6 DEF PatientInv
<1>5. ASSUME NEW w \in DOMAIN watchers, RunWatcher(w) PROVE PatientInv'
  <2> DEFINE r == watchers[w]
             h == heard[r.of]
  <2>0. /\ r.of \in Neighbor /\ r.deadline \in Nat /\ r.c \in Nat /\ CountFits(r)
        /\ h \in Nat /\ h <= now
    BY <1>0
  <2>1. UNCHANGED <<now, heard>>
    BY <1>5 DEF RunWatcher, Watch, Expire, Declare, Reactivate
  <2>2. r \in WatcherType(DOMAIN active)
    BY Types, WatchersGrow
  <2>3. Alone(w) => Waited(r, h, now)
    BY <1>0
  <2>4. CASE Watch(w) /\ active[r.of]
    <3> DEFINE x == [r EXCEPT !.pc = "select", !.deadline = now + Timeout]
    <3>1. watchers' = [watchers EXCEPT ![w] = x] /\ r.pc = "top"
      BY <2>4 DEF Watch
    <3>2. x.of = r.of /\ x.pc = "select" /\ x.c = r.c /\ x.deadline = now + Timeout
      BY <2>2 DEF WatcherType
    <3> HIDE DEF x
    <3>3. Alone(w) => Waited(x, h, now)
      <4> HIDE DEF r, h
      <4> QED BY <1>0, <2>0, <2>3, <3>1, <3>2, WaitedSelect
    <3> QED BY <2>1, <3>1, <3>2, <3>3, PatientMoves
  <2>5. CASE Watch(w) /\ ~ active[r.of]
    <3> DEFINE x == [r EXCEPT !.pc = "stuck"]
    <3>1. watchers' = [watchers EXCEPT ![w] = x]
      BY <2>5 DEF Watch
    <3>2. x.of = r.of /\ x.pc = "stuck"
      BY <2>2 DEF WatcherType
    <3> HIDE DEF x
    <3>3. Waited(x, heard[x.of], now)
      BY <3>2 DEF Waited
    <3> QED BY <2>1, <3>1, <3>2, <3>3, PatientMoves
  <2>6. CASE Expire(w)
    <3> DEFINE p == IF r.c + 1 = attempts THEN "declare" ELSE "top"
               x == [r EXCEPT !.c = r.c + 1, !.pc = p]
    <3>1. /\ watchers' = [watchers EXCEPT ![w] = x] /\ r.pc = "select" /\ now >= r.deadline
      BY <2>6 DEF Expire
    <3>2. p \in {"top", "declare"}
      OBVIOUS
    <3> HIDE DEF p
    <3>3. x.of = r.of /\ x.pc = p /\ x.c = r.c + 1
      BY <2>2 DEF WatcherType
    <3>4. r.c \in 0 .. attempts - 1
      BY <2>0, <3>1 DEF CountFits
    <3> HIDE DEF x
    <3>5. Alone(w) => Waited(x, h, now)
      <4> HIDE DEF r, h
      <4> QED BY <1>0, <2>0, <2>3, <3>1, <3>2, <3>3, <3>4, WaitedExpire
    <3> QED BY <2>1, <3>1, <3>3, <3>5, PatientMoves
  <2>7. CASE Declare(w)
    <3> DEFINE x == [r EXCEPT !.pc = "done"]
    <3>1. watchers' = [watchers EXCEPT ![w] = x]
      BY <2>7 DEF Declare
    <3>2. x.of = r.of /\ x.pc = "done"
      BY <2>2 DEF WatcherType
    <3> HIDE DEF x
    <3>3. Waited(x, heard[x.of], now)
      BY <3>2 DEF Waited
    <3> QED BY <2>1, <3>1, <3>2, <3>3, PatientMoves
  <2>8. CASE Reactivate(w)
    <3> DEFINE x == [r EXCEPT !.pc = "top"]
    <3>1. watchers' = [watchers EXCEPT ![w] = x] /\ r.c = 0
      BY <2>0, <2>8 DEF Reactivate, CountFits
    <3>2. x.of = r.of /\ x.pc = "top" /\ x.c = r.c
      BY <2>2 DEF WatcherType
    <3> HIDE DEF x
    <3>3. Waited(x, h, now)
      <4> HIDE DEF r, h
      <4> QED BY <1>0, <2>0, <3>1, <3>2, WaitedFresh
    <3> QED BY <2>1, <3>1, <3>2, <3>3, PatientMoves
  <2> QED BY <1>5, <2>4, <2>5, <2>6, <2>7, <2>8 DEF RunWatcher
<1>6. ASSUME NEW k \in Neighbor, NEW about, Receive(k, about) PROVE PatientInv'
  BY <1>1, <1>6 DEF Receive
<1>7. ASSUME NEW k, AcceptResponse(k) PROVE PatientInv'
  BY <1>1, <1>7 DEF AcceptResponse
<1>8. CASE LookUp \/ Mark \/ Match
  BY <1>1, <1>8 DEF LookUp, Mark, Match
<1>9. ASSUME NEW k, CheckNeighbor(k) PROVE PatientInv'
  BY <1>1, <1>9 DEF CheckNeighbor
<1>10. CASE Fatal \/ UNCHANGED vars
  BY <1>1, <1>10 DEF Fatal, vars
<1> QED
  BY <1>2, <1>3, <1>4, <1>5, <1>6, <1>7, <1>8, <1>9, <1>10 DEF Next, Listen

\* The only watcher a neighbour has declares it inactive only after two full
\* timeouts without a packet of it, whatever the other goroutines do meanwhile.
\* (identifyInactiveNodes)
THEOREM LoneWatchersArePatient == Spec => LoneWatcherIsPatient
<1> DEFINE Step == \A w \in DOMAIN watchers :
                      GivesUp(w) /\ Alone(w) => Silence(watchers[w].of) >= attempts * Timeout
<1>1. Counted /\ PatientInv => Step
  <2> SUFFICES ASSUME Counted, PatientInv, NEW w \in DOMAIN watchers, GivesUp(w), Alone(w)
               PROVE  Silence(watchers[w].of) >= attempts * Timeout
    OBVIOUS
  <2>1. watchers[w].pc = "declare"
    BY DEF GivesUp
  <2>2. watchers[w].c = attempts
    BY <2>1, WatchersTyped DEF CountFits
  <2>3. now - heard[watchers[w].of] >= watchers[w].c * Timeout
    BY <2>1 DEF PatientInv, Patient, Waited
  <2> QED BY <2>2, <2>3 DEF Silence
<1>2. Counted /\ PatientInv /\ [Next]_vars => [Step]_vars
  BY <1>1
<1>3. Spec => []PatientInv
  BY CountedInit, CountedNext, PatientInit, PatientNext, PTL DEF Spec
<1>4. Spec => [][Step]_vars
  BY CountedCorrect, <1>2, <1>3, PTL DEF Spec
<1> QED BY <1>4 DEF LoneWatcherIsPatient
=============================================================================
