----------------------------- MODULE FileSearch -----------------------------
(***************************************************************************)
(* Searching for files by keywords (code/filehandler.go): a search asks    *)
(* its peers every second with twice the budget, until two files are found *)
(* or the budget is used up; each node that is asked takes one unit of the *)
(* budget and splits the rest over its other peers.                        *)
(*                                                                         *)
(* The listener that adds a result, the goroutine of the search and the    *)
(* web page that waits for both meet at one unbuffered channel, which all  *)
(* searches of a node share.  A client on the command line starts a search *)
(* and receives from no channel.  A reply is one packet here (Forwarding). *)
(***************************************************************************)
EXTENDS Integers, FiniteSets, Sequences, SequencesExt

CONSTANTS
    Node,
    Peers,      \* of each node: state.gossipers at first
    Routes,     \* of each node: the keys of state.nextHops
    Shared,     \* of each node: the files it has, by name, as the hash of the
                \* metafile and the indices of the chunks
    Search,     \* the searches clients start
    Asked,      \* of each search: node, keywords, the names that contain one,
                \* budget, and whether a web page asks
    MaxBudget,
    MaxFaults   \* bound on the packets lost or delivered twice

ASSUME BudgetAssumption == \A s \in Search : Asked[s].budget \in Nat \ {0}

\* The -peers flag lists no address twice.
ASSUME PeersAssumption ==
    /\ Peers \in [Node -> Seq(Node)]
    /\ \A n \in Node : IsInjective(Peers[n])

ASSUME AskedAssumption == \A s \in Search : Asked[s].node \in Node

VARIABLES
    gossipers,       \* the peers each node knows
    searchReceived,  \* the <<origin, keywords>> seen since the last half second
    search,          \* the results of a node: hash and locations, by name
    budget,          \* the budget of each search's next round
    stage,           \* of each search: "idle", "ticking", "completed" or "over"
    pages,           \* the web searches whose handler waits at the channel
    adding,          \* the results the listener has yet to add, and from whom
    offering,        \* the nodes whose listener waits at the channel
    crashed,
    net, faults,
    owed             \* of each search: the budget it gave out and nobody used

vars == <<gossipers, searchReceived, search, budget, stage, pages, adding, offering,
          crashed, net, faults, owed>>

At(s) == Asked[s].node

SRequest(s, src, dst, b) == [type |-> "SRequest", search |-> s, src |-> src, dst |-> dst, budget |-> b]
SReply(src, dst, results) == [type |-> "SReply", src |-> src, dst |-> dst, results |-> results]

Init ==
    /\ gossipers = Peers
    /\ searchReceived = [n \in Node |-> {}]
    /\ search = [n \in Node |-> <<>>]
    /\ budget = [s \in Search |-> Asked[s].budget]
    /\ stage = [s \in Search |-> "idle"]
    /\ pages = {}
    /\ adding = [n \in Node |-> {}]
    /\ offering = {}
    /\ crashed = {}
    /\ net = EmptyBag /\ faults = 0
    /\ owed = [s \in Search |-> 0]

-----------------------------------------------------------------------------
\* Mutant: the remainder is not given to anyone.
SplitEvenly(b, k) ==
    IF k >= b THEN [i \in 1 .. b |-> 1] ELSE [i \in 1 .. k |-> b \div k]

\* Mutant: every peer gets a share, if only of nothing.
SplitAmongAll(b, k) == [i \in 1 .. k |-> b \div k + IF i <= b % k THEN 1 ELSE 0]

\* splitBudget, for k peers.
SplitBudget(b, k) ==
    IF k >= b THEN [i \in 1 .. b |-> 1]
    ELSE [i \in 1 .. k |-> b \div k + IF i <= b % k THEN 1 ELSE 0]

\* The division by zero.
Panics(b, peers) == peers = <<>> /\ b > 0

Requests(s, n, b, peers) ==
    LET budgets == SplitBudget(b, Len(peers))
    IN  SetToBag({SRequest(s, n, peers[i], budgets[i]) : i \in DOMAIN budgets})

\* What findMatches finds, among the files whose name contains a keyword.
FindMatches(n, s) ==
    {[name |-> f, meta |-> Shared[n][f].meta, chunkMap |-> Shared[n][f].chunks] :
        f \in DOMAIN Shared[n] \cap Asked[s].matching}

-----------------------------------------------------------------------------
(***************************************************************************)
(* The searches of a node.                                                 *)
(***************************************************************************)

\* Mutant: a search that is in progress keeps others from starting.
FirstStageIfAlone(s) ==
    IF \E q \in Search : At(q) = At(s) /\ stage[q] = "ticking" THEN "over" ELSE "ticking"

\* The test of searchInProgress never fails, since nothing sets it.
FirstStage(s) == "ticking"

\* startFileSearch and, for a page, the start of searchFilesHandler.
StartFileSearch(s) ==
    /\ stage[s] = "idle" /\ At(s) \notin crashed
    /\ stage' = [stage EXCEPT ![s] = FirstStage(s)]
    /\ search' = [search EXCEPT ![At(s)] = <<>>]
    /\ pages' = IF Asked[s].web THEN pages \cup {s} ELSE pages
    /\ UNCHANGED <<gossipers, searchReceived, budget, adding, offering, crashed, net,
                   faults, owed>>

\* Another round is due.
Unfinished(s) == budget[s] <= MaxBudget /\ Cardinality(DOMAIN search[At(s)]) < 2

\* A tick of the search's goroutine.
Tick(s) ==
    LET n == At(s)
        b == budget[s]
    IN  /\ stage[s] = "ticking" /\ n \notin crashed
        /\ IF ~ Unfinished(s)
           THEN /\ stage' = [stage EXCEPT ![s] = "completed"]
                /\ UNCHANGED <<budget, crashed, net, owed>>
           ELSE IF Panics(b, gossipers[n])
           THEN crashed' = crashed \cup {n} /\ UNCHANGED <<stage, budget, net, owed>>
           ELSE /\ net' = net (+) Requests(s, n, b, gossipers[n])
                /\ budget' = [budget EXCEPT ![s] = 2 * @]
                /\ owed' = [owed EXCEPT ![s] = @ + b]
                /\ UNCHANGED <<stage, crashed>>
        /\ UNCHANGED <<gossipers, searchReceived, search, pages, adding, offering, faults>>

\* The loop of searchFilesHandler receives a match, or that a search, its own or
\* another of the node, is completed.
ReceiveMatch(p) ==
    LET n == At(p)
    IN  /\ p \in pages /\ n \notin crashed
        /\ n \in offering
        /\ offering' = offering \ {n}
        /\ UNCHANGED <<gossipers, searchReceived, search, budget, stage, pages, adding,
                       crashed, net, faults, owed>>

ReceiveCompleted(p, s) ==
    /\ p \in pages /\ At(p) \notin crashed
    /\ stage[s] = "completed" /\ At(s) = At(p)
    /\ stage' = [stage EXCEPT ![s] = "over"]
    /\ pages' = pages \ {p}
    /\ UNCHANGED <<gossipers, searchReceived, search, budget, adding, offering, crashed,
                   net, faults, owed>>

-----------------------------------------------------------------------------
(***************************************************************************)
(* The listener.                                                           *)
(***************************************************************************)

Listening(n) == n \notin crashed /\ n \notin offering /\ adding[n] = {}

\* m is taken from the net, or will come again.
Consume(m, again) ==
    /\ again => faults < MaxFaults
    /\ faults' = IF again THEN faults + 1 ELSE faults

Sent(m, again, out) == net' = (IF again THEN net ELSE net (-) SetToBag({m})) (+) out

\* The budget of s that is used up; a request that will come again is budget anew.
Use(m, again, used) ==
    owed' = [owed EXCEPT ![m.search] = @ - used + IF again THEN m.budget ELSE 0]

\* listenPeers: a sender that was not known is a peer from now on.
AddPeer(n, p) == IF p \in ToSet(gossipers[n]) THEN gossipers[n] ELSE Append(gossipers[n], p)

\* A request of its own that comes back, or one seen within half a second, is dropped.
IsDropped(m) ==
    \/ At(m.search) = m.dst
    \/ <<At(m.search), Asked[m.search].keywords>> \in searchReceived[m.dst]

DropSearchRequest(m, again) ==
    /\ m.type = "SRequest" /\ Listening(m.dst)
    /\ IsDropped(m)
    /\ Consume(m, again) /\ Sent(m, again, EmptyBag) /\ Use(m, again, m.budget)
    /\ gossipers' = [gossipers EXCEPT ![m.dst] = AddPeer(m.dst, m.src)]
    /\ UNCHANGED <<searchReceived, search, budget, stage, pages, adding, offering, crashed>>

\* handleSearchRequest: forwarded to the other peers first, then answered.
HandleSearchRequest(m, again) ==
    LET n == m.dst
        origin == At(m.search)
        otherPeers == RemoveFirst(gossipers'[n], m.src)
        results == FindMatches(n, m.search)
        reply == IF results # {} /\ origin \in Routes[n]
                 THEN SetToBag({SReply(n, origin, results)}) ELSE EmptyBag
    IN  /\ m.type = "SRequest" /\ Listening(n)
        /\ ~ IsDropped(m)
        /\ Consume(m, again)
        /\ gossipers' = [gossipers EXCEPT ![n] = AddPeer(n, m.src)]
        /\ searchReceived' = [searchReceived EXCEPT ![n] =
                                 @ \cup {<<origin, Asked[m.search].keywords>>}]
        /\ IF Panics(m.budget - 1, otherPeers)
           THEN /\ crashed' = crashed \cup {n}
                /\ Sent(m, again, EmptyBag) /\ Use(m, again, m.budget)
           ELSE /\ Sent(m, again, Requests(m.search, n, m.budget - 1, otherPeers) (+) reply)
                /\ Use(m, again, 1)
                /\ UNCHANGED crashed
        /\ UNCHANGED <<search, budget, stage, pages, adding, offering>>

\* The last node on the reply's way may be one that was not known.
HandleSearchReply(m, again) ==
    /\ m.type = "SReply" /\ Listening(m.dst)
    /\ \E p \in Node \ {m.dst} : gossipers' = [gossipers EXCEPT ![m.dst] = AddPeer(m.dst, p)]
    /\ Consume(m, again) /\ Sent(m, again, EmptyBag)
    /\ adding' = [adding EXCEPT ![m.dst] = {[result |-> r, from |-> m.src] : r \in m.results}]
    /\ UNCHANGED <<searchReceived, search, budget, stage, pages, offering, crashed, owed>>

\* Mutant: results for another file of the same name are added.
MergeByName(n, r, from) ==
    [search[n] EXCEPT ![r.name].locations =
        [i \in DOMAIN @ \cup r.chunkMap |->
            (IF i \in DOMAIN @ THEN @[i] ELSE {}) \cup IF i \in r.chunkMap THEN {from} ELSE {}]]

\* A known file's result adds locations, if its metafile is the same.
Merge(n, r, from) ==
    IF r.meta = search[n][r.name].meta THEN MergeByName(n, r, from) ELSE search[n]

\* A new file, with the chunks of the result at its sender.
Found(r, from) == [meta |-> r.meta, locations |-> [i \in r.chunkMap |-> {from}]]

\* The results of n with one more file.
With(n, name, found) ==
    [k \in DOMAIN search[n] \cup {name} |-> IF k = name THEN found ELSE search[n][k]]

\* addSearchResult, one result of the reply after the other: one for a new file
\* waits at the channel.
AddSearchResult(n) ==
    /\ n \notin crashed /\ n \notin offering
    /\ \E a \in adding[n] :
          LET r == a.result
              new == r.name \notin DOMAIN search[n]
          IN  /\ search' = [search EXCEPT ![n] =
                               IF new THEN With(n, r.name, Found(r, a.from)) ELSE Merge(n, r, a.from)]
              /\ offering' = IF new THEN offering \cup {n} ELSE offering
              /\ adding' = [adding EXCEPT ![n] = @ \ {a}]
    /\ UNCHANGED <<gossipers, searchReceived, budget, stage, pages, crashed, net, faults, owed>>

\* removeSearches, every half second.
RemoveSearches(n) ==
    /\ n \notin crashed /\ searchReceived[n] # {}
    /\ searchReceived' = [searchReceived EXCEPT ![n] = {}]
    /\ UNCHANGED <<gossipers, search, budget, stage, pages, adding, offering, crashed, net,
                   faults, owed>>

-----------------------------------------------------------------------------
Lose(m) ==
    /\ faults < MaxFaults
    /\ faults' = faults + 1
    /\ net' = net (-) SetToBag({m})
    /\ owed' = IF m.type = "SRequest" THEN [owed EXCEPT ![m.search] = @ - m.budget] ELSE owed
    /\ UNCHANGED <<gossipers, searchReceived, search, budget, stage, pages, adding, offering,
                   crashed>>

Deliver(m) ==
    \E again \in BOOLEAN :
        \/ DropSearchRequest(m, again)
        \/ HandleSearchRequest(m, again)
        \/ HandleSearchReply(m, again)

Next ==
    \/ \E s \in Search : StartFileSearch(s) \/ Tick(s)
    \/ \E p \in pages : ReceiveMatch(p) \/ \E s \in Search : ReceiveCompleted(p, s)
    \/ \E n \in Node : AddSearchResult(n) \/ RemoveSearches(n)
    \/ \E m \in BagToSet(net) : Deliver(m) \/ Lose(m)

Spec == Init /\ [][Next]_vars

\* Searches tick, and pages receive what is offered.
Fairness ==
    \A s \in Search : /\ WF_vars(Tick(s))
                      /\ WF_vars(\E p \in pages : ReceiveCompleted(p, s))

FairSpec == Spec /\ Fairness

-----------------------------------------------------------------------------
(***************************************************************************)
(* Properties.                                                             *)
(***************************************************************************)

\* Every variable has its type, no request is sent with nothing to spend, and only web
\* searches that have been started have a page waiting.
TypeOK ==
    /\ \A n \in Node : ToSet(gossipers[n]) \subseteq Node
    /\ budget \in [Search -> Nat]
    /\ stage \in [Search -> {"idle", "ticking", "completed", "over"}]
    /\ pages \subseteq {s \in Search : Asked[s].web /\ stage[s] # "idle"}
    /\ offering \subseteq Node /\ crashed \subseteq Node
    /\ \A m \in BagToSet(net) : m.type = "SRequest" => m.budget > 0
    /\ owed \in [Search -> Nat]

\* The units of the budget of s in a bag of packets, each by its packet, its
\* number there and the copy.
Units(bag, s) ==
    UNION {{<<m, i, j>> : i \in 1 .. m.budget, j \in 1 .. bag[m]} :
              m \in {q \in BagToSet(bag) : q.type = "SRequest" /\ q.search = s}}

\* No unit of a search's budget is lost or made up, over however many nodes it
\* is split and in however many rounds at once: what was given out and is not
\* used is under way.  (splitBudget, forwardSearchRequest)
BudgetConserved == \A s \in Search : owed[s] = Cardinality(Units(net, s))

\* Every location of a chunk is a node that has it, of the very file found: a
\* file of that name with other content, or a search started over, does not mix
\* in.  (addSearchResult)
ResultsAreHeld ==
    \A n \in Node : \A f \in DOMAIN search[n] :
        \A i \in DOMAIN search[n][f].locations : \A p \in search[n][f].locations[i] :
            /\ f \in DOMAIN Shared[p]
            /\ Shared[p][f].meta = search[n][f].meta
            /\ i \in Shared[p][f].chunks

\* The handler of every page that searches returns, if with the results of another
\* search, whatever is lost, however many searches share the channel, and even when
\* the listener is stuck there.  (searchFilesHandler)
PagesReturn ==
    \A s \in Search : s \in pages ~> s \notin pages \/ At(s) \in crashed
=============================================================================
