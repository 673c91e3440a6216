---------------------------- MODULE FileTransfer ----------------------------
(***************************************************************************)
(* Sharing and downloading files (code/filehandler.go): the metafile, then *)
(* one chunk after the other is requested by hash, and requested again     *)
(* after five seconds.                                                     *)
(*                                                                         *)
(* A download is a goroutine of its node, the wait of each timer another,  *)
(* and the replies come to the node's listener; the three meet in the      *)
(* pending request of a peer.  A request or reply that is forwarded on its *)
(* way (Forwarding) is one packet here.                                    *)
(*                                                                         *)
(* SHA-256 is a random oracle: the hash of data is the data.  A chunk is a *)
(* value, and a metafile, the hashes of the chunks, the sequence of them.  *)
(***************************************************************************)
EXTENDS Integers, FiniteSets, Sequences, SequencesExt

CONSTANTS
    Node,
    Chunk,
    Disk,        \* the files each node's client shares: names and chunks
    Download,    \* the downloads clients start
    Wanted,      \* of each download: node, file name, hash of the metafile, and
                 \* the peers to ask for it (0) and for each chunk (1, 2, ...)
    KnownRoutes, \* the <<node, peer>> that have a next hop from the start
    LaterRoutes, \* those that come to have one
    MaxLost,     \* bound on the packets lost
    MaxRaces     \* bound on the races for a pending request, packets delivered
                 \* twice included

Data == Chunk \cup Seq(Chunk)

ASSUME ChunkAssumption == Chunk \cap Seq(Chunk) = {}

ASSUME DiskAssumption == \A n \in Node : \A name \in DOMAIN Disk[n] : Disk[n][name] \in Seq(Chunk)

\* A client may ask for any hash.
ASSUME WantedAssumption ==
    \A d \in Download :
        Wanted[d].node \in Node /\ Wanted[d].meta \in Data /\ Range(Wanted[d].from) \subseteq Node

VARIABLES
    files,    \* state.files
    routes,   \* the peers that are keys of state.nextHops
    pending,  \* state.downloads.Pendings: the download and part, by peer
    calling,  \* the sendDataRequests that have sent and not yet set pending
    timers,   \* the parts of downloads with a running timer
    queue,    \* the channel of each download
    stage,    \* of each download: "idle", "busy", "done" or "astray"
    part,     \* the part a busy download waits for: 0, the metafile, or a chunk
    hashes,   \* of each download: the metafile it split
    matched,  \* the reply the listener has matched and not yet passed on, if any, and
              \* what was pending when it did
    saved,    \* the files in _Downloads
    crashed,
    net, lost,
    races     \* of each node: the races for its pending requests so far

vars == <<files, routes, pending, calling, timers, queue, stage, part, hashes,
          matched, saved, crashed, net, lost, races>>

DataRequest(n, p, name, h) == [type |-> "DRequest", src |-> n, dst |-> p, name |-> name, hash |-> h]
DataReply(n, p, name, h, d) ==
    [type |-> "DReply", src |-> n, dst |-> p, name |-> name, hash |-> h, data |-> d]

At(d) == Wanted[d].node

Init ==
    /\ files = [n \in Node |-> <<>>]
    /\ routes = [n \in Node |-> {p \in Node : <<n, p>> \in KnownRoutes}]
    /\ pending = [n \in Node |-> <<>>]
    /\ calling = {}
    /\ timers = {}
    /\ queue = [d \in Download |-> <<>>]
    /\ stage = [d \in Download |-> "idle"]
    /\ part = [d \in Download |-> 0]
    /\ hashes = [d \in Download |-> <<>>]
    /\ matched = [n \in Node |-> {}]
    /\ saved = [n \in Node |-> <<>>]
    /\ crashed = {}
    /\ net = {} /\ lost = 0
    /\ races = [n \in Node |-> 0]

\* The map f with x at key k.
With(f, k, x) == [j \in DOMAIN f \cup {k} |-> IF j = k THEN x ELSE f[j]]

HashOf(d, i) == IF i = 0 THEN Wanted[d].meta ELSE hashes[d][i]

Count(n, happens) == races' = IF happens THEN [races EXCEPT ![n] = @ + 1] ELSE races

\* At the price of a race.
Race(n, happens) ==
    /\ happens => SumFunction(races) < MaxRaces
    /\ Count(n, happens)

-----------------------------------------------------------------------------
(***************************************************************************)
(* Files.                                                                  *)
(***************************************************************************)

\* addFile: a file shared before, or partly downloaded, is replaced.
AddFile(n, name) ==
    /\ n \notin crashed
    /\ LET chunks == Disk[n][name]
           file == [metafile |-> chunks, metaHash |-> chunks, chunks |-> [c \in ToSet(chunks) |-> c]]
       IN  /\ name \in DOMAIN files[n] => files[n][name] # file
           /\ files' = [files EXCEPT ![n] = With(@, name, file)]
    /\ UNCHANGED <<routes, pending, calling, timers, queue, stage, part, hashes,
                   matched, saved, crashed, net, lost, races>>

\* What getData returns, as a set of at most one.
GetData(n, name, h) ==
    IF name \notin DOMAIN files[n] THEN {}
    ELSE LET file == files[n][name]
         IN  IF file.metaHash = h THEN {file.metafile}
             ELSE {file.chunks[k] : k \in DOMAIN file.chunks \cap {h}}

\* storeData: the first data of an unknown file is its metafile, any other a chunk.
StoreData(n, name, h, data) ==
    With(files[n], name,
         IF name \in DOMAIN files[n]
         THEN [files[n][name] EXCEPT !.chunks = With(@, h, data)]
         ELSE [metafile |-> data, metaHash |-> h, chunks |-> <<>>])

\* The data storeFile writes: chunks that are missing are skipped.
Content(file) ==
    LET kept == {i \in DOMAIN file.metafile : file.metafile[i] \in DOMAIN file.chunks}
        Nth(j) == CHOOSE i \in kept : Cardinality(kept \cap 1 .. i) = j
    IN  [j \in 1 .. Cardinality(kept) |-> file.chunks[file.metafile[Nth(j)]]]

-----------------------------------------------------------------------------
(***************************************************************************)
(* Requests.                                                               *)
(***************************************************************************)

\* The first half of sendDataRequest, by the download itself or by a timer
\* (again): without a next hop it does nothing, and no timer is started.
SendDataRequest(d, i, again) ==
    LET p == Wanted[d].from[i]
        h == IF i = 0 THEN Wanted[d].meta ELSE hashes'[d][i]
    IN  IF p \in routes[At(d)]
        THEN /\ net' = net \cup {DataRequest(At(d), p, Wanted[d].name, h)}
             /\ calling' = calling \cup {[download |-> d, part |-> i, again |-> again]}
        ELSE UNCHANGED <<net, calling>>


\* A timer is started for every request, the repeated ones as well.
StartTimer(c) == timers \cup {<<c.download, c.part>>}

\* The listener has matched another request of that peer, and not yet passed the
\* data on.
Overtakes(c) ==
    \E k \in matched[At(c.download)] :
        /\ k.reply.src = Wanted[c.download].from[c.part]
        /\ k.for # <<c.download, c.part>>

\* Its second half: the pending request of the peer is overwritten.
SetPending(c) ==
    LET d == c.download
    IN  /\ At(d) \notin crashed
        /\ Overtakes(c) => SumFunction(races) < MaxRaces
        /\ calling' = calling \ {c}
        /\ timers' = StartTimer(c)
        /\ pending' = [pending EXCEPT ![At(d)] = With(@, Wanted[d].from[c.part], <<d, c.part>>)]
        /\ UNCHANGED <<files, routes, queue, stage, part, hashes, matched, saved,
                       crashed, net, lost, races>>

\* A request of d to the peer of its part i, or an answer to one, is on its way.
UnderWay(d, i) ==
    \E m \in net \cup {k.reply : k \in matched[At(d)]} :
        /\ \E j \in 0 .. Len(hashes[d]) : m.hash = HashOf(d, j)
        /\ {m.src, m.dst} = {At(d), Wanted[d].from[i]}

Timeout(d, i) ==
    /\ At(d) \notin crashed
    /\ <<d, i>> \in timers
    /\ Race(At(d), UnderWay(d, i))
    /\ timers' = timers \ {<<d, i>>}
    /\ UNCHANGED hashes
    /\ SendDataRequest(d, i, TRUE)
    /\ UNCHANGED <<files, routes, pending, queue, stage, part, matched, saved,
                   crashed, lost>>

\* possiblePeers[0], or the first location of a chunk, when the search has
\* found none: the index is out of range.
NobodyToAsk(d, i) == i \notin DOMAIN Wanted[d].from

\* download, and downloadGUI: the request for the metafile.
StartDownload(d) ==
    /\ stage[d] = "idle" /\ At(d) \notin crashed
    /\ stage' = [stage EXCEPT ![d] = "busy"]
    /\ IF NobodyToAsk(d, 0)
       THEN crashed' = crashed \cup {At(d)} /\ UNCHANGED <<hashes, net, calling>>
       ELSE /\ UNCHANGED <<crashed, hashes>>
            /\ SendDataRequest(d, 0, FALSE)
    /\ UNCHANGED <<files, routes, pending, timers, queue, part, matched, saved, lost, races>>

\* Mutant: the loop goes on for one more chunk.
NoneLeftButOne(d, i) == i > Len(hashes'[d]) + 1

NoneLeft(d, i) == i > Len(hashes'[d])

\* The rest of the loop's body, and what comes after the loop.
Proceed(d, i) ==
    /\ part' = [part EXCEPT ![d] = i]
    /\ IF NoneLeft(d, i)
       THEN /\ stage' = [stage EXCEPT ![d] = "done"]
            /\ saved' = [saved EXCEPT ![At(d)] =
                           With(@, Wanted[d].name, Content(files'[At(d)][Wanted[d].name]))]
            /\ UNCHANGED <<crashed, net, calling>>
       ELSE /\ UNCHANGED <<stage, saved>>
            /\ IF NobodyToAsk(d, i)
               THEN crashed' = crashed \cup {At(d)} /\ UNCHANGED <<net, calling>>
               ELSE UNCHANGED crashed /\ SendDataRequest(d, i, FALSE)

\* splitMetafile of what is no metafile panics, or makes up hashes nobody has.
GoAstray(d) ==
    /\ stage' = [stage EXCEPT ![d] = "astray"]
    /\ crashed' \in {crashed, crashed \cup {At(d)}}
    /\ UNCHANGED <<part, hashes, saved, net, calling>>

\* The download takes the next data from its channel, stores it, and goes on.
TakeData(d) ==
    LET n == At(d)
        data == Head(queue[d])
    IN  /\ stage[d] = "busy" /\ n \notin crashed
        /\ queue[d] # <<>>
        /\ ~ \E c \in calling : c.download = d /\ ~ c.again
        /\ queue' = [queue EXCEPT ![d] = Tail(@)]
        /\ files' = [files EXCEPT ![n] =
                        StoreData(n, Wanted[d].name, HashOf(d, part[d]), data)]
        /\ IF part[d] = 0 /\ data \in Chunk
           THEN GoAstray(d)
           ELSE /\ hashes' = IF part[d] = 0 THEN [hashes EXCEPT ![d] = data] ELSE hashes
                /\ Proceed(d, part[d] + 1)
        /\ UNCHANGED <<routes, pending, timers, matched, lost, races>>

-----------------------------------------------------------------------------
(***************************************************************************)
(* The listener.                                                           *)
(***************************************************************************)

\* The packets out are sent, and m is delivered, or will be again, for n, whose
\* request it is, to race with.
Exchange(m, out, n, happens) ==
    \/ net' = (net \ {m}) \cup out /\ Race(n, happens)
    \/ ~ happens /\ net' = net \cup out /\ Race(n, TRUE)

Listening(n) == n \notin crashed /\ matched[n] = {}

ReplyToDataRequest(m) ==
    /\ m.type = "DRequest"
    /\ Listening(m.dst)
    /\ Exchange(m, IF m.src \in routes[m.dst]
                   THEN {DataReply(m.dst, m.src, m.name, m.hash, data) :
                            data \in GetData(m.dst, m.name, m.hash)}
                   ELSE {}, m.src, FALSE)
    /\ UNCHANGED <<files, routes, pending, calling, timers, queue, stage, part, hashes,
                   matched, saved, crashed, lost>>

\* Mutant: any data will do that comes from the peer asked.
MatchesPeer(n, m) == m.src \in DOMAIN pending[n]

\* The data has the hash pending at the peer it comes from.
Matches(n, m) ==
    /\ m.src \in DOMAIN pending[n]
    /\ LET p == pending[n][m.src] IN m.data = HashOf(p[1], p[2])

\* The call whose request m answers has yet to set pending.
Calling(m) ==
    \E c \in calling : /\ At(c.download) = m.dst
                       /\ Wanted[c.download].from[c.part] = m.src
                       /\ HashOf(c.download, c.part) = m.hash

\* The test of handleDataReply.
MatchDataReply(m) ==
    LET n == m.dst
    IN  /\ m.type = "DReply"
        /\ Listening(n)
        /\ Exchange(m, {}, n, Calling(m))
        /\ matched' = IF Matches(n, m)
                       THEN [matched EXCEPT ![n] = {[reply |-> m, for |-> pending[n][m.src]]}]
                       ELSE matched
        /\ UNCHANGED <<files, routes, pending, calling, timers, queue, stage, part, hashes,
                       saved, crashed, lost>>

\* Mutant: the timer is not stopped.
KeepTimer(p) == timers

StopTimer(p) == timers \ {p}

\* stopTimerAndSendData looks the pending request up again, and leaves it there; that
\* it finds another is a race that began with SetPending.
StopTimerAndSendData(n) ==
    /\ n \notin crashed
    /\ \E k \in matched[n] :
          LET p == pending[n][k.reply.src]
          IN  /\ Count(n, p # k.for)
              /\ timers' = StopTimer(p)
              /\ queue' = [queue EXCEPT ![p[1]] = Append(@, k.reply.data)]
    /\ matched' = [matched EXCEPT ![n] = {}]
    /\ UNCHANGED <<files, routes, pending, calling, stage, part, hashes, saved,
                   crashed, net, lost>>

-----------------------------------------------------------------------------
\* A rumor of p has come to n.
LearnRoute(n, p) ==
    /\ <<n, p>> \in LaterRoutes /\ p \notin routes[n]
    /\ routes' = [routes EXCEPT ![n] = @ \cup {p}]
    /\ UNCHANGED <<files, pending, calling, timers, queue, stage, part, hashes,
                   matched, saved, crashed, net, lost, races>>

Lose(m) ==
    /\ lost < MaxLost
    /\ net' = net \ {m}
    /\ lost' = lost + 1
    /\ UNCHANGED <<files, routes, pending, calling, timers, queue, stage, part, hashes,
                   matched, saved, crashed, races>>

Next ==
    \/ \E n \in Node : \/ \E name \in DOMAIN Disk[n] : AddFile(n, name)
                       \/ \E p \in Node : LearnRoute(n, p)
                       \/ StopTimerAndSendData(n)
    \/ \E d \in Download : StartDownload(d) \/ TakeData(d)
    \/ \E t \in timers : Timeout(t[1], t[2])
    \/ \E c \in calling : SetPending(c)
    \/ \E m \in net : ReplyToDataRequest(m) \/ MatchDataReply(m) \/ Lose(m)

Spec == Init /\ [][Next]_vars

(***************************************************************************)
(* Fairness: goroutines run, timers go off, packets and routes arrive, and *)
(* the clients share their files and start their downloads.                *)
(***************************************************************************)
Fairness ==
    /\ \A n \in Node : \A name \in DOMAIN Disk[n] : WF_vars(AddFile(n, name))
    /\ \A n, p \in Node : WF_vars(LearnRoute(n, p))
    /\ \A n \in Node : WF_vars(StopTimerAndSendData(n))
    /\ \A d \in Download : /\ WF_vars(StartDownload(d)) /\ WF_vars(TakeData(d))
                           /\ WF_vars(\E c \in calling : c.download = d /\ SetPending(c))
                           /\ WF_vars(\E t \in timers : t[1] = d /\ Timeout(t[1], t[2]))
    /\ \A n, p \in Node :
          WF_vars(\E m \in net : /\ m.src = n /\ m.dst = p
                                 /\ ReplyToDataRequest(m) \/ MatchDataReply(m))

FairSpec == Spec /\ Fairness

-----------------------------------------------------------------------------
(***************************************************************************)
(* Properties.                                                             *)
(***************************************************************************)

IsFile(f) ==
    /\ f.metafile \in Data /\ f.metaHash \in Data
    /\ f.chunks \in [DOMAIN f.chunks -> Data] /\ DOMAIN f.chunks \subseteq Data

\* Every variable has its type; the parts that are waited for, requested and
\* timed are parts of the file, and what the listener has matched has a pending
\* request to go to.
TypeOK ==
    /\ \A n \in Node : \A name \in DOMAIN files[n] : IsFile(files[n][name])
    /\ routes \in [Node -> SUBSET Node]
    /\ \A n \in Node : \A p \in DOMAIN pending[n] :
          pending[n][p][2] \in 0 .. Len(hashes[pending[n][p][1]])
    /\ \A t \in timers : t[2] \in 0 .. Len(hashes[t[1]])
    /\ \A c \in calling : c.part \in 0 .. part[c.download]
    /\ \A n \in Node : \A k \in matched[n] : k.reply.src \in DOMAIN pending[n]
    /\ \A d \in Download : stage[d] = "busy" => part[d] \in 0 .. Len(hashes[d])
    /\ queue \in [Download -> Seq(Data)]
    /\ stage \in [Download -> {"idle", "busy", "done", "astray"}]
    /\ crashed \subseteq Node

\* filehandler.go:43: "key is hash, value is chunk".
ChunksAreKeyedByHash ==
    \A n \in Node : \A name \in DOMAIN files[n] :
        LET file == files[n][name]
        IN  /\ file.metafile = file.metaHash
            /\ \A h \in DOMAIN file.chunks : file.chunks[h] = h

\* The downloads of d's node that have a peer in common with it.
Rivals(d) ==
    {e \in Download \ {d} : /\ At(e) = At(d)
                            /\ Range(Wanted[e].from) \cap Range(Wanted[d].from) # {}}

\* What is asked for in a download: its metafile and chunks.
Parts(d) == {Wanted[d].meta} \cup IF Wanted[d].meta \in Chunk THEN {} ELSE ToSet(Wanted[d].meta)

\* Nothing else at its node has the name of the file d downloads.
Sole(d) ==
    /\ Wanted[d].name \notin DOMAIN Disk[At(d)]
    /\ \A e \in Download \ {d} : At(e) = At(d) => Wanted[e].name # Wanted[d].name

\* d and a rival do not get in each other's way: their files have nothing in common,
\* and the peers of both have what they were given by their clients only.
Apart(d, e) ==
    /\ Parts(e) \cap Parts(d) = {}
    /\ \A p \in Range(Wanted[e].from) \cap Range(Wanted[d].from) : \A k \in Download : At(k) # p

\* A download that ends has saved the file it was asked for, whatever was lost
\* and whatever the nodes it comes from have stored, also when it shares peers that
\* download nothing with downloads of files that have no chunk in common: as long as
\* its own node sees nothing twice, no timer goes off while the answer is on its way,
\* no answer overtakes setPending, and what is pending stays the same until it is
\* looked up again.  (handleDataReply)
RightFileSaved ==
    \A d \in Download :
        /\ stage[d] = "done" /\ races[At(d)] = 0
        /\ Sole(d) /\ \A e \in Rivals(d) : Apart(d, e)
        => saved[At(d)][Wanted[d].name] = Wanted[d].meta

\* The peers d asks, and those they ask themselves.
Helpers(d) ==
    LET peers == Range(Wanted[d].from)
    IN  peers \cup UNION {Range(Wanted[e].from) : e \in {k \in Download : At(k) \in peers}}

\* p's client shares the file d asks for, and p downloads none of that name.
Shares(p, d) ==
    /\ Wanted[d].name \in DOMAIN Disk[p] /\ Disk[p][Wanted[d].name] = Wanted[d].meta
    /\ \A e \in Download : At(e) = p => Wanted[e].name # Wanted[d].name

\* p downloads that file, undisturbed, from peers that share it, and it has next
\* hops to all of them, as they come to have to p.
Fetches(p, d) ==
    \E e \in Download :
        /\ At(e) = p /\ Wanted[e].name = Wanted[d].name /\ Wanted[e].meta = Wanted[d].meta
        /\ Sole(e) /\ Rivals(e) = {}
        /\ DOMAIN Wanted[e].from = 0 .. Len(Wanted[d].meta)
        /\ \A q \in Range(Wanted[e].from) :
              /\ Shares(q, d)
              /\ <<p, q>> \in KnownRoutes /\ <<q, p>> \in KnownRoutes \cup LaterRoutes

\* Every part has a peer to ask, which has or comes to have the file and a next hop
\* to d's node.
Answered(d) ==
    /\ DOMAIN Wanted[d].from = 0 .. Len(Wanted[d].meta)
    /\ \A p \in Range(Wanted[d].from) :
          /\ Shares(p, d) \/ Fetches(p, d)
          /\ <<p, At(d)>> \in KnownRoutes \cup LaterRoutes

\* The node of d has next hops to all its peers.
RoutesKnown(d) == Range(Wanted[d].from) \subseteq routes[At(d)]

Ended(d) == stage[d] = "done" \/ crashed \cap (Helpers(d) \cup {At(d)}) # {}

=============================================================================
