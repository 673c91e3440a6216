------------------------- MODULE FileTransferProofs -------------------------
(***************************************************************************)
(* A download saves the file it was asked for, proved for every set of     *)
(* nodes, files and downloads.  The packets, calls, timers, matches and    *)
(* data of a download are one token that goes around: at most one of them  *)
(* is under way, and it is about the part the download waits for.          *)
(***************************************************************************)
EXTENDS FileTransfer, FiniteSetTheorems, SequenceTheorems, TLAPS

-----------------------------------------------------------------------------
(***************************************************************************)
(* The invariant.                                                          *)
(***************************************************************************)

\* A file in memory.
IsRecord(file) ==
    /\ IsFile(file)
    /\ file = [metafile |-> file.metafile, metaHash |-> file.metaHash, chunks |-> file.chunks]

FilesOK == DOMAIN files = Node /\ \A n \in Node : \A name \in DOMAIN files[n] : IsRecord(files[n][name])

ProgressOK ==
    /\ routes \in [Node -> SUBSET Node]
    /\ queue \in [Download -> Seq(Data)]
    /\ stage \in [Download -> {"idle", "busy", "done", "astray"}]
    /\ part \in [Download -> Nat]
    /\ hashes \in [Download -> Seq(Chunk)]
    /\ races \in [Node -> Nat]
    /\ crashed \subseteq Node
    /\ DOMAIN saved = Node
    /\ \A d \in Download :
          /\ part[d] = 0 => hashes[d] = <<>>
          /\ stage[d] = "idle" => part[d] = 0
          /\ stage[d] = "busy" => part[d] \in 0 .. Len(hashes[d])

\* Part i of download d has been asked for.
WasAsked(d, i) ==
    /\ d \in Download /\ i \in Nat
    /\ i <= Len(hashes[d]) /\ i <= part[d]
    /\ i \in DOMAIN Wanted[d].from

\* x is a part that n asks p for.
IsFor(n, p, x) ==
    /\ x \in Download \X Nat /\ WasAsked(x[1], x[2])
    /\ At(x[1]) = n /\ Wanted[x[1]].from[x[2]] = p

PendingOK ==
    DOMAIN pending = Node /\ \A n \in Node : \A p \in DOMAIN pending[n] : IsFor(n, p, pending[n][p])

RequestsOK ==
    /\ \A c \in calling : /\ c = [download |-> c.download, part |-> c.part, again |-> c.again]
                          /\ WasAsked(c.download, c.part)
    /\ \A t \in timers : t \in Download \X Nat /\ WasAsked(t[1], t[2])

PacketsOK ==
    \A m \in net : /\ m.type \in {"DRequest", "DReply"}
                   /\ m.src \in Node /\ m.dst \in Node /\ m.hash \in Data
                   /\ m.type = "DReply" => m.data \in Data

\* What the listener has matched is one reply with the data of the part that was
\* pending at the peer it comes from.
MatchedOK ==
    /\ DOMAIN matched = Node
    /\ \A n \in Node : \A k \in matched[n] :
          /\ k.reply.src \in DOMAIN pending[n] /\ k.reply.dst = n
          /\ IsFor(n, k.reply.src, k.for)
          /\ k.reply.data \in Data /\ k.reply.data = HashOf(k.for[1], k.for[2])
          /\ \A j \in matched[n] : j = k

TypeInv == FilesOK /\ ProgressOK /\ PendingOK /\ RequestsOK /\ PacketsOK /\ MatchedOK

\* Without a race the first data a download takes is the metafile it asked for.
MetaInv ==
    \A d \in Download :
        races[At(d)] = 0 =>
            /\ part[d] = 0 => \A j \in DOMAIN queue[d] : queue[d][j] = Wanted[d].meta
            /\ part[d] # 0 => hashes[d] = Wanted[d].meta

\* A download of n asks p for h.
AsksFor(n, p, h) ==
    \E e \in Download : At(e) = n /\ p \in Range(Wanted[e].from) /\ h \in Parts(e)

\* Without a race everything a node is sent or asks for belongs to a download.
TrafficInv ==
    \A m \in net :
        /\ m.type = "DRequest" /\ races[m.src] = 0 => AsksFor(m.src, m.dst, m.hash)
        /\ m.type = "DReply" /\ races[m.dst] = 0 => AsksFor(m.dst, m.src, m.hash)

\* A node that downloads nothing.
OnlyShares(p) == p \in Node /\ \A k \in Download : At(k) # p

\* It gives out what it was asked for.
SharerInv ==
    /\ \A p \in Node : OnlyShares(p) =>
          \A name \in DOMAIN files[p] :
              /\ files[p][name].metafile = files[p][name].metaHash
              /\ \A h \in DOMAIN files[p][name].chunks : files[p][name].chunks[h] = h
    /\ \A m \in net : m.type = "DReply" /\ OnlyShares(m.src) => m.data = m.hash

\* The downloads RightFileSaved is about, while they are under way.
Clean(d) ==
    /\ races[At(d)] = 0
    /\ Sole(d) /\ \A e \in Rivals(d) : Apart(d, e)

Calls(d) == {c \in calling : c.download = d}
Timed(d) == {t \in timers : t[1] = d}
Hits(d) == {k \in matched[At(d)] : k.for[1] = d}
Mine(d) ==
    {m \in net : /\ m.hash \in Parts(d)
                 /\ \/ /\ m.type = "DRequest" /\ m.src = At(d)
                       /\ m.dst \in Range(Wanted[d].from)
                    \/ /\ m.type = "DReply" /\ m.dst = At(d)
                       /\ m.src \in Range(Wanted[d].from)}

\* d waits for its part and has no answer.
Waits(d) == stage[d] = "busy" /\ queue[d] = <<>>

\* m is about the part d waits for.
IsAbout(m, d) ==
    /\ m.hash = HashOf(d, part[d])
    /\ {m.src, m.dst} = {At(d), Wanted[d].from[part[d]]}

\* One thing at a time is under way for d, and it is about the part d waits for:
\* the call that sends its request, a timer, its request or the answer to it, the
\* answer the listener has matched, and the data in its channel.
CallInv(d) ==
    \A c \in Calls(d) :
        /\ Waits(d) /\ c.part = part[d]
        /\ Timed(d) = {} /\ Hits(d) = {} /\ \A b \in Calls(d) : b = c

TimerInv(d) ==
    \A t \in Timed(d) :
        LET p == Wanted[d].from[part[d]]
        IN  /\ Waits(d) /\ t[2] = part[d]
            /\ p \in DOMAIN pending[At(d)]
            /\ pending[At(d)][p][1] = d => pending[At(d)][p] = <<d, part[d]>>

PacketInv(d) ==
    \A m \in Mine(d) :
        /\ Waits(d) /\ IsAbout(m, d)
        /\ Calls(d) # {} \/ Timed(d) # {}
        /\ Hits(d) = {} /\ \A b \in Mine(d) : b = m

HitInv(d) == \A k \in Hits(d) : Waits(d) /\ k.for[2] = part[d] /\ IsAbout(k.reply, d)

QueueInv(d) ==
    queue[d] # <<>> => stage[d] = "busy" /\ queue[d] = <<HashOf(d, part[d])>>

OneInv(d) == CallInv(d) /\ TimerInv(d) /\ PacketInv(d) /\ HitInv(d) /\ QueueInv(d)

\* The file of a download holds the chunks it has gone through.
FileInv(d) ==
    LET n == At(d)
        name == Wanted[d].name
        file == files[n][name]
    IN  /\ stage[d] \in {"idle", "busy"} /\ part[d] = 0 => name \notin DOMAIN files[n]
        /\ stage[d] = "busy" /\ part[d] # 0 =>
              /\ name \in DOMAIN files[n]
              /\ file.metafile = Wanted[d].meta
              /\ \A i \in 1 .. part[d] - 1 : Wanted[d].meta[i] \in DOMAIN file.chunks
              /\ \A h \in DOMAIN file.chunks : file.chunks[h] = h
        /\ stage[d] = "done" => name \in DOMAIN saved[n] /\ saved[n][name] = Wanted[d].meta

CleanInv == \A d \in Download : Clean(d) => OneInv(d) /\ FileInv(d)

TransferInv == TypeInv /\ MetaInv /\ TrafficInv /\ SharerInv /\ CleanInv

-----------------------------------------------------------------------------
(***************************************************************************)
(* The operators.                                                          *)
(***************************************************************************)

\* A file that has all its chunks, each under its hash, is written as it is.
LEMMA WholeContent ==
    ASSUME NEW file, file.metafile \in Seq(Chunk),
           \A i \in 1 .. Len(file.metafile) : file.metafile[i] \in DOMAIN file.chunks,
           \A h \in DOMAIN file.chunks : file.chunks[h] = h
    PROVE  Content(file) = file.metafile
<1> DEFINE meta == file.metafile
           N == Len(meta)
           kept == {i \in DOMAIN meta : meta[i] \in DOMAIN file.chunks}
           Nth(j) == CHOOSE i \in kept : Cardinality(kept \cap 1 .. i) = j
<1>1. N \in Nat /\ DOMAIN meta = 1 .. N
  BY LenProperties
<1>2. kept = 1 .. N
  BY <1>1
<1>3. ASSUME NEW i \in 1 .. N PROVE Cardinality(kept \cap 1 .. i) = i
  <2>1. kept \cap 1 .. i = 1 .. i /\ i \in Nat /\ 1 \in Int /\ i \in Int
    BY <1>1, <1>2
  <2>2. Cardinality(1 .. i) = i
    BY <2>1, FS_Interval
  <2> QED BY <2>1, <2>2
<1>4. Cardinality(kept) = N
  <2>1. Cardinality(1 .. N) = N
    BY <1>1, FS_Interval
  <2> QED BY <1>2, <2>1
<1>5. ASSUME NEW j \in 1 .. N PROVE Nth(j) = j
  <2>1. \E i \in kept : Cardinality(kept \cap 1 .. i) = j
    BY <1>2, <1>3
  <2>2. Nth(j) \in kept /\ Cardinality(kept \cap 1 .. Nth(j)) = j
    BY <2>1
  <2> HIDE DEF Nth
  <2> QED BY <1>2, <1>3, <2>2
<1>6. Content(file) = [j \in 1 .. Cardinality(kept) |-> file.chunks[meta[Nth(j)]]]
  BY DEF Content
<1> HIDE DEF kept, Nth
<1>7. \A j \in 1 .. N : file.chunks[meta[Nth(j)]] = meta[j]
  BY <1>5
<1>8. Content(file) = [j \in 1 .. N |-> meta[j]]
  BY <1>4, <1>6, <1>7
<1> QED BY <1>1, <1>8

\* A step with no race was taken after none, and nothing happened at its price.
LEMMA NoRace ==
    ASSUME NEW n \in Node, NEW happens \in BOOLEAN, races \in [Node -> Nat], Count(n, happens)
    PROVE  /\ races' \in [Node -> Nat]
           /\ \A k \in Node : races'[k] = 0 => races[k] = 0
           /\ races'[n] = 0 => ~ happens
<1>1. races' = IF happens THEN [races EXCEPT ![n] = @ + 1] ELSE races
  BY DEF Count
<1>2. CASE happens
  <2>1. /\ races' \in [Node -> Nat] /\ races'[n] = races[n] + 1
        /\ \A k \in Node \ {n} : races'[k] = races[k]
    BY <1>1, <1>2
  <2> QED BY <2>1
<1>3. CASE ~ happens
  BY <1>1, <1>3
<1> QED BY <1>2, <1>3

\* A request for part i is sent.
Sends(d, i, again) ==
    /\ i \in DOMAIN Wanted[d].from
    /\ \/ UNCHANGED <<net, calling>>
       \/ /\ net' = net \cup {DataRequest(At(d), Wanted[d].from[i], Wanted[d].name,
                                         IF i = 0 THEN Wanted[d].meta ELSE hashes'[d][i])}
          /\ calling' = calling \cup {[download |-> d, part |-> i, again |-> again]}

\* Or it is not, without a next hop.
LEMMA Sending ==
    ASSUME NEW d, NEW i, NEW again, i \in DOMAIN Wanted[d].from, SendDataRequest(d, i, again)
    PROVE  Sends(d, i, again)
BY DEF SendDataRequest, Sends

\* A download that takes the data of its part goes astray, ends, or goes on.
Astray(d) ==
    /\ part[d] = 0 /\ Head(queue[d]) \in Chunk
    /\ stage' = [stage EXCEPT ![d] = "astray"]
    /\ UNCHANGED <<part, hashes, saved, net, calling>>

GoesOn(d) ==
    /\ ~ (part[d] = 0 /\ Head(queue[d]) \in Chunk)
    /\ hashes' = IF part[d] = 0 THEN [hashes EXCEPT ![d] = Head(queue[d])] ELSE hashes
    /\ part' = [part EXCEPT ![d] = part[d] + 1]

Ends(d) ==
    /\ part[d] + 1 > Len(hashes'[d])
    /\ stage' = [stage EXCEPT ![d] = "done"]
    /\ saved' = [saved EXCEPT ![At(d)] =
                    With(saved[At(d)], Wanted[d].name, Content(files'[At(d)][Wanted[d].name]))]
    /\ UNCHANGED <<net, calling>>

AsksNext(d) ==
    /\ ~ (part[d] + 1 > Len(hashes'[d]))
    /\ UNCHANGED <<stage, saved>>
    /\ UNCHANGED <<net, calling>> \/ Sends(d, part[d] + 1, FALSE)

LEMMA Taking ==
    ASSUME NEW d \in Download, TakeData(d)
    PROVE  /\ stage[d] = "busy" /\ queue[d] # <<>>
           /\ queue' = [queue EXCEPT ![d] = Tail(queue[d])]
           /\ files' = [files EXCEPT ![At(d)] =
                           StoreData(At(d), Wanted[d].name, HashOf(d, part[d]), Head(queue[d]))]
           /\ crashed' \in {crashed, crashed \cup {At(d)}}
           /\ UNCHANGED <<routes, pending, timers, matched, lost, races>>
           /\ Astray(d) \/ (GoesOn(d) /\ (Ends(d) \/ AsksNext(d)))
<1>1. /\ stage[d] = "busy" /\ queue[d] # <<>>
      /\ queue' = [queue EXCEPT ![d] = Tail(queue[d])]
      /\ files' = [files EXCEPT ![At(d)] =
                      StoreData(At(d), Wanted[d].name, HashOf(d, part[d]), Head(queue[d]))]
      /\ UNCHANGED <<routes, pending, timers, matched, lost, races>>
  BY DEF TakeData
<1>2. CASE part[d] = 0 /\ Head(queue[d]) \in Chunk
  <2>1. GoAstray(d)
    BY <1>2 DEF TakeData
  <2> QED BY <1>1, <1>2, <2>1 DEF GoAstray, Astray
<1>3. CASE ~ (part[d] = 0 /\ Head(queue[d]) \in Chunk)
  <2>1. /\ hashes' = IF part[d] = 0 THEN [hashes EXCEPT ![d] = Head(queue[d])] ELSE hashes
        /\ Proceed(d, part[d] + 1)
    BY <1>3 DEF TakeData
  <2>2. GoesOn(d)
    BY <1>3, <2>1 DEF GoesOn, Proceed
  <2>3. CASE NoneLeft(d, part[d] + 1)
    BY <1>1, <2>1, <2>2, <2>3 DEF Proceed, NoneLeft, Ends
  <2>4. CASE ~ NoneLeft(d, part[d] + 1)
    <3>1. UNCHANGED <<stage, saved>>
      BY <2>1, <2>4 DEF Proceed
    <3>2. CASE NobodyToAsk(d, part[d] + 1)
      BY <1>1, <2>1, <2>2, <2>4, <3>1, <3>2 DEF Proceed, NoneLeft, AsksNext
    <3>3. CASE ~ NobodyToAsk(d, part[d] + 1)
      <4>1. UNCHANGED crashed /\ SendDataRequest(d, part[d] + 1, FALSE)
        BY <2>1, <2>4, <3>3 DEF Proceed
      <4>2. part[d] + 1 \in DOMAIN Wanted[d].from
        BY <3>3 DEF NobodyToAsk
      <4>3. Sends(d, part[d] + 1, FALSE)
        BY <4>1, <4>2, Sending
      <4> QED BY <1>1, <2>2, <2>4, <3>1, <4>1, <4>3 DEF NoneLeft, AsksNext
    <3> QED BY <3>2, <3>3
  <2> QED BY <2>3, <2>4
<1> QED BY <1>2, <1>3

-----------------------------------------------------------------------------
(***************************************************************************)
(* Which step changes what.                                                *)
(***************************************************************************)

SomeFileAdded == \E n \in Node : \E name \in DOMAIN Disk[n] : AddFile(n, name)
SomeRouteLearned == \E n \in Node, p \in Node : LearnRoute(n, p)
SomeDataPassedOn == \E n \in Node : StopTimerAndSendData(n)
SomeStarted == \E d \in Download : StartDownload(d)
SomeTaken == \E d \in Download : TakeData(d)
SomeTimeout == \E t \in timers : Timeout(t[1], t[2])
SomePendingSet == \E c \in calling : SetPending(c)
SomeAnswered == \E m \in net : ReplyToDataRequest(m)
SomeMatched == \E m \in net : MatchDataReply(m)
SomeLost == \E m \in net : Lose(m)

LEMMA Frame ==
    ASSUME [Next]_vars
    PROVE  /\ UNCHANGED files \/ SomeFileAdded \/ SomeTaken
           /\ UNCHANGED routes \/ SomeRouteLearned
           /\ UNCHANGED pending \/ SomePendingSet
           /\ UNCHANGED calling \/ SomeStarted \/ SomeTaken \/ SomeTimeout \/ SomePendingSet
           /\ UNCHANGED timers \/ SomeDataPassedOn \/ SomeTimeout \/ SomePendingSet
           /\ UNCHANGED queue \/ SomeDataPassedOn \/ SomeTaken
           /\ UNCHANGED stage \/ SomeStarted \/ SomeTaken
           /\ UNCHANGED <<part, hashes, saved>> \/ SomeTaken
           /\ UNCHANGED crashed \/ SomeStarted \/ SomeTaken
           /\ UNCHANGED matched \/ SomeDataPassedOn \/ SomeMatched
           /\ \/ UNCHANGED net \/ SomeStarted \/ SomeTaken \/ SomeTimeout
              \/ SomeAnswered \/ SomeMatched \/ SomeLost
           /\ UNCHANGED races \/ SomeDataPassedOn \/ SomeTimeout \/ SomeAnswered \/ SomeMatched
<1>1. CASE SomeFileAdded
  BY <1>1 DEF SomeFileAdded, AddFile
<1>2. CASE SomeRouteLearned
  BY <1>2 DEF SomeRouteLearned, LearnRoute
<1>3. CASE SomeDataPassedOn
  BY <1>3 DEF SomeDataPassedOn, StopTimerAndSendData
<1>4. CASE SomeStarted
  <2>1. UNCHANGED <<files, routes, pending, timers, queue, part, matched, saved, hashes, races>>
    BY <1>4 DEF SomeStarted, StartDownload
  <2> QED BY <1>4, <2>1
<1>5. CASE SomeTaken
  <2>1. UNCHANGED <<routes, pending, timers, matched, races>>
    BY <1>5 DEF SomeTaken, TakeData
  <2> QED BY <1>5, <2>1
<1>6. CASE SomeTimeout
  <2>1. UNCHANGED <<files, routes, pending, queue, stage, part, hashes, matched, saved, crashed>>
    BY <1>6 DEF SomeTimeout, Timeout
  <2> QED BY <1>6, <2>1
<1>7. CASE SomePendingSet
  <2>1. UNCHANGED <<files, routes, queue, stage, part, hashes, matched, saved, crashed, net, races>>
    BY <1>7 DEF SomePendingSet, SetPending
  <2> QED BY <1>7, <2>1
<1>8. CASE SomeAnswered
  <2>1. UNCHANGED <<files, routes, pending, calling, timers, queue, stage, part, hashes, matched,
                    saved, crashed>>
    BY <1>8 DEF SomeAnswered, ReplyToDataRequest
  <2> QED BY <1>8, <2>1
<1>9. CASE SomeMatched
  <2>1. UNCHANGED <<files, routes, pending, calling, timers, queue, stage, part, hashes,
                    saved, crashed>>
    BY <1>9 DEF SomeMatched, MatchDataReply
  <2> QED BY <1>9, <2>1
<1>10. CASE SomeLost
  <2>1. UNCHANGED <<files, routes, pending, calling, timers, queue, stage, part, hashes, matched,
                    saved, crashed, races>>
    BY <1>10 DEF SomeLost, Lose
  <2> QED BY <1>10, <2>1
<1>11. CASE UNCHANGED vars
  BY <1>11 DEF vars
<1>12. CASE Next
  BY <1>1, <1>2, <1>3, <1>4, <1>5, <1>6, <1>7, <1>8, <1>9, <1>10, <1>12
     DEF Next, SomeFileAdded, SomeRouteLearned, SomeDataPassedOn, SomeStarted, SomeTaken,
         SomeTimeout, SomePendingSet, SomeAnswered, SomeMatched, SomeLost
<1> QED BY <1>11, <1>12

-----------------------------------------------------------------------------
(***************************************************************************)
(* Types.                                                                  *)
(***************************************************************************)

LEMMA AtNode == \A d \in Download : At(d) \in Node /\ Wanted[d].meta \in Data
BY WantedAssumption DEF At

LEMMA TypeInvInit == Init => TypeInv
<1> SUFFICES ASSUME Init PROVE TypeInv
  OBVIOUS
<1>1. FilesOK
  BY DEF Init, FilesOK
<1>2. ProgressOK
  <2>1. \A d \in Download : hashes[d] = <<>> /\ part[d] = 0 /\ stage[d] = "idle"
    BY DEF Init
  <2>2. /\ hashes \in [Download -> Seq(Chunk)] /\ queue \in [Download -> Seq(Data)]
        /\ part \in [Download -> Nat] /\ races \in [Node -> Nat]
        /\ routes \in [Node -> SUBSET Node] /\ crashed \subseteq Node /\ DOMAIN saved = Node
        /\ stage \in [Download -> {"idle", "busy", "done", "astray"}]
    BY DEF Init
  <2> QED BY <2>1, <2>2 DEF ProgressOK
<1>3. PendingOK /\ RequestsOK /\ PacketsOK /\ MatchedOK
  BY DEF Init, PendingOK, RequestsOK, PacketsOK, MatchedOK
<1> QED BY <1>1, <1>2, <1>3 DEF TypeInv

\* What is asked for by hash is data.
LEMMA HashIsData ==
    ASSUME ProgressOK, NEW d \in Download, NEW i \in Nat, i <= Len(hashes[d])
    PROVE  HashOf(d, i) \in Data
<1>1. CASE i = 0
  BY <1>1, AtNode DEF HashOf
<1>2. CASE i # 0
  <2>1. hashes[d] \in Seq(Chunk) /\ i \in 1 .. Len(hashes[d])
    BY <1>2 DEF ProgressOK
  <2>2. hashes[d][i] \in Chunk
    BY <2>1
  <2> QED BY <1>2, <2>2 DEF HashOf, Data
<1> QED BY <1>1, <1>2

\* The data a download takes.
LEMMA TakenIsData ==
    ASSUME TypeInv, NEW d \in Download, queue[d] # <<>>
    PROVE  Head(queue[d]) \in Data /\ Tail(queue[d]) \in Seq(Data)
<1>1. queue[d] \in Seq(Data)
  BY DEF TypeInv, ProgressOK
<1> QED BY <1>1

\* The data the listener passes on goes to a download of its node.
LEMMA PassingOn ==
    ASSUME TypeInv, NEW n \in Node, StopTimerAndSendData(n)
    PROVE  \E k \in matched[n] :
              LET p == pending[n][k.reply.src]
              IN  /\ Count(n, p # k.for)
                  /\ timers' = StopTimer(p)
                  /\ queue' = [queue EXCEPT ![p[1]] = Append(queue[p[1]], k.reply.data)]
                  /\ matched' = [matched EXCEPT ![n] = {}]
                  /\ p \in Download \X Nat /\ k.reply.data \in Data
                  /\ queue[p[1]] \in Seq(Data)
<1>1. PICK k \in matched[n] :
         LET p == pending[n][k.reply.src]
         IN  /\ Count(n, p # k.for)
             /\ timers' = StopTimer(p)
             /\ queue' = [queue EXCEPT ![p[1]] = Append(@, k.reply.data)]
  BY DEF StopTimerAndSendData
<1>2. matched' = [matched EXCEPT ![n] = {}]
  BY DEF StopTimerAndSendData
<1>3. pending[n][k.reply.src] \in Download \X Nat /\ k.reply.data \in Data
  BY DEF TypeInv, MatchedOK, PendingOK, IsFor
<1>4. queue[pending[n][k.reply.src][1]] \in Seq(Data)
  BY <1>3 DEF TypeInv, ProgressOK
<1> QED BY <1>1, <1>2, <1>3, <1>4

\* A download's hashes are set once, by its first data.
Grows ==
    \A d \in Download : part[d] <= part'[d] /\ (hashes'[d] = hashes[d] \/ part[d] = 0)

\* The hashes and part of a download that takes its data.
LEMMA Progress ==
    ASSUME TypeInv, NEW d \in Download, TakeData(d)
    PROVE  /\ part' \in [Download -> Nat] /\ hashes' \in [Download -> Seq(Chunk)]
           /\ stage' \in [Download -> {"idle", "busy", "done", "astray"}]
           /\ DOMAIN saved' = Node
           /\ Grows
           /\ \A e \in Download \ {d} :
                 part'[e] = part[e] /\ hashes'[e] = hashes[e] /\ stage'[e] = stage[e]
           /\ part'[d] = 0 => hashes'[d] = <<>>
           /\ stage'[d] # "idle"
           /\ stage'[d] = "busy" => part'[d] \in 0 .. Len(hashes'[d])
<1>1. /\ stage[d] = "busy" /\ queue[d] # <<>>
      /\ Astray(d) \/ (GoesOn(d) /\ (Ends(d) \/ AsksNext(d)))
  BY Taking
<1>2. /\ part \in [Download -> Nat] /\ hashes \in [Download -> Seq(Chunk)]
      /\ stage \in [Download -> {"idle", "busy", "done", "astray"}] /\ DOMAIN saved = Node
      /\ part[d] = 0 => hashes[d] = <<>>
  BY DEF TypeInv, ProgressOK
<1>3. CASE Astray(d)
  BY <1>2, <1>3 DEF Astray, Grows
<1>4. CASE GoesOn(d) /\ (Ends(d) \/ AsksNext(d))
  <2>1. Head(queue[d]) \in Data
    BY <1>1, TakenIsData
  <2>2. part[d] = 0 => Head(queue[d]) \in Seq(Chunk)
    BY <1>4, <2>1 DEF GoesOn, Data
  <2>3. hashes' = IF part[d] = 0 THEN [hashes EXCEPT ![d] = Head(queue[d])] ELSE hashes
    BY <1>4 DEF GoesOn
  <2>4. /\ hashes' \in [Download -> Seq(Chunk)]
        /\ \A e \in Download \ {d} : hashes'[e] = hashes[e]
        /\ hashes'[d] = hashes[d] \/ part[d] = 0
    BY <1>2, <2>2, <2>3
  <2>5. part' = [part EXCEPT ![d] = part[d] + 1]
    BY <1>4 DEF GoesOn
  <2>6. /\ part' \in [Download -> Nat] /\ part'[d] = part[d] + 1 /\ part[d] \in Nat
        /\ \A e \in Download \ {d} : part'[e] = part[e]
    BY <1>2, <2>5
  <2>7. \A e \in Download : part[e] <= part'[e]
    <3>1. \A e \in Download : part[e] \in Nat
      BY <1>2
    <3>2. part[d] <= part'[d]
      BY <2>6
    <3> QED BY <2>6, <3>1, <3>2
  <2>8. Grows
    BY <2>4, <2>7 DEF Grows
  <2>9. Len(hashes'[d]) \in Nat
    BY <2>4
  <2>10. CASE Ends(d)
    BY <1>2, <2>4, <2>6, <2>8, <2>10 DEF Ends
  <2>11. CASE AsksNext(d)
    BY <1>1, <1>2, <2>4, <2>6, <2>8, <2>9, <2>11 DEF AsksNext
  <2> QED BY <1>4, <2>10, <2>11
<1> QED BY <1>1, <1>3, <1>4

LEMMA ProgressNext ==
    ASSUME TypeInv, [Next]_vars
    PROVE  ProgressOK' /\ Grows
<1>0. ProgressOK
  BY DEF TypeInv
<1>1. routes' \in [Node -> SUBSET Node]
  <2>1. CASE SomeRouteLearned
    <3>1. PICK n \in Node, p \in Node : routes' = [routes EXCEPT ![n] = @ \cup {p}]
      BY <2>1 DEF SomeRouteLearned, LearnRoute
    <3> QED BY <1>0, <3>1 DEF ProgressOK
  <2> QED BY <1>0, <2>1, Frame DEF ProgressOK
<1>2. queue' \in [Download -> Seq(Data)]
  <2>0. queue \in [Download -> Seq(Data)]
    BY <1>0 DEF ProgressOK
  <2>1. CASE SomeDataPassedOn
    <3>1. PICK n \in Node : StopTimerAndSendData(n)
      BY <2>1 DEF SomeDataPassedOn
    <3>2. PICK p \in Download \X Nat, x \in Data :
             queue[p[1]] \in Seq(Data) /\ queue' = [queue EXCEPT ![p[1]] = Append(queue[p[1]], x)]
      BY <3>1, PassingOn
    <3>3. Append(queue[p[1]], x) \in Seq(Data)
      BY <3>2
    <3> QED BY <2>0, <3>2, <3>3
  <2>2. CASE SomeTaken
    <3>1. PICK d \in Download : TakeData(d)
      BY <2>2 DEF SomeTaken
    <3>2. queue[d] # <<>> /\ queue' = [queue EXCEPT ![d] = Tail(queue[d])]
      BY <3>1, Taking
    <3> QED BY <2>0, <3>2, TakenIsData
  <2> QED BY <2>0, <2>1, <2>2, Frame
<1>3. races' \in [Node -> Nat]
  <2>0. races \in [Node -> Nat]
    BY <1>0 DEF ProgressOK
  <2>1. CASE SomeDataPassedOn
    <3>1. PICK n \in Node, happens \in BOOLEAN : Count(n, happens)
      BY <2>1 DEF SomeDataPassedOn, StopTimerAndSendData
    <3> QED BY <2>0, <3>1, NoRace
  <2>2. CASE SomeTimeout
    <3>1. PICK t \in timers : Timeout(t[1], t[2])
      BY <2>2 DEF SomeTimeout
    <3>2. At(t[1]) \in Node
      BY <3>1, AtNode DEF TypeInv, RequestsOK
    <3>3. Race(At(t[1]), UnderWay(t[1], t[2]))
      BY <3>1 DEF Timeout
    <3>4. UnderWay(t[1], t[2]) \in BOOLEAN
      BY DEF UnderWay
    <3> QED BY <2>0, <3>2, <3>3, <3>4, NoRace DEF Race
  <2>3. CASE SomeAnswered \/ SomeMatched
    <3>1. PICK m \in net : ReplyToDataRequest(m) \/ MatchDataReply(m)
      BY <2>3 DEF SomeAnswered, SomeMatched
    <3>2. m.src \in Node /\ m.dst \in Node
      BY <3>1 DEF TypeInv, PacketsOK
    <3>3. ReplyToDataRequest(m) => Race(m.src, FALSE) \/ Race(m.src, TRUE)
      BY DEF ReplyToDataRequest, Exchange
    <3>4. MatchDataReply(m) => Race(m.dst, Calling(m)) \/ Race(m.dst, TRUE)
      BY DEF MatchDataReply, Exchange
    <3>5. Calling(m) \in BOOLEAN
      BY DEF Calling
    <3>6. PICK n \in {m.src, m.dst}, happens \in BOOLEAN : Race(n, happens)
      BY <3>1, <3>3, <3>4, <3>5
    <3> QED BY <2>0, <3>2, <3>6, NoRace DEF Race
  <2> QED BY <2>0, <2>1, <2>2, <2>3, Frame
<1>4. crashed' \subseteq Node
  <2>1. CASE SomeStarted
    <3>1. PICK d \in Download : crashed' \in {crashed, crashed \cup {At(d)}}
      BY <2>1 DEF SomeStarted, StartDownload
    <3> QED BY <1>0, <3>1, AtNode DEF ProgressOK
  <2>2. CASE SomeTaken
    <3>1. PICK d \in Download : crashed' \in {crashed, crashed \cup {At(d)}}
      BY <2>2, Taking DEF SomeTaken
    <3> QED BY <1>0, <3>1, AtNode DEF ProgressOK
  <2> QED BY <1>0, <2>1, <2>2, Frame DEF ProgressOK
<1>5. CASE SomeTaken
  <2>1. PICK d \in Download : TakeData(d)
    BY <1>5 DEF SomeTaken
  <2>2. /\ part' \in [Download -> Nat] /\ hashes' \in [Download -> Seq(Chunk)]
        /\ stage' \in [Download -> {"idle", "busy", "done", "astray"}]
        /\ DOMAIN saved' = Node /\ Grows
    BY <2>1, Progress
  <2>3. ASSUME NEW e \in Download
        PROVE  /\ part'[e] = 0 => hashes'[e] = <<>>
               /\ stage'[e] = "idle" => part'[e] = 0
               /\ stage'[e] = "busy" => part'[e] \in 0 .. Len(hashes'[e])
    <3>1. CASE e = d
      BY <2>1, <3>1, Progress
    <3>2. CASE e # d
      BY <1>0, <2>1, <3>2, Progress DEF ProgressOK
    <3> QED BY <3>1, <3>2
  <2> QED BY <1>1, <1>2, <1>3, <1>4, <2>2, <2>3 DEF ProgressOK
<1>6. CASE ~ SomeTaken
  <2>1. UNCHANGED <<part, hashes, saved>>
    BY <1>6, Frame
  <2>2. Grows
    BY <1>0, <2>1 DEF Grows, ProgressOK
  <2>3. CASE SomeStarted
    <3>1. PICK d \in Download : StartDownload(d)
      BY <2>3 DEF SomeStarted
    <3>2. stage[d] = "idle" /\ stage' = [stage EXCEPT ![d] = "busy"]
      BY <3>1 DEF StartDownload
    <3>3. /\ stage' \in [Download -> {"idle", "busy", "done", "astray"}]
          /\ stage'[d] = "busy" /\ part[d] = 0 /\ hashes[d] = <<>>
          /\ \A e \in Download \ {d} : stage'[e] = stage[e]
      BY <1>0, <3>2 DEF ProgressOK
    <3>4. 0 \in 0 .. Len(<<>>)
      OBVIOUS
    <3> QED BY <1>0, <1>1, <1>2, <1>3, <1>4, <2>1, <2>2, <3>3, <3>4 DEF ProgressOK
  <2>4. CASE UNCHANGED stage
    BY <1>0, <1>1, <1>2, <1>3, <1>4, <2>1, <2>2, <2>4 DEF ProgressOK
  <2> QED BY <1>6, <2>3, <2>4, Frame
<1> QED BY <1>5, <1>6

\* What was asked for stays so, and keeps its hash.
LEMMA AskedStays ==
    ASSUME TypeInv, ProgressOK', Grows
    PROVE  \A d, i : WasAsked(d, i) => WasAsked(d, i)' /\ HashOf(d, i)' = HashOf(d, i)
<1> SUFFICES ASSUME NEW d, NEW i, WasAsked(d, i)
             PROVE  WasAsked(d, i)' /\ HashOf(d, i)' = HashOf(d, i)
  OBVIOUS
<1>1. /\ d \in Download /\ i \in Nat /\ i <= Len(hashes[d]) /\ i <= part[d]
      /\ i \in DOMAIN Wanted[d].from
  BY DEF WasAsked
<1>2. part[d] \in Nat /\ part'[d] \in Nat /\ part[d] <= part'[d]
  BY <1>1 DEF Grows, TypeInv, ProgressOK
<1>3. i <= part'[d]
  BY <1>1, <1>2
<1>4. CASE hashes'[d] = hashes[d]
  BY <1>1, <1>3, <1>4 DEF WasAsked, HashOf
<1>5. CASE part[d] = 0
  <2>1. i = 0
    BY <1>1, <1>5
  <2>2. hashes'[d] \in Seq(Chunk)
    BY <1>1 DEF ProgressOK
  <2>3. 0 <= Len(hashes'[d])
    BY <2>2
  <2> QED BY <1>1, <1>3, <2>1, <2>3 DEF WasAsked, HashOf
<1> QED BY <1>1, <1>4, <1>5 DEF Grows

LEMMA ForStays ==
    ASSUME TypeInv, ProgressOK', Grows
    PROVE  \A n, p, x : IsFor(n, p, x) => IsFor(n, p, x)'
BY AskedStays DEF IsFor, At

\* A request a step sends, its part asked for by now.
LEMMA Requesting ==
    ASSUME TypeInv, ProgressOK', Grows, SomeStarted \/ SomeTaken \/ SomeTimeout
    PROVE  \/ UNCHANGED <<net, calling>>
           \/ \E d \in Download, i \in Nat, again \in BOOLEAN : Sends(d, i, again) /\ WasAsked(d, i)'
<1>1. CASE SomeStarted
  <2>1. PICK d \in Download : StartDownload(d)
    BY <1>1 DEF SomeStarted
  <2>2. UNCHANGED <<net, calling>> \/ (0 \in DOMAIN Wanted[d].from /\ SendDataRequest(d, 0, FALSE))
    BY <2>1 DEF StartDownload, NobodyToAsk
  <2>3. part'[d] \in Nat /\ hashes'[d] \in Seq(Chunk)
    BY DEF ProgressOK
  <2>4. 0 \in DOMAIN Wanted[d].from => WasAsked(d, 0)'
    BY <2>3 DEF WasAsked
  <2> QED BY <2>2, <2>4, Sending
<1>2. CASE SomeTaken
  <2>1. PICK d \in Download : TakeData(d)
    BY <1>2 DEF SomeTaken
  <2>2. UNCHANGED <<net, calling>> \/ (GoesOn(d) /\ AsksNext(d) /\ Sends(d, part[d] + 1, FALSE))
    BY <2>1, Taking DEF Astray, Ends, AsksNext
  <2>3. part[d] \in Nat /\ hashes'[d] \in Seq(Chunk)
    BY DEF TypeInv, ProgressOK
  <2>4. ASSUME GoesOn(d), AsksNext(d), Sends(d, part[d] + 1, FALSE)
        PROVE  \E i \in Nat : Sends(d, i, FALSE) /\ WasAsked(d, i)'
    <3> DEFINE i == part[d] + 1
    <3>1. part'[d] = i /\ ~ (i > Len(hashes'[d])) /\ Sends(d, i, FALSE)
      BY <2>4 DEF GoesOn, AsksNext, TypeInv, ProgressOK
    <3>2. i \in Nat /\ Len(hashes'[d]) \in Nat
      BY <2>3
    <3> HIDE DEF i
    <3>3. PICK j \in Nat : j = i
      BY <3>2
    <3>4. j <= Len(hashes'[d]) /\ j = part'[d] /\ j \in DOMAIN Wanted[d].from
      BY <3>1, <3>2, <3>3 DEF Sends
    <3>5. WasAsked(d, j)'
      BY <3>4 DEF WasAsked
    <3> QED BY <3>1, <3>3, <3>5
  <2> QED BY <2>2, <2>4
<1>3. CASE SomeTimeout
  <2>1. PICK t \in timers : Timeout(t[1], t[2])
    BY <1>3 DEF SomeTimeout
  <2>2. t \in Download \X Nat /\ WasAsked(t[1], t[2])
    BY DEF TypeInv, RequestsOK
  <2>3. SendDataRequest(t[1], t[2], TRUE) /\ t[2] \in DOMAIN Wanted[t[1]].from
    BY <2>1, <2>2 DEF Timeout, WasAsked
  <2>4. Sends(t[1], t[2], TRUE) /\ WasAsked(t[1], t[2])'
    BY <2>2, <2>3, Sending, AskedStays
  <2> QED BY <2>2, <2>4
<1> QED BY <1>1, <1>2, <1>3

\* The hash in a request is data.
LEMMA SentIsData ==
    ASSUME ProgressOK', NEW d \in Download, NEW i \in Nat, WasAsked(d, i)'
    PROVE  (IF i = 0 THEN Wanted[d].meta ELSE hashes'[d][i]) \in Data
<1>1. i # 0 => i \in 1 .. Len(hashes'[d]) /\ hashes'[d] \in Seq(Chunk)
  BY DEF WasAsked, ProgressOK
<1>2. i # 0 => hashes'[d][i] \in Chunk
  BY <1>1
<1> QED BY <1>2, AtNode DEF Data

\* A node gets, or replaces, one file.
LEMMA OneFile ==
    ASSUME FilesOK, NEW n \in Node, NEW name, NEW file, IsRecord(file),
           files' = [files EXCEPT ![n] = With(files[n], name, file)]
    PROVE  FilesOK'
<1>1. DOMAIN files = Node
  BY DEF FilesOK
<1>2. DOMAIN files' = Node /\ files'[n] = With(files[n], name, file)
      /\ \A k \in Node \ {n} : files'[k] = files[k]
  BY <1>1
<1> DEFINE more == With(files[n], name, file)
<1>3. ASSUME NEW k \in Node, NEW x \in DOMAIN files'[k] PROVE IsRecord(files'[k][x])
  <2>0. /\ DOMAIN more = DOMAIN files[n] \cup {name}
        /\ \A j \in DOMAIN files[n] \cup {name} : more[j] = IF j = name THEN file ELSE files[n][j]
    BY DEF With
  <2> HIDE DEF more
  <2>1. CASE k = n
    <3>1. files'[k] = more
      BY <1>2, <2>1 DEF more
    <3>2. x \in DOMAIN files[n] \cup {name}
      BY <1>3, <2>0, <3>1
    <3>3. files'[k][x] = IF x = name THEN file ELSE files[n][x]
      BY <2>0, <3>1, <3>2
    <3> QED BY <3>2, <3>3 DEF FilesOK
  <2>2. CASE k # n
    BY <1>2, <1>3, <2>2 DEF FilesOK
  <2> QED BY <2>1, <2>2
<1> QED BY <1>2, <1>3 DEF FilesOK, IsRecord, IsFile

LEMMA FilesNext ==
    ASSUME TypeInv, [Next]_vars
    PROVE  FilesOK'
<1>0. FilesOK
  BY DEF TypeInv
<1>1. CASE SomeFileAdded
  <2>1. PICK n \in Node : \E name \in DOMAIN Disk[n] : AddFile(n, name)
    BY <1>1 DEF SomeFileAdded
  <2>2. PICK name \in DOMAIN Disk[n] : AddFile(n, name)
    BY <2>1
  <2> DEFINE chunks == Disk[n][name]
             file == [metafile |-> chunks, metaHash |-> chunks, chunks |-> [c \in ToSet(chunks) |-> c]]
  <2>3. files' = [files EXCEPT ![n] = With(files[n], name, file)]
    BY <2>2 DEF AddFile
  <2>4. chunks \in Seq(Chunk)
    BY DiskAssumption
  <2>5. ToSet(chunks) \subseteq Data /\ chunks \in Data
    BY <2>4 DEF ToSet, Data
  <2>6. IsRecord(file)
    BY <2>5 DEF IsRecord, IsFile
  <2> HIDE DEF file
  <2> QED BY <1>0, <2>3, <2>6, OneFile
<1>2. CASE SomeTaken
  <2>1. PICK d \in Download : TakeData(d)
    BY <1>2 DEF SomeTaken
  <2> DEFINE n == At(d)
             name == Wanted[d].name
             h == HashOf(d, part[d])
             data == Head(queue[d])
             old == files[n][name]
             file == IF name \in DOMAIN files[n]
                     THEN [old EXCEPT !.chunks = With(@, h, data)]
                     ELSE [metafile |-> data, metaHash |-> h, chunks |-> <<>>]
  <2>2. files' = [files EXCEPT ![n] = With(files[n], name, file)]
    BY <2>1, Taking DEF StoreData
  <2>3. n \in Node
    BY AtNode
  <2>4. data \in Data
    BY <2>1, Taking, TakenIsData
  <2>5. h \in Data
    <3>1. stage[d] = "busy"
      BY <2>1, Taking
    <3>2. ProgressOK /\ part[d] \in Nat /\ part[d] <= Len(hashes[d])
      BY <3>1 DEF TypeInv, ProgressOK
    <3> QED BY <3>2, HashIsData
  <2> HIDE DEF h, data, n, name
  <2>6. IsRecord(file)
    <3>1. CASE name \in DOMAIN files[n]
      <4>1. IsRecord(old)
        BY <1>0, <2>3, <3>1 DEF FilesOK
      <4> HIDE DEF old
      <4> DEFINE chunks == With(old.chunks, h, data)
      <4>2. chunks \in [DOMAIN chunks -> Data] /\ DOMAIN chunks \subseteq Data
        BY <2>4, <2>5, <4>1 DEF IsRecord, IsFile, With
      <4>3. file = [old EXCEPT !.chunks = chunks]
        BY <3>1
      <4> HIDE DEF chunks, file
      <4>4. file = [metafile |-> old.metafile, metaHash |-> old.metaHash, chunks |-> chunks]
        BY <4>1, <4>3 DEF IsRecord
      <4> QED BY <4>1, <4>2, <4>4 DEF IsRecord, IsFile
    <3>2. CASE name \notin DOMAIN files[n]
      <4>1. file = [metafile |-> data, metaHash |-> h, chunks |-> <<>>]
        BY <3>2
      <4>2. DOMAIN <<>> = {} /\ <<>> \in [{} -> Data]
        OBVIOUS
      <4> HIDE DEF file
      <4> QED BY <2>4, <2>5, <4>1, <4>2 DEF IsRecord, IsFile
    <3> QED BY <3>1, <3>2
  <2> HIDE DEF file
  <2> QED BY <1>0, <2>2, <2>3, <2>6, OneFile
<1> QED BY <1>0, <1>1, <1>2, Frame DEF FilesOK

LEMMA PendingNext ==
    ASSUME TypeInv, ProgressOK', Grows, [Next]_vars
    PROVE  /\ PendingOK'
           /\ \A n \in Node : DOMAIN pending[n] \subseteq DOMAIN pending'[n]
<1>0. /\ DOMAIN pending = Node
      /\ \A n \in Node : \A p \in DOMAIN pending[n] : IsFor(n, p, pending[n][p])
  BY DEF TypeInv, PendingOK
<1> SUFFICES /\ DOMAIN pending' = Node
             /\ \A n \in Node : DOMAIN pending[n] \subseteq DOMAIN pending'[n]
             /\ \A n \in Node : \A p \in DOMAIN pending'[n] :
                   \E x : x = pending'[n][p] /\ IsFor(n, p, x)
  <2>1. \A n \in Node : \A p \in DOMAIN pending'[n] : \E x : x = pending'[n][p] /\ IsFor(n, p, x)'
    BY ForStays
  <2> QED BY <2>1 DEF PendingOK, IsFor, WasAsked, At
<1>1. CASE SomePendingSet
  <2>1. PICK c \in calling : SetPending(c)
    BY <1>1 DEF SomePendingSet
  <2> DEFINE d == c.download
             n == At(d)
             p == Wanted[d].from[c.part]
             x == <<d, c.part>>
  <2>2. pending' = [pending EXCEPT ![n] = With(pending[n], p, x)]
    BY <2>1 DEF SetPending
  <2>3. WasAsked(d, c.part) /\ n \in Node
    BY AtNode DEF TypeInv, RequestsOK, WasAsked
  <2>4. IsFor(n, p, x)
    BY <2>3 DEF IsFor, WasAsked
  <2> HIDE DEF n, p, x
  <2>5. /\ DOMAIN pending' = Node
        /\ \A k \in Node : pending'[k] = IF k = n THEN With(pending[n], p, x) ELSE pending[k]
    BY <1>0, <2>2, <2>3
  <2>6. ASSUME NEW k \in Node
        PROVE  /\ DOMAIN pending[k] \subseteq DOMAIN pending'[k]
               /\ \A q \in DOMAIN pending'[k] : \E y : y = pending'[k][q] /\ IsFor(k, q, y)
    <3>1. CASE k = n
      <4> DEFINE more == With(pending[n], p, x)
      <4>1. /\ DOMAIN more = DOMAIN pending[n] \cup {p}
            /\ \A q \in DOMAIN pending[n] \cup {p} : more[q] = IF q = p THEN x ELSE pending[n][q]
        BY DEF With
      <4>2. pending'[k] = more
        BY <2>5, <3>1
      <4> HIDE DEF more
      <4> QED BY <1>0, <2>4, <3>1, <4>1, <4>2
    <3>2. CASE k # n
      BY <1>0, <2>5, <3>2
    <3> QED BY <3>1, <3>2
  <2> QED BY <2>5, <2>6
<1>2. CASE UNCHANGED pending
  BY <1>0, <1>2
<1> QED BY <1>1, <1>2, Frame

LEMMA RequestsNext ==
    ASSUME TypeInv, ProgressOK', Grows, [Next]_vars
    PROVE  RequestsOK'
<1>1. \A c \in calling' : c = [download |-> c.download, part |-> c.part, again |-> c.again]
                          /\ WasAsked(c.download, c.part)'
  <2>0. \A c \in calling : c = [download |-> c.download, part |-> c.part, again |-> c.again]
                           /\ WasAsked(c.download, c.part)'
    BY AskedStays DEF TypeInv, RequestsOK
  <2>1. CASE SomeStarted \/ SomeTaken \/ SomeTimeout
    <3>1. CASE UNCHANGED calling
      BY <2>0, <3>1
    <3>2. CASE ~ UNCHANGED calling
      <4>1. PICK d \in Download, i \in Nat, again \in BOOLEAN : Sends(d, i, again) /\ WasAsked(d, i)'
        BY <2>1, <3>2, Requesting
      <4> DEFINE new == [download |-> d, part |-> i, again |-> again]
      <4>2. calling' = calling \cup {new}
        BY <3>2, <4>1 DEF Sends
      <4>3. new.download = d /\ new.part = i /\ new.again = again
        OBVIOUS
      <4> HIDE DEF new
      <4>4. new = [download |-> new.download, part |-> new.part, again |-> new.again]
        BY <4>3 DEF new
      <4>5. WasAsked(new.download, new.part)'
        BY <4>1, <4>3
      <4> QED BY <2>0, <4>2, <4>4, <4>5
    <3> QED BY <3>1, <3>2
  <2>2. CASE SomePendingSet
    BY <2>0, <2>2 DEF SomePendingSet, SetPending
  <2> QED BY <2>0, <2>1, <2>2, Frame
<1>2. \A t \in timers' : t \in Download \X Nat /\ WasAsked(t[1], t[2])'
  <2>0. \A t \in timers : t \in Download \X Nat /\ WasAsked(t[1], t[2])'
    BY AskedStays DEF TypeInv, RequestsOK
  <2>1. CASE SomeDataPassedOn
    BY <2>0, <2>1 DEF SomeDataPassedOn, StopTimerAndSendData, StopTimer
  <2>2. CASE SomeTimeout
    BY <2>0, <2>2 DEF SomeTimeout, Timeout
  <2>3. CASE SomePendingSet
    <3>1. PICK c \in calling : SetPending(c)
      BY <2>3 DEF SomePendingSet
    <3>2. timers' = timers \cup {<<c.download, c.part>>}
      BY <3>1 DEF SetPending, StartTimer
    <3>3. WasAsked(c.download, c.part)
      BY DEF TypeInv, RequestsOK
    <3>4. WasAsked(c.download, c.part)' /\ c.download \in Download /\ c.part \in Nat
      BY <3>3, AskedStays DEF WasAsked
    <3> QED BY <2>0, <3>2, <3>4
  <2> QED BY <2>0, <2>1, <2>2, <2>3, Frame
<1> QED BY <1>1, <1>2 DEF RequestsOK

IsPacket(m) ==
    /\ m.type \in {"DRequest", "DReply"}
    /\ m.src \in Node /\ m.dst \in Node /\ m.hash \in Data
    /\ m.type = "DReply" => m.data \in Data

\* What a node has of a file is data.
LEMMA FoundIsData ==
    ASSUME FilesOK, NEW n \in Node, NEW name, NEW h
    PROVE  /\ GetData(n, name, h) \subseteq Data
           /\ \A x, y \in GetData(n, name, h) : x = y
<1>1. CASE name \notin DOMAIN files[n]
  BY <1>1 DEF GetData
<1>2. CASE name \in DOMAIN files[n]
  <2> DEFINE file == files[n][name]
  <2>1. IsFile(file)
    BY <1>2 DEF FilesOK, IsRecord
  <2>2. GetData(n, name, h) = IF file.metaHash = h THEN {file.metafile}
                              ELSE {file.chunks[k] : k \in DOMAIN file.chunks \cap {h}}
    BY <1>2 DEF GetData
  <2> HIDE DEF file
  <2>3. \A k \in DOMAIN file.chunks : file.chunks[k] \in Data
    BY <2>1 DEF IsFile
  <2> QED BY <2>1, <2>2, <2>3 DEF IsFile
<1> QED BY <1>1, <1>2

\* A new packet of a step: a request, or the reply to one.
LEMMA NewPackets ==
    ASSUME TypeInv, ProgressOK', Grows, [Next]_vars, NEW m \in net', m \notin net
    PROVE  \/ \E d \in Download, i \in Nat, again \in BOOLEAN :
                 /\ Sends(d, i, again) /\ WasAsked(d, i)'
                 /\ m = DataRequest(At(d), Wanted[d].from[i], Wanted[d].name,
                                    IF i = 0 THEN Wanted[d].meta ELSE hashes'[d][i])
           \/ \E q \in net : /\ ReplyToDataRequest(q) /\ q.type = "DRequest"
                             /\ \E data \in GetData(q.dst, q.name, q.hash) :
                                   m = DataReply(q.dst, q.src, q.name, q.hash, data)
<1>1. CASE SomeStarted \/ SomeTaken \/ SomeTimeout
  <2>1. PICK d \in Download, i \in Nat, again \in BOOLEAN : Sends(d, i, again) /\ WasAsked(d, i)'
    BY <1>1, Requesting
  <2>2. net' \in {net, net \cup {DataRequest(At(d), Wanted[d].from[i], Wanted[d].name,
                                             IF i = 0 THEN Wanted[d].meta ELSE hashes'[d][i])}}
    BY <2>1 DEF Sends
  <2> QED BY <2>1, <2>2
<1>2. CASE SomeAnswered
  <2>1. PICK q \in net : ReplyToDataRequest(q)
    BY <1>2 DEF SomeAnswered
  <2> DEFINE replies == {DataReply(q.dst, q.src, q.name, q.hash, data) :
                            data \in GetData(q.dst, q.name, q.hash)}
             out == IF q.src \in routes[q.dst] THEN replies ELSE {}
  <2>2. q.type = "DRequest" /\ Exchange(q, out, q.src, FALSE)
    BY <2>1 DEF ReplyToDataRequest
  <2>3. out \subseteq replies
    OBVIOUS
  <2> HIDE DEF out
  <2>4. net' \in {(net \ {q}) \cup out, net \cup out}
    BY <2>2 DEF Exchange
  <2>5. m \in replies
    BY <2>3, <2>4
  <2> QED BY <2>1, <2>2, <2>5
<1>3. CASE SomeMatched
  BY <1>3 DEF SomeMatched, MatchDataReply, Exchange
<1>4. CASE SomeLost
  BY <1>4 DEF SomeLost, Lose
<1> QED BY <1>1, <1>2, <1>3, <1>4, Frame

LEMMA PacketsNext ==
    ASSUME TypeInv, ProgressOK', Grows, [Next]_vars
    PROVE  PacketsOK'
<1>1. \A m \in net : IsPacket(m)
  BY DEF TypeInv, PacketsOK, IsPacket
<1>2. ASSUME NEW m \in net', m \notin net PROVE IsPacket(m)
  <2>1. CASE \E d \in Download, i \in Nat, again \in BOOLEAN :
                /\ Sends(d, i, again) /\ WasAsked(d, i)'
                /\ m = DataRequest(At(d), Wanted[d].from[i], Wanted[d].name,
                                   IF i = 0 THEN Wanted[d].meta ELSE hashes'[d][i])
    <3>1. PICK d \in Download, i \in Nat, again \in BOOLEAN :
                /\ WasAsked(d, i)'
                /\ m = DataRequest(At(d), Wanted[d].from[i], Wanted[d].name,
                                   IF i = 0 THEN Wanted[d].meta ELSE hashes'[d][i])
      BY <2>1
    <3>2. /\ m.type = "DRequest" /\ m.src = At(d) /\ m.dst = Wanted[d].from[i]
          /\ m.hash = IF i = 0 THEN Wanted[d].meta ELSE hashes'[d][i]
      BY <3>1 DEF DataRequest
    <3>3. m.hash \in Data
      BY <3>1, <3>2, SentIsData
    <3>4. m.dst \in Node
      BY <3>1, <3>2, WantedAssumption DEF WasAsked, Range
    <3> QED BY <3>2, <3>3, <3>4, AtNode DEF IsPacket
  <2>2. CASE \E q \in net : /\ q.type = "DRequest"
                            /\ \E data \in GetData(q.dst, q.name, q.hash) :
                                  m = DataReply(q.dst, q.src, q.name, q.hash, data)
    <3>1. PICK q \in net : \E data \in GetData(q.dst, q.name, q.hash) :
                              m = DataReply(q.dst, q.src, q.name, q.hash, data)
      BY <2>2
    <3>2. PICK data \in GetData(q.dst, q.name, q.hash) :
             m = DataReply(q.dst, q.src, q.name, q.hash, data)
      BY <3>1
    <3>3. IsPacket(q)
      BY <1>1
    <3>4. data \in Data
      BY <3>3, FoundIsData DEF TypeInv, IsPacket
    <3>5. /\ m.type = "DReply" /\ m.src = q.dst /\ m.dst = q.src /\ m.hash = q.hash /\ m.data = data
      BY <3>2 DEF DataReply
    <3> QED BY <3>3, <3>4, <3>5 DEF IsPacket
  <2> QED BY <1>2, <2>1, <2>2, NewPackets
<1>3. \A m \in net' : IsPacket(m)
  BY <1>1, <1>2
<1> QED BY <1>3 DEF PacketsOK, IsPacket

\* What is being matched.
LEMMA Matching ==
    ASSUME TypeInv, NEW m \in net, MatchDataReply(m)
    PROVE  /\ m.type = "DReply" /\ m.src \in Node /\ m.dst \in Node /\ m.data \in Data
           /\ matched[m.dst] = {}
           /\ \/ matched' = matched
              \/ /\ Matches(m.dst, m) /\ m.src \in DOMAIN pending[m.dst]
                 /\ matched' = [matched EXCEPT ![m.dst] =
                                   {[reply |-> m, for |-> pending[m.dst][m.src]]}]
                 /\ IsFor(m.dst, m.src, pending[m.dst][m.src])
                 /\ m.data = HashOf(pending[m.dst][m.src][1], pending[m.dst][m.src][2])
<1>1. m.type = "DReply" /\ m.src \in Node /\ m.dst \in Node /\ m.data \in Data
  BY DEF MatchDataReply, TypeInv, PacketsOK
<1>2. matched[m.dst] = {}
  BY DEF MatchDataReply, Listening
<1>3. CASE ~ Matches(m.dst, m)
  BY <1>1, <1>2, <1>3 DEF MatchDataReply
<1>4. CASE Matches(m.dst, m)
  <2>1. matched' = [matched EXCEPT ![m.dst] = {[reply |-> m, for |-> pending[m.dst][m.src]]}]
    BY <1>4 DEF MatchDataReply
  <2>2. /\ m.src \in DOMAIN pending[m.dst]
        /\ m.data = HashOf(pending[m.dst][m.src][1], pending[m.dst][m.src][2])
    BY <1>4 DEF Matches
  <2>3. IsFor(m.dst, m.src, pending[m.dst][m.src])
    BY <1>1, <2>2 DEF TypeInv, PendingOK
  <2> QED BY <1>1, <1>2, <1>4, <2>1, <2>2, <2>3
<1> QED BY <1>3, <1>4

\* One match of a node.
IsMatch(n, k) ==
    /\ k.reply.src \in DOMAIN pending[n] /\ k.reply.dst = n
    /\ IsFor(n, k.reply.src, k.for)
    /\ k.reply.data \in Data /\ k.reply.data = HashOf(k.for[1], k.for[2])

LEMMA MatchedNext ==
    ASSUME TypeInv, ProgressOK', Grows, [Next]_vars
    PROVE  MatchedOK'
<1>0. /\ DOMAIN matched = Node
      /\ \A n \in Node : \A k \in matched[n] : IsMatch(n, k) /\ \A j \in matched[n] : j = k
  BY DEF TypeInv, MatchedOK, IsMatch
<1>1. ASSUME NEW n \in Node, NEW k, IsMatch(n, k)
      PROVE  IsMatch(n, k)'
  <2>1. k.reply.src \in DOMAIN pending'[n]
    BY <1>1, PendingNext DEF IsMatch
  <2>2. IsFor(n, k.reply.src, k.for)'
    BY <1>1, ForStays DEF IsMatch
  <2>3. WasAsked(k.for[1], k.for[2])
    BY <1>1 DEF IsMatch, IsFor
  <2>4. HashOf(k.for[1], k.for[2])' = HashOf(k.for[1], k.for[2])
    BY <2>3, AskedStays
  <2> QED BY <1>1, <2>1, <2>2, <2>4 DEF IsMatch
<1> SUFFICES /\ DOMAIN matched' = Node
             /\ \A n \in Node : \A k \in matched'[n] : IsMatch(n, k) /\ \A j \in matched'[n] : j = k
  BY <1>1 DEF MatchedOK, IsMatch
<1>2. CASE SomeDataPassedOn
  <2>1. PICK n \in Node : matched' = [matched EXCEPT ![n] = {}]
    BY <1>2 DEF SomeDataPassedOn, StopTimerAndSendData
  <2> QED BY <1>0, <2>1
<1>3. CASE SomeMatched
  <2>1. PICK m \in net : MatchDataReply(m)
    BY <1>3 DEF SomeMatched
  <2>2. CASE matched' = matched
    BY <1>0, <2>2
  <2>3. CASE matched' # matched
    <3> DEFINE new == [reply |-> m, for |-> pending[m.dst][m.src]]
    <3>1. new.reply = m /\ new.for = pending[m.dst][m.src]
      OBVIOUS
    <3>2. matched' = [matched EXCEPT ![m.dst] = {new}] /\ m.dst \in Node
      BY <2>1, <2>3, Matching
    <3> HIDE DEF new
    <3>3. IsMatch(m.dst, new)
      BY <2>1, <2>3, <3>1, Matching DEF IsMatch
    <3> QED BY <1>0, <3>2, <3>3
  <2> QED BY <2>2, <2>3
<1> QED BY <1>0, <1>2, <1>3, Frame

LEMMA TypeInvNext == TypeInv /\ [Next]_vars => TypeInv'
BY ProgressNext, FilesNext, PendingNext, RequestsNext, PacketsNext, MatchedNext DEF TypeInv

LEMMA TypeInvCorrect == Spec => []TypeInv
<1> QED BY TypeInvInit, TypeInvNext, PTL DEF Spec

LEMMA TypeInvImplies == TypeInv => TypeOK
<1> SUFFICES ASSUME TypeInv PROVE TypeOK
  OBVIOUS
<1>1. \A n \in Node : \A name \in DOMAIN files[n] : IsFile(files[n][name])
  BY DEF TypeInv, FilesOK, IsRecord
<1>2. \A n \in Node : \A p \in DOMAIN pending[n] :
         pending[n][p][2] \in 0 .. Len(hashes[pending[n][p][1]])
  <2> SUFFICES ASSUME NEW n \in Node, NEW p \in DOMAIN pending[n]
               PROVE  pending[n][p][2] \in 0 .. Len(hashes[pending[n][p][1]])
    OBVIOUS
  <2>1. WasAsked(pending[n][p][1], pending[n][p][2])
    BY DEF TypeInv, PendingOK, IsFor
  <2>2. hashes[pending[n][p][1]] \in Seq(Chunk)
    BY <2>1 DEF WasAsked, TypeInv, ProgressOK
  <2> QED BY <2>1, <2>2 DEF WasAsked
<1>3. \A t \in timers : t[2] \in 0 .. Len(hashes[t[1]])
  <2> SUFFICES ASSUME NEW t \in timers PROVE t[2] \in 0 .. Len(hashes[t[1]])
    OBVIOUS
  <2>1. WasAsked(t[1], t[2])
    BY DEF TypeInv, RequestsOK
  <2>2. hashes[t[1]] \in Seq(Chunk)
    BY <2>1 DEF WasAsked, TypeInv, ProgressOK
  <2> QED BY <2>1, <2>2 DEF WasAsked
<1>4. \A c \in calling : c.part \in 0 .. part[c.download]
  <2> SUFFICES ASSUME NEW c \in calling PROVE c.part \in 0 .. part[c.download]
    OBVIOUS
  <2>1. WasAsked(c.download, c.part)
    BY DEF TypeInv, RequestsOK
  <2>2. part[c.download] \in Nat
    BY <2>1 DEF WasAsked, TypeInv, ProgressOK
  <2> QED BY <2>1, <2>2 DEF WasAsked
<1>5. \A n \in Node : \A k \in matched[n] : k.reply.src \in DOMAIN pending[n]
  BY DEF TypeInv, MatchedOK
<1> QED BY <1>1, <1>2, <1>3, <1>4, <1>5 DEF TypeOK, TypeInv, ProgressOK

\* Every variable keeps its type, and no part is waited for, requested or timed that
\* the file does not have.  (downloadGUI, sendDataRequest, handleDataReply)
THEOREM TransferTypeCorrect == Spec => []TypeOK
BY TypeInvCorrect, TypeInvImplies, PTL

-----------------------------------------------------------------------------
(***************************************************************************)
(* What belongs to whom.                                                   *)
(***************************************************************************)

\* A node that has seen no race yet had seen none before.
LEMMA RacesGrow ==
    ASSUME TypeInv, [Next]_vars
    PROVE  \A n \in Node : races'[n] = 0 => races[n] = 0
<1>0. races \in [Node -> Nat]
  BY DEF TypeInv, ProgressOK
<1>1. CASE SomeDataPassedOn
  <2>1. PICK n \in Node, happens \in BOOLEAN : Count(n, happens)
    BY <1>1 DEF SomeDataPassedOn, StopTimerAndSendData
  <2> QED BY <1>0, <2>1, NoRace
<1>2. CASE SomeTimeout
  <2>1. PICK t \in timers : Timeout(t[1], t[2])
    BY <1>2 DEF SomeTimeout
  <2>2. At(t[1]) \in Node
    BY <2>1, AtNode DEF TypeInv, RequestsOK
  <2>3. Race(At(t[1]), UnderWay(t[1], t[2]))
    BY <2>1 DEF Timeout
  <2>4. UnderWay(t[1], t[2]) \in BOOLEAN
    BY DEF UnderWay
  <2> QED BY <1>0, <2>2, <2>3, <2>4, NoRace DEF Race
<1>3. CASE SomeAnswered \/ SomeMatched
  <2>1. PICK m \in net : ReplyToDataRequest(m) \/ MatchDataReply(m)
    BY <1>3 DEF SomeAnswered, SomeMatched
  <2>2. m.src \in Node /\ m.dst \in Node
    BY <2>1 DEF TypeInv, PacketsOK
  <2>3. ReplyToDataRequest(m) => Race(m.src, FALSE) \/ Race(m.src, TRUE)
    BY DEF ReplyToDataRequest, Exchange
  <2>4. MatchDataReply(m) => Race(m.dst, Calling(m)) \/ Race(m.dst, TRUE)
    BY DEF MatchDataReply, Exchange
  <2>5. Calling(m) \in BOOLEAN
    BY DEF Calling
  <2>6. PICK n \in {m.src, m.dst}, happens \in BOOLEAN : Race(n, happens)
    BY <2>1, <2>3, <2>4, <2>5
  <2> QED BY <1>0, <2>2, <2>6, NoRace DEF Race
<1> QED BY <1>1, <1>2, <1>3, Frame

LEMMA PartsHash ==
    ASSUME NEW d \in Download, NEW h, h = Wanted[d].meta, h \in Seq(Chunk), NEW i \in 1 .. Len(h)
    PROVE  h[i] \in Parts(d)
<1>1. h \notin Chunk
  BY ChunkAssumption
<1>2. h[i] \in ToSet(h)
  BY DEF ToSet
<1> QED BY <1>1, <1>2 DEF Parts

\* Without a race the hash of a part is one of the file's.
LEMMA HashInParts ==
    ASSUME TypeInv, MetaInv, NEW d, NEW i, WasAsked(d, i), races[At(d)] = 0
    PROVE  HashOf(d, i) \in Parts(d)
<1>1. /\ d \in Download /\ i \in Nat /\ i <= Len(hashes[d]) /\ i <= part[d]
      /\ part[d] \in Nat /\ hashes[d] \in Seq(Chunk)
  BY DEF WasAsked, TypeInv, ProgressOK
<1>2. CASE i = 0
  BY <1>2 DEF HashOf, Parts
<1>3. CASE i # 0
  <2>1. hashes[d] = Wanted[d].meta
    BY <1>1, <1>3 DEF MetaInv
  <2>2. i \in 1 .. Len(hashes[d])
    BY <1>1, <1>3
  <2>3. hashes[d][i] \in Parts(d)
    BY <1>1, <2>1, <2>2, PartsHash
  <2> QED BY <1>3, <2>3 DEF HashOf
<1> QED BY <1>2, <1>3

LEMMA SentInParts ==
    ASSUME TypeInv', MetaInv', NEW d \in Download, NEW i \in Nat, WasAsked(d, i)', races'[At(d)] = 0
    PROVE  (IF i = 0 THEN Wanted[d].meta ELSE hashes'[d][i]) \in Parts(d)
<1>1. i <= Len(hashes'[d]) /\ i <= part'[d] /\ part'[d] \in Nat /\ hashes'[d] \in Seq(Chunk)
  BY DEF WasAsked, TypeInv, ProgressOK
<1>2. CASE i = 0
  BY <1>2 DEF Parts
<1>3. CASE i # 0
  <2>1. hashes'[d] = Wanted[d].meta
    BY <1>1, <1>3 DEF MetaInv, At
  <2>2. i \in 1 .. Len(hashes'[d])
    BY <1>1, <1>3
  <2>3. hashes'[d][i] \in Parts(d)
    BY <1>1, <2>1, <2>2, PartsHash
  <2> QED BY <1>3, <2>3
<1> QED BY <1>2, <1>3

\* Without a race the listener passes data on to the part it was matched for.
LEMMA PassedToMatch ==
    ASSUME TypeInv, NEW n \in Node, StopTimerAndSendData(n), races'[n] = 0
    PROVE  \E k \in matched[n] :
              /\ pending[n][k.reply.src] = k.for
              /\ timers' = timers \ {k.for}
              /\ k.for[1] \in Download /\ queue[k.for[1]] \in Seq(Data)
              /\ queue' = [queue EXCEPT ![k.for[1]] = Append(queue[k.for[1]], k.reply.data)]
              /\ matched' = [matched EXCEPT ![n] = {}]
<1>1. PICK k \in matched[n] :
         LET p == pending[n][k.reply.src]
         IN  /\ Count(n, p # k.for)
             /\ timers' = StopTimer(p)
             /\ queue' = [queue EXCEPT ![p[1]] = Append(queue[p[1]], k.reply.data)]
             /\ matched' = [matched EXCEPT ![n] = {}]
             /\ p \in Download \X Nat /\ k.reply.data \in Data
             /\ queue[p[1]] \in Seq(Data)
  BY PassingOn
<1>2. races \in [Node -> Nat]
  BY DEF TypeInv, ProgressOK
<1>3. pending[n][k.reply.src] = k.for
  BY <1>1, <1>2, NoRace
<1>4. k.for[1] \in Download
  BY DEF TypeInv, MatchedOK, IsFor
<1> QED BY <1>1, <1>3, <1>4 DEF StopTimer

LEMMA MetaInvNext ==
    ASSUME TypeInv, TypeInv', Grows, MetaInv, [Next]_vars
    PROVE  MetaInv'
<1> SUFFICES ASSUME NEW d \in Download, races'[At(d)] = 0
             PROVE  /\ part'[d] = 0 => \A j \in DOMAIN queue'[d] : queue'[d][j] = Wanted[d].meta
                    /\ part'[d] # 0 => hashes'[d] = Wanted[d].meta
  BY DEF MetaInv, At
<1>1. /\ part[d] = 0 => \A j \in DOMAIN queue[d] : queue[d][j] = Wanted[d].meta
      /\ part[d] # 0 => hashes[d] = Wanted[d].meta
  BY RacesGrow, AtNode DEF MetaInv
<1>2. queue \in [Download -> Seq(Data)] /\ part \in [Download -> Nat] /\ hashes \in [Download -> Seq(Chunk)]
  BY DEF TypeInv, ProgressOK
<1>3. CASE SomeDataPassedOn
  <2>1. PICK n \in Node : StopTimerAndSendData(n)
    BY <1>3 DEF SomeDataPassedOn
  <2>2. UNCHANGED <<part, hashes>>
    BY <2>1 DEF StopTimerAndSendData
  <2>3. CASE n = At(d)
    <3>1. PICK k \in matched[n] :
             /\ k.for[1] \in Download
             /\ queue' = [queue EXCEPT ![k.for[1]] = Append(queue[k.for[1]], k.reply.data)]
      BY <2>1, <2>3, PassedToMatch
    <3>2. CASE k.for[1] = d /\ part[d] = 0
      <4>1. WasAsked(d, k.for[2]) /\ k.reply.data = HashOf(d, k.for[2]) /\ k.reply.data \in Data
        BY <3>2 DEF TypeInv, MatchedOK, IsFor
      <4>2. k.for[2] = 0
        BY <3>2, <4>1 DEF WasAsked
      <4>3. k.reply.data = Wanted[d].meta
        BY <4>1, <4>2 DEF HashOf
      <4> DEFINE q == queue[d]
                 x == k.reply.data
      <4>4. queue'[d] = Append(q, x) /\ q \in Seq(Data)
        BY <1>2, <3>1, <3>2
      <4>5. \A j \in DOMAIN q : q[j] = x
        BY <1>1, <3>2, <4>3
      <4> HIDE DEF q, x
      <4>6. \A j \in DOMAIN Append(q, x) : Append(q, x)[j] = x
        BY <4>4, <4>5
      <4> QED BY <2>2, <3>2, <4>3, <4>4, <4>6 DEF x
    <3>3. CASE k.for[1] # d
      <4>1. queue'[d] = queue[d]
        BY <1>2, <3>1, <3>3
      <4> QED BY <1>1, <2>2, <4>1
    <3>4. CASE part[d] # 0
      BY <1>1, <2>2, <3>4
    <3> QED BY <3>2, <3>3, <3>4
  <2>4. CASE n # At(d)
    <3>1. PICK k \in matched[n] :
             /\ pending[n][k.reply.src][1] \in Download
             /\ queue' = [queue EXCEPT ![pending[n][k.reply.src][1]] =
                             Append(queue[pending[n][k.reply.src][1]], k.reply.data)]
      BY <2>1, PassingOn
    <3>2. At(pending[n][k.reply.src][1]) = n
      BY DEF TypeInv, MatchedOK, PendingOK, IsFor
    <3>3. queue'[d] = queue[d]
      BY <1>2, <2>4, <3>1, <3>2
    <3> QED BY <1>1, <2>2, <3>3
  <2> QED BY <2>3, <2>4
<1>4. CASE SomeTaken
  <2>1. PICK e \in Download : TakeData(e)
    BY <1>4 DEF SomeTaken
  <2>2. CASE e # d
    <3>1. part'[d] = part[d] /\ hashes'[d] = hashes[d]
      BY <2>1, <2>2, Progress
    <3>2. queue'[d] = queue[d]
      BY <1>2, <2>1, <2>2, Taking
    <3> QED BY <1>1, <3>1, <3>2
  <2>3. CASE e = d
    <3>1. /\ queue[d] # <<>> /\ queue[d] \in Seq(Data)
          /\ queue'[d] = Tail(queue[d])
          /\ Astray(d) \/ GoesOn(d)
      BY <1>2, <2>1, <2>3, Taking
    <3>2. CASE Astray(d)
      <4>1. part'[d] = 0 /\ part[d] = 0
        BY <3>2 DEF Astray
      <4>2. \A j \in DOMAIN Tail(queue[d]) : Tail(queue[d])[j] = queue[d][j + 1] /\ j + 1 \in DOMAIN queue[d]
        BY <3>1
      <4> QED BY <1>1, <3>1, <4>1, <4>2
    <3>3. CASE GoesOn(d)
      <4>1. part'[d] = part[d] + 1 /\ part[d] \in Nat
        BY <1>2, <3>3 DEF GoesOn
      <4>2. part[d] = 0 => hashes'[d] = Head(queue[d])
        BY <1>2, <3>3 DEF GoesOn
      <4>3. part[d] # 0 => hashes'[d] = hashes[d]
        BY <3>3 DEF GoesOn
      <4>4. Head(queue[d]) = queue[d][1] /\ 1 \in DOMAIN queue[d]
        BY <3>1
      <4> QED BY <1>1, <4>1, <4>2, <4>3, <4>4
    <3> QED BY <3>1, <3>2, <3>3
  <2> QED BY <2>2, <2>3
<1> QED BY <1>1, <1>3, <1>4, Frame

LEMMA TrafficNext ==
    ASSUME TypeInv, TypeInv', Grows, MetaInv', TrafficInv, [Next]_vars
    PROVE  TrafficInv'
<1> SUFFICES ASSUME NEW m \in net'
             PROVE  /\ m.type = "DRequest" /\ races'[m.src] = 0 => AsksFor(m.src, m.dst, m.hash)
                    /\ m.type = "DReply" /\ races'[m.dst] = 0 => AsksFor(m.dst, m.src, m.hash)
  BY DEF TrafficInv, AsksFor, At, Parts
<1>0. ProgressOK'
  BY DEF TypeInv
<1>1. m.src \in Node /\ m.dst \in Node
  BY DEF TypeInv, PacketsOK
<1>2. CASE m \in net
  BY <1>1, <1>2, RacesGrow DEF TrafficInv
<1>3. CASE \E d \in Download, i \in Nat, again \in BOOLEAN :
              /\ Sends(d, i, again) /\ WasAsked(d, i)'
              /\ m = DataRequest(At(d), Wanted[d].from[i], Wanted[d].name,
                                 IF i = 0 THEN Wanted[d].meta ELSE hashes'[d][i])
  <2>1. PICK d \in Download, i \in Nat :
              /\ WasAsked(d, i)'
              /\ m = DataRequest(At(d), Wanted[d].from[i], Wanted[d].name,
                                 IF i = 0 THEN Wanted[d].meta ELSE hashes'[d][i])
    BY <1>3
  <2>2. /\ m.type = "DRequest" /\ m.src = At(d) /\ m.dst = Wanted[d].from[i]
        /\ m.hash = IF i = 0 THEN Wanted[d].meta ELSE hashes'[d][i]
    BY <2>1 DEF DataRequest
  <2>3. races'[m.src] = 0 => m.hash \in Parts(d)
    BY <2>1, <2>2, SentInParts
  <2>4. m.dst \in Range(Wanted[d].from)
    BY <2>1, <2>2 DEF WasAsked, Range
  <2> QED BY <2>2, <2>3, <2>4 DEF AsksFor
<1>4. CASE \E q \in net : /\ q.type = "DRequest"
                          /\ \E data \in GetData(q.dst, q.name, q.hash) :
                                m = DataReply(q.dst, q.src, q.name, q.hash, data)
  <2>1. PICK q \in net : /\ q.type = "DRequest"
                         /\ \E data \in GetData(q.dst, q.name, q.hash) :
                                m = DataReply(q.dst, q.src, q.name, q.hash, data)
    BY <1>4
  <2>2. m.type = "DReply" /\ m.src = q.dst /\ m.dst = q.src /\ m.hash = q.hash
    BY <2>1 DEF DataReply
  <2> QED BY <1>1, <2>1, <2>2, RacesGrow DEF TrafficInv
<1> QED BY <1>0, <1>2, <1>3, <1>4, NewPackets

\* Its files are stored under their hashes.
IsKeyed(file) ==
    /\ file.metafile = file.metaHash
    /\ \A h \in DOMAIN file.chunks : file.chunks[h] = h

LEMMA SharerNext ==
    ASSUME TypeInv, TypeInv', Grows, SharerInv, [Next]_vars
    PROVE  SharerInv'
<1>0. ProgressOK' /\ DOMAIN files = Node
  BY DEF TypeInv, FilesOK
<1>1. \A p \in Node : OnlyShares(p) => \A name \in DOMAIN files[p] : IsKeyed(files[p][name])
  BY DEF SharerInv, IsKeyed
<1>2. ASSUME NEW p \in Node, OnlyShares(p)
      PROVE  \A name \in DOMAIN files'[p] : IsKeyed(files'[p][name])
  <2>1. CASE SomeFileAdded
    <3>1. PICK n \in Node : \E name \in DOMAIN Disk[n] : AddFile(n, name)
      BY <2>1 DEF SomeFileAdded
    <3>2. PICK name \in DOMAIN Disk[n] : AddFile(n, name)
      BY <3>1
    <3> DEFINE chunks == Disk[n][name]
               file == [metafile |-> chunks, metaHash |-> chunks, chunks |-> [c \in ToSet(chunks) |-> c]]
    <3>3. files' = [files EXCEPT ![n] = With(files[n], name, file)]
      BY <3>2 DEF AddFile
    <3>4. IsKeyed(file)
      BY DEF IsKeyed
    <3> HIDE DEF file
    <3>5. CASE n = p
      <4>1. files'[p] = With(files[p], name, file)
        BY <1>0, <3>3, <3>5
      <4> QED BY <1>1, <1>2, <3>4, <4>1 DEF With
    <3>6. CASE n # p
      BY <1>1, <1>2, <3>3, <3>6
    <3> QED BY <3>5, <3>6
  <2>2. CASE SomeTaken
    <3>1. PICK d \in Download : TakeData(d)
      BY <2>2 DEF SomeTaken
    <3>2. At(d) # p
      BY <1>2 DEF OnlyShares
    <3>3. files'[p] = files[p]
      BY <1>0, <3>1, <3>2, Taking
    <3> QED BY <1>1, <1>2, <3>3
  <2> QED BY <1>1, <1>2, <2>1, <2>2, Frame
<1>3. ASSUME NEW m \in net', m.type = "DReply", OnlyShares(m.src)
      PROVE  m.data = m.hash
  <2>1. CASE m \in net
    BY <1>3, <2>1 DEF SharerInv
  <2>2. CASE m \notin net
    <3>1. PICK q \in net : /\ q.type = "DRequest"
                           /\ \E data \in GetData(q.dst, q.name, q.hash) :
                                 m = DataReply(q.dst, q.src, q.name, q.hash, data)
      BY <1>0, <1>3, <2>2, NewPackets DEF DataRequest
    <3>2. PICK data \in GetData(q.dst, q.name, q.hash) :
             m = DataReply(q.dst, q.src, q.name, q.hash, data)
      BY <3>1
    <3>3. m.src = q.dst /\ m.hash = q.hash /\ m.data = data
      BY <3>2 DEF DataReply
    <3>4. q.dst \in Node /\ q.name \in DOMAIN files[q.dst]
      BY <3>2 DEF TypeInv, PacketsOK, GetData
    <3> DEFINE file == files[q.dst][q.name]
    <3>5. IsKeyed(file)
      BY <1>1, <1>3, <3>3, <3>4
    <3>6. data \in IF file.metaHash = q.hash THEN {file.metafile}
                   ELSE {file.chunks[k] : k \in DOMAIN file.chunks \cap {q.hash}}
      BY <3>2, <3>4 DEF GetData
    <3> HIDE DEF file
    <3> QED BY <3>3, <3>5, <3>6 DEF IsKeyed
  <2> QED BY <2>1, <2>2
<1> QED BY <1>2, <1>3 DEF SharerInv, IsKeyed, OnlyShares, At

-----------------------------------------------------------------------------
(***************************************************************************)
(* One thing at a time.                                                    *)
(***************************************************************************)

\* Nothing new is under way for d.
LEMMA NothingNew ==
    ASSUME NEW d \in Download, OneInv(d),
           Calls(d)' = Calls(d), Timed(d)' = Timed(d),
           Hits(d)' \subseteq Hits(d), Mine(d)' \subseteq Mine(d),
           queue'[d] = queue[d], stage'[d] = stage[d], part'[d] = part[d], hashes'[d] = hashes[d],
           \A p \in DOMAIN pending[At(d)] :
              /\ p \in DOMAIN pending'[At(d)]
              /\ pending'[At(d)][p] = pending[At(d)][p] \/ pending'[At(d)][p][1] # d
    PROVE  OneInv(d)'
<1>1. Waits(d)' <=> Waits(d)
  BY DEF Waits
<1>2. HashOf(d, part[d])' = HashOf(d, part[d])
  BY DEF HashOf
<1>3. \A m : IsAbout(m, d) => IsAbout(m, d)'
  BY <1>2 DEF IsAbout, At
<1>4. CallInv(d)'
  <2>1. \A c \in Calls(d)' : /\ Waits(d)' /\ c.part = part'[d]
                             /\ Timed(d)' = {} /\ Hits(d)' = {} /\ \A b \in Calls(d)' : b = c
    BY <1>1 DEF OneInv, CallInv
  <2> QED BY <2>1 DEF CallInv
<1>5. TimerInv(d)'
  <2> SUFFICES ASSUME NEW t \in Timed(d)'
               PROVE  LET p == Wanted[d].from[part'[d]]
                      IN  /\ Waits(d)' /\ t[2] = part'[d]
                          /\ p \in DOMAIN pending'[At(d)]
                          /\ pending'[At(d)][p][1] = d => pending'[At(d)][p] = <<d, part'[d]>>
    BY DEF TimerInv, At
  <2> DEFINE p == Wanted[d].from[part[d]]
  <2>1. /\ Waits(d) /\ t[2] = part[d] /\ p \in DOMAIN pending[At(d)]
        /\ pending[At(d)][p][1] = d => pending[At(d)][p] = <<d, part[d]>>
    BY DEF OneInv, TimerInv
  <2> QED BY <1>1, <2>1
<1>6. PacketInv(d)'
  <2>1. \A m \in Mine(d)' : /\ Waits(d)' /\ IsAbout(m, d)'
                            /\ Calls(d)' # {} \/ Timed(d)' # {}
                            /\ Hits(d)' = {} /\ \A b \in Mine(d)' : b = m
    BY <1>1, <1>3 DEF OneInv, PacketInv
  <2> QED BY <2>1 DEF PacketInv
<1>7. HitInv(d)'
  <2>1. \A k \in Hits(d)' : Waits(d)' /\ k.for[2] = part'[d] /\ IsAbout(k.reply, d)'
    BY <1>1, <1>3 DEF OneInv, HitInv
  <2> QED BY <2>1 DEF HitInv
<1>8. QueueInv(d)'
  BY <1>2 DEF OneInv, QueueInv
<1> QED BY <1>4, <1>5, <1>6, <1>7, <1>8 DEF OneInv

\* Nothing is under way for d.
LEMMA NothingLeft ==
    ASSUME NEW d \in Download, Calls(d)' = {}, Timed(d)' = {}, Hits(d)' = {}, Mine(d)' = {},
           queue'[d] = <<>>
    PROVE  OneInv(d)'
BY DEF OneInv, CallInv, TimerInv, PacketInv, HitInv, QueueInv

\* The request for the part d waits for is all there is.
LEMMA RequestOnly ==
    ASSUME NEW d \in Download, NEW i, NEW again, NEW m,
           Calls(d)' = {[download |-> d, part |-> i, again |-> again]},
           Timed(d)' = {}, Hits(d)' = {}, Mine(d)' \subseteq {m},
           queue'[d] = <<>>, stage'[d] = "busy", part'[d] = i,
           IsAbout(m, d)'
    PROVE  OneInv(d)'
<1>1. Waits(d)'
  BY DEF Waits
<1> DEFINE c == [download |-> d, part |-> i, again |-> again]
<1>2. c.part = i
  OBVIOUS
<1> HIDE DEF c
<1>3. Calls(d)' = {c}
  BY DEF c
<1>4. CallInv(d)'
  BY <1>1, <1>2, <1>3 DEF CallInv
<1>5. TimerInv(d)' /\ HitInv(d)' /\ QueueInv(d)'
  BY DEF TimerInv, HitInv, QueueInv
<1>6. PacketInv(d)'
  BY <1>1, <1>3 DEF PacketInv
<1> QED BY <1>4, <1>5, <1>6 DEF OneInv

\* What is asked for d only, is asked by d.
LEMMA OwnRequest ==
    ASSUME TypeInv', MetaInv', NEW d \in Download, Clean(d)', NEW e \in Download, NEW i \in Nat,
           WasAsked(e, i)', NEW m, m \in Mine(d)',
           m = DataRequest(At(e), Wanted[e].from[i], Wanted[e].name,
                           IF i = 0 THEN Wanted[e].meta ELSE hashes'[e][i])
    PROVE  e = d
<1>1. /\ m.type = "DRequest" /\ m.src = At(e) /\ m.dst = Wanted[e].from[i]
      /\ m.hash = IF i = 0 THEN Wanted[e].meta ELSE hashes'[e][i]
  BY DEF DataRequest
<1>2. m.hash \in Parts(d) /\ m.src = At(d) /\ m.dst \in Range(Wanted[d].from)
  BY <1>1 DEF Mine, At, Parts
<1>3. races'[At(e)] = 0
  BY <1>1, <1>2 DEF Clean, At
<1>4. m.hash \in Parts(e)
  BY <1>1, <1>3, SentInParts
<1>5. m.dst \in Range(Wanted[e].from)
  BY <1>1 DEF WasAsked, Range
<1>6. ASSUME e # d PROVE FALSE
  <2>1. e \in Rivals(d)
    BY <1>1, <1>2, <1>5, <1>6 DEF Rivals
  <2>2. Apart(d, e)
    BY <2>1 DEF Clean, Rivals, Apart, At, Parts
  <2> QED BY <1>2, <1>4, <2>2 DEF Apart
<1> QED BY <1>6

\* A reply with the data of a part d has asked for answers d.
LEMMA OwnReply ==
    ASSUME TypeInv, MetaInv, TrafficInv, SharerInv,
           NEW d \in Download, Clean(d), NEW i, WasAsked(d, i), NEW m \in net,
           m.type = "DReply", m.dst = At(d), m.src = Wanted[d].from[i], m.data = HashOf(d, i)
    PROVE  m \in Mine(d)
<1>1. m.data \in Parts(d)
  BY HashInParts DEF Clean
<1>2. m.src \in Range(Wanted[d].from) /\ m.src \in Node
  BY DEF WasAsked, Range, TypeInv, PacketsOK
<1>3. PICK e \in Download : At(e) = m.dst /\ m.src \in Range(Wanted[e].from) /\ m.hash \in Parts(e)
  BY DEF TrafficInv, AsksFor, Clean
<1>4. CASE e = d
  BY <1>2, <1>3, <1>4 DEF Mine
<1>5. CASE e # d
  <2>1. e \in Rivals(d)
    BY <1>2, <1>3, <1>5 DEF Rivals
  <2>2. Apart(d, e)
    BY <2>1 DEF Clean
  <2>3. OnlyShares(m.src)
    BY <1>2, <1>3, <2>2 DEF Apart, OnlyShares
  <2>4. m.data = m.hash
    BY <2>3 DEF SharerInv
  <2> QED BY <1>1, <1>3, <2>2, <2>4 DEF Apart
<1> QED BY <1>4, <1>5

\* When d waits for nothing, nothing is under way; neither is when it has data.
LEMMA NotWaiting ==
    ASSUME NEW d \in Download, OneInv(d), ~ Waits(d)
    PROVE  Calls(d) = {} /\ Timed(d) = {} /\ Hits(d) = {} /\ Mine(d) = {}
BY DEF OneInv, CallInv, TimerInv, PacketInv, HitInv

\* The packets of d after a step of another download.
LEMMA OthersAsk ==
    ASSUME TypeInv', MetaInv', NEW d \in Download, Clean(d)', NEW e \in Download \ {d},
           NEW i \in Nat, NEW again, WasAsked(e, i)', Sends(e, i, again)
    PROVE  Calls(d)' = Calls(d) /\ Mine(d)' \subseteq Mine(d)
<1>1. CASE UNCHANGED <<net, calling>>
  BY <1>1 DEF Calls, Mine, At, Parts
<1>2. CASE ~ UNCHANGED <<net, calling>>
  <2> DEFINE m == DataRequest(At(e), Wanted[e].from[i], Wanted[e].name,
                              IF i = 0 THEN Wanted[e].meta ELSE hashes'[e][i])
             c == [download |-> e, part |-> i, again |-> again]
  <2>1. net' = net \cup {m} /\ calling' = calling \cup {c}
    BY <1>2 DEF Sends
  <2>2. c.download # d
    OBVIOUS
  <2>3. m \notin Mine(d)'
    BY OwnRequest
  <2> HIDE DEF m, c
  <2>4. Calls(d)' = Calls(d)
    BY <2>1, <2>2 DEF Calls
  <2>5. Mine(d)' \subseteq Mine(d)
    BY <2>1, <2>3 DEF Mine, At, Parts
  <2> QED BY <2>4, <2>5
<1> QED BY <1>1, <1>2

\* d sends the request for the part it waits for, with nothing under way.
LEMMA AsksAlone ==
    ASSUME TypeInv', NEW d \in Download, NEW i \in Nat, NEW again, Sends(d, i, again),
           Calls(d) = {}, Mine(d) = {}, Timed(d)' = {}, Hits(d)' = {},
           queue'[d] = <<>>, stage'[d] = "busy", part'[d] = i
    PROVE  OneInv(d)'
<1>1. CASE UNCHANGED <<net, calling>>
  <2>1. Calls(d)' = {} /\ Mine(d)' = {}
    BY <1>1 DEF Calls, Mine, At, Parts
  <2> QED BY <2>1, NothingLeft
<1>2. CASE ~ UNCHANGED <<net, calling>>
  <2> DEFINE c == [download |-> d, part |-> i, again |-> again]
  <2>0. PICK m : m = DataRequest(At(d), Wanted[d].from[i], Wanted[d].name,
                                 IF i = 0 THEN Wanted[d].meta ELSE hashes'[d][i])
    OBVIOUS
  <2>1. net' = net \cup {m} /\ calling' = calling \cup {c}
    BY <1>2, <2>0 DEF Sends
  <2>2. c.download = d
    OBVIOUS
  <2>3. /\ m.src = At(d) /\ m.dst = Wanted[d].from[i]
        /\ m.hash = IF i = 0 THEN Wanted[d].meta ELSE hashes'[d][i]
    BY <2>0 DEF DataRequest
  <2>4. Mine(d)' \subseteq {m}
    BY <2>1 DEF Mine, At, Parts
  <2>5. IsAbout(m, d)'
    BY <2>3 DEF IsAbout, HashOf, At
  <2> HIDE DEF c
  <2>6. Calls(d)' = {c}
    BY <2>1, <2>2 DEF Calls
  <2> QED BY <2>4, <2>5, <2>6, RequestOnly DEF c
<1> QED BY <1>1, <1>2

\* The hypotheses of a step of d.
Before(d) ==
    /\ TypeInv /\ MetaInv /\ TrafficInv /\ SharerInv
    /\ d \in Download /\ Clean(d) /\ OneInv(d)

After(d) == TypeInv' /\ MetaInv' /\ Grows /\ Clean(d)'

LEMMA OneInvStart ==
    ASSUME NEW d, Before(d), After(d), NEW e \in Download, StartDownload(e)
    PROVE  OneInv(d)'
<1> USE DEF Before, After
<1>1. /\ stage[e] = "idle" /\ stage' = [stage EXCEPT ![e] = "busy"]
      /\ UNCHANGED <<pending, timers, queue, part, matched, hashes>>
  BY DEF StartDownload
<1>2. UNCHANGED <<net, calling>> \/ Sends(e, 0, FALSE)
  BY Sending DEF StartDownload, NobodyToAsk
<1>3. Timed(d)' = Timed(d) /\ Hits(d)' = Hits(d)
  BY <1>1 DEF Timed, Hits, At
<1>4. /\ stage \in [Download -> {"idle", "busy", "done", "astray"}]
      /\ part[e] = 0 /\ part'[e] \in Nat /\ hashes'[e] \in Seq(Chunk)
  BY <1>1 DEF TypeInv, ProgressOK
<1>5. CASE e # d
  <2>1. Calls(d)' = Calls(d) /\ Mine(d)' \subseteq Mine(d)
    <3>1. CASE UNCHANGED <<net, calling>>
      BY <3>1 DEF Calls, Mine, At, Parts
    <3>2. CASE Sends(e, 0, FALSE)
      <4>1. WasAsked(e, 0)'
        BY <1>4, <3>2 DEF WasAsked, Sends
      <4> QED BY <1>5, <3>2, <4>1, OthersAsk
    <3> QED BY <1>2, <3>1, <3>2
  <2>2. stage'[d] = stage[d]
    BY <1>1, <1>4, <1>5
  <2> QED BY <1>1, <1>3, <2>1, <2>2, NothingNew
<1>6. CASE e = d
  <2>1. ~ Waits(d) /\ queue[d] = <<>>
    BY <1>1, <1>6 DEF Waits, OneInv, QueueInv
  <2>2. Calls(d) = {} /\ Timed(d) = {} /\ Hits(d) = {} /\ Mine(d) = {}
    BY <2>1, NotWaiting
  <2>3. queue'[d] = <<>> /\ stage'[d] = "busy" /\ part'[d] = 0
    BY <1>1, <1>4, <1>6, <2>1
  <2>4. CASE UNCHANGED <<net, calling>>
    <3>1. Calls(d)' = {} /\ Mine(d)' = {}
      BY <2>2, <2>4 DEF Calls, Mine, At, Parts
    <3> QED BY <1>3, <2>2, <2>3, <3>1, NothingLeft
  <2>5. CASE Sends(d, 0, FALSE)
    <3>1. Timed(d)' = {} /\ Hits(d)' = {} /\ 0 \in Nat
      BY <1>3, <2>2
    <3>2. Sends(d, 0, FALSE)
      BY <2>5
    <3> QED BY <2>2, <2>3, <3>1, <3>2, AsksAlone
  <2> QED BY <1>2, <1>6, <2>4, <2>5
<1> QED BY <1>5, <1>6

LEMMA OneInvTake ==
    ASSUME NEW d, Before(d), After(d), NEW e \in Download, TakeData(e)
    PROVE  OneInv(d)'
<1> USE DEF Before, After
<1>1. /\ stage[e] = "busy" /\ queue[e] # <<>>
      /\ queue' = [queue EXCEPT ![e] = Tail(queue[e])]
      /\ UNCHANGED <<pending, timers, matched>>
      /\ Astray(e) \/ (GoesOn(e) /\ (Ends(e) \/ AsksNext(e)))
  BY Taking
<1>2. Timed(d)' = Timed(d) /\ Hits(d)' = Hits(d)
  BY <1>1 DEF Timed, Hits, At
<1>3. queue \in [Download -> Seq(Data)] /\ part[e] \in Nat /\ part \in [Download -> Nat]
  BY DEF TypeInv, ProgressOK
<1>4. ASSUME GoesOn(e), AsksNext(e), ~ UNCHANGED <<net, calling>>
      PROVE  \E i \in Nat : i = part'[e] /\ Sends(e, i, FALSE) /\ WasAsked(e, i)' /\ stage'[e] = "busy"
  <2>1. PICK i \in Nat : i = part[e] + 1
    BY <1>3
  <2>2. part'[e] = i
    BY <1>3, <1>4, <2>1 DEF GoesOn
  <2>3. Sends(e, i, FALSE) /\ ~ (i > Len(hashes'[e])) /\ stage' = stage
    BY <1>4, <2>1 DEF AsksNext
  <2>4. Len(hashes'[e]) \in Nat
    BY DEF TypeInv, ProgressOK
  <2>5. WasAsked(e, i)'
    BY <2>2, <2>3, <2>4 DEF WasAsked, Sends
  <2> QED BY <1>1, <2>2, <2>3, <2>5
<1>5. CASE e # d
  <2>1. Calls(d)' = Calls(d) /\ Mine(d)' \subseteq Mine(d)
    <3>1. CASE UNCHANGED <<net, calling>>
      BY <3>1 DEF Calls, Mine, At, Parts
    <3>2. CASE ~ UNCHANGED <<net, calling>>
      <4>1. GoesOn(e) /\ AsksNext(e)
        BY <1>1, <3>2 DEF Astray, Ends
      <4> QED BY <1>4, <1>5, <3>2, <4>1, OthersAsk
    <3> QED BY <3>1, <3>2
  <2>2. part'[d] = part[d] /\ hashes'[d] = hashes[d] /\ stage'[d] = stage[d]
    BY <1>5, Progress
  <2>3. queue'[d] = queue[d]
    BY <1>1, <1>3, <1>5
  <2> QED BY <1>1, <1>2, <2>1, <2>2, <2>3, NothingNew
<1>6. CASE e = d
  <2>1. ~ Waits(d) /\ queue[d] = <<HashOf(d, part[d])>>
    BY <1>1, <1>6 DEF Waits, OneInv, QueueInv
  <2>2. Calls(d) = {} /\ Timed(d) = {} /\ Hits(d) = {} /\ Mine(d) = {}
    BY <2>1, NotWaiting
  <2>3. queue'[d] = <<>>
    BY <1>1, <1>3, <1>6, <2>1
  <2>4. CASE UNCHANGED <<net, calling>>
    <3>1. Calls(d)' = {} /\ Mine(d)' = {}
      BY <2>2, <2>4 DEF Calls, Mine, At, Parts
    <3> QED BY <1>2, <2>2, <2>3, <3>1, NothingLeft
  <2>5. CASE ~ UNCHANGED <<net, calling>>
    <3>1. GoesOn(e) /\ AsksNext(e)
      BY <1>1, <2>5 DEF Astray, Ends
    <3>2. PICK i \in Nat : i = part'[d] /\ Sends(d, i, FALSE) /\ stage'[d] = "busy"
      BY <1>4, <1>6, <2>5, <3>1
    <3> QED BY <1>2, <2>2, <2>3, <3>2, AsksAlone
  <2> QED BY <2>4, <2>5
<1> QED BY <1>5, <1>6

LEMMA OneInvTimeout ==
    ASSUME NEW d, Before(d), After(d), NEW t \in timers, Timeout(t[1], t[2])
    PROVE  OneInv(d)'
<1> USE DEF Before, After
<1>0. t \in Download \X Nat /\ WasAsked(t[1], t[2])
  BY DEF TypeInv, RequestsOK
<1>1. /\ timers' = timers \ {<<t[1], t[2]>>}
      /\ SendDataRequest(t[1], t[2], TRUE)
      /\ UNCHANGED <<hashes, pending, queue, stage, part, matched>>
      /\ Race(At(t[1]), UnderWay(t[1], t[2]))
  BY DEF Timeout
<1>2. Sends(t[1], t[2], TRUE) /\ t = <<t[1], t[2]>>
  <2>1. t[2] \in DOMAIN Wanted[t[1]].from
    BY <1>0 DEF WasAsked
  <2>2. Sends(t[1], t[2], TRUE)
    BY <1>1, <2>1, Sending
  <2>3. t = <<t[1], t[2]>>
    BY <1>0
  <2> QED BY <2>2, <2>3
<1>3. WasAsked(t[1], t[2])'
  BY <1>0, AskedStays DEF TypeInv
<1>4. Hits(d)' = Hits(d)
  BY <1>1 DEF Hits, At
<1>5. CASE t[1] # d
  <2>1. Calls(d)' = Calls(d) /\ Mine(d)' \subseteq Mine(d)
    BY <1>0, <1>2, <1>3, <1>5, OthersAsk
  <2>2. Timed(d)' = Timed(d)
    BY <1>1, <1>2, <1>5 DEF Timed
  <2> QED BY <1>1, <1>4, <2>1, <2>2, NothingNew
<1>6. CASE t[1] = d
  <2>1. t \in Timed(d)
    BY <1>6 DEF Timed
  <2>2. Waits(d) /\ t[2] = part[d] /\ \A u \in Timed(d) : u[2] = part[d]
    BY <2>1 DEF OneInv, TimerInv
  <2>3. Calls(d) = {}
    BY <2>1 DEF OneInv, CallInv
  <2>4. ~ UnderWay(d, part[d])
    <3>1. UnderWay(t[1], t[2]) \in BOOLEAN
      BY DEF UnderWay
    <3>2. At(d) \in Node /\ races'[At(d)] = 0 /\ races \in [Node -> Nat]
      BY AtNode DEF Clean, At, TypeInv, ProgressOK
    <3> QED BY <1>1, <1>6, <2>2, <3>1, <3>2, NoRace DEF Race
  <2>5. part[d] \in 0 .. Len(hashes[d])
    BY <1>0, <1>6, <2>2 DEF WasAsked
  <2>6. Mine(d) = {}
    <3>1. \A m \in Mine(d) : m \in net /\ IsAbout(m, d)
      BY DEF OneInv, PacketInv, Mine
    <3> QED BY <2>4, <2>5, <3>1 DEF UnderWay, IsAbout
  <2>7. Hits(d) = {}
    <3>1. \A k \in Hits(d) : k \in matched[At(d)] /\ IsAbout(k.reply, d)
      BY DEF OneInv, HitInv, Hits
    <3> QED BY <2>4, <2>5, <3>1 DEF UnderWay, IsAbout
  <2>8. Timed(d)' = {}
    <3>1. \A u \in Timed(d) : u = <<d, part[d]>>
      BY <2>2 DEF Timed, TypeInv, RequestsOK
    <3> QED BY <1>1, <1>6, <2>2, <3>1 DEF Timed
  <2>9. queue'[d] = <<>> /\ stage'[d] = "busy" /\ part'[d] = t[2]
    BY <1>1, <2>2 DEF Waits
  <2> QED BY <1>0, <1>2, <1>4, <1>6, <2>3, <2>6, <2>7, <2>8, <2>9, AsksAlone
<1> QED BY <1>5, <1>6

LEMMA OneInvSet ==
    ASSUME NEW d, Before(d), After(d), NEW c \in calling, SetPending(c)
    PROVE  OneInv(d)'
<1> USE DEF Before, After
<1> DEFINE e == c.download
           p == Wanted[e].from[c.part]
           x == <<e, c.part>>
<1>0. WasAsked(e, c.part) /\ e \in Download /\ At(e) \in Node /\ At(d) \in Node /\ DOMAIN pending = Node
  BY AtNode DEF TypeInv, RequestsOK, WasAsked, PendingOK
<1>1. /\ calling' = calling \ {c}
      /\ timers' = timers \cup {x}
      /\ pending' = [pending EXCEPT ![At(e)] = With(pending[At(e)], p, x)]
      /\ UNCHANGED <<queue, stage, part, hashes, matched, net>>
  BY DEF SetPending, StartTimer
<1>2. Hits(d)' = Hits(d) /\ Mine(d)' = Mine(d)
  BY <1>1 DEF Hits, Mine, At, Parts
<1> DEFINE more == With(pending[At(e)], p, x)
<1>3. /\ DOMAIN more = DOMAIN pending[At(e)] \cup {p}
      /\ \A q \in DOMAIN pending[At(e)] \cup {p} : more[q] = IF q = p THEN x ELSE pending[At(e)][q]
  BY DEF With
<1>4. x[1] = e /\ x[2] = c.part
  OBVIOUS
<1> HIDE DEF more
<1>5. CASE e # d
  <2>1. Calls(d)' = Calls(d)
    BY <1>1, <1>5 DEF Calls
  <2>2. Timed(d)' = Timed(d)
    BY <1>1, <1>4, <1>5 DEF Timed
  <2>3. \A q \in DOMAIN pending[At(d)] :
           /\ q \in DOMAIN pending'[At(d)]
           /\ pending'[At(d)][q] = pending[At(d)][q] \/ pending'[At(d)][q][1] # d
    <3>1. CASE At(e) = At(d)
      <4>1. pending'[At(d)] = more
        BY <1>0, <1>1, <3>1 DEF more
      <4> QED BY <1>3, <1>4, <1>5, <3>1, <4>1
    <3>2. CASE At(e) # At(d)
      BY <1>0, <1>1, <3>2
    <3> QED BY <3>1, <3>2
  <2> QED BY <1>1, <1>2, <2>1, <2>2, <2>3, NothingNew
<1>6. CASE e = d
  <2>1. c \in Calls(d)
    BY <1>6 DEF Calls
  <2>2. /\ Waits(d) /\ c.part = part[d] /\ Timed(d) = {} /\ Hits(d) = {}
        /\ \A b \in Calls(d) : b = c
    BY <2>1 DEF OneInv, CallInv
  <2>3. Calls(d)' = {}
    BY <1>1, <2>2 DEF Calls
  <2>4. Timed(d)' = {x}
    BY <1>1, <1>4, <1>6, <2>2 DEF Timed
  <2>5. Waits(d)' /\ part'[d] = part[d] /\ HashOf(d, part[d])' = HashOf(d, part[d])
    BY <1>1, <2>2 DEF Waits, HashOf
  <2>6. CallInv(d)' /\ HitInv(d)'
    BY <1>2, <2>2, <2>3 DEF CallInv, HitInv
  <2>7. TimerInv(d)'
    <3>1. pending'[At(d)] = more
      BY <1>0, <1>1, <1>6 DEF more
    <3>2. p \in DOMAIN pending'[At(d)] /\ pending'[At(d)][p] = x
      BY <1>3, <3>1
    <3> QED BY <1>4, <1>6, <2>2, <2>4, <2>5, <3>2 DEF TimerInv, At
  <2>8. PacketInv(d)'
    <3>1. \A m \in Mine(d) : IsAbout(m, d)' /\ \A b \in Mine(d) : b = m
      BY <2>5 DEF OneInv, PacketInv, IsAbout, At
    <3>2. \A m \in Mine(d)' : /\ Waits(d)' /\ IsAbout(m, d)'
                              /\ Calls(d)' # {} \/ Timed(d)' # {}
                              /\ Hits(d)' = {} /\ \A b \in Mine(d)' : b = m
      BY <1>2, <2>2, <2>4, <2>5, <3>1
    <3> QED BY <3>2 DEF PacketInv
  <2>9. QueueInv(d)'
    BY <1>1, <2>2 DEF QueueInv, Waits
  <2> QED BY <2>6, <2>7, <2>8, <2>9 DEF OneInv
<1> QED BY <1>5, <1>6

LEMMA OneInvPassOn ==
    ASSUME NEW d, Before(d), After(d), NEW n \in Node, StopTimerAndSendData(n)
    PROVE  OneInv(d)'
<1> USE DEF Before, After
<1>0. /\ queue \in [Download -> Seq(Data)] /\ DOMAIN matched = Node /\ At(d) \in Node
      /\ UNCHANGED <<pending, calling, stage, part, hashes, net>>
      /\ matched' = [matched EXCEPT ![n] = {}]
  BY AtNode DEF TypeInv, ProgressOK, MatchedOK, StopTimerAndSendData
<1>1. Calls(d)' = Calls(d) /\ Mine(d)' = Mine(d)
  BY <1>0 DEF Calls, Mine, At, Parts
<1>2. Hits(d)' \subseteq Hits(d)
  BY <1>0 DEF Hits, At
<1>3. ASSUME NEW p, p[1] # d, timers' = timers \ {p}, queue'[d] = queue[d]
      PROVE  OneInv(d)'
  <2>1. Timed(d)' = Timed(d)
    BY <1>3 DEF Timed
  <2> QED BY <1>0, <1>1, <1>2, <1>3, <2>1, NothingNew
<1>4. CASE n # At(d)
  <2>1. PICK k \in matched[n] : \E p :
           /\ p = pending[n][k.reply.src]
           /\ timers' = timers \ {p}
           /\ queue' = [queue EXCEPT ![p[1]] = Append(queue[p[1]], k.reply.data)]
           /\ p \in Download \X Nat
    BY PassingOn DEF StopTimer
  <2>2. PICK p :
           /\ p = pending[n][k.reply.src]
           /\ timers' = timers \ {p}
           /\ queue' = [queue EXCEPT ![p[1]] = Append(queue[p[1]], k.reply.data)]
           /\ p \in Download \X Nat
    BY <2>1
  <2>3. At(p[1]) = n
    BY <2>2 DEF TypeInv, MatchedOK, PendingOK, IsFor
  <2>4. p[1] # d
    BY <1>4, <2>3
  <2>5. queue'[d] = queue[d]
    BY <1>0, <2>2, <2>4
  <2> QED BY <1>3, <2>2, <2>4, <2>5
<1>5. CASE n = At(d)
  <2>0. races'[n] = 0
    BY <1>5 DEF Clean, At
  <2>1. PICK k \in matched[n] :
           /\ timers' = timers \ {k.for}
           /\ queue' = [queue EXCEPT ![k.for[1]] = Append(queue[k.for[1]], k.reply.data)]
    BY <2>0, PassedToMatch
  <2>2. CASE k.for[1] # d
    <3>1. queue'[d] = queue[d]
      BY <1>0, <2>1, <2>2
    <3> QED BY <1>3, <2>1, <2>2, <3>1
  <2>3. CASE k.for[1] = d
    <3>1. k \in Hits(d)
      BY <1>5, <2>3 DEF Hits
    <3>2. Waits(d) /\ k.for[2] = part[d] /\ k.for = <<d, part[d]>>
      <4>1. k.for \in Download \X Nat
        BY DEF TypeInv, MatchedOK, IsFor
      <4> QED BY <2>3, <3>1, <4>1 DEF OneInv, HitInv
    <3>3. k.reply.data = HashOf(d, part[d])
      BY <2>3, <3>2 DEF TypeInv, MatchedOK
    <3>4. Calls(d) = {} /\ Mine(d) = {}
      BY <3>1 DEF OneInv, CallInv, PacketInv
    <3>5. Timed(d)' = {}
      <4>1. \A t \in Timed(d) : t = <<d, part[d]>>
        BY DEF OneInv, TimerInv, Timed, TypeInv, RequestsOK
      <4> QED BY <2>1, <3>2, <4>1 DEF Timed
    <3>6. Hits(d)' = {}
      BY <1>0, <1>5 DEF Hits, At
    <3>7. queue'[d] = <<HashOf(d, part[d])>> /\ stage'[d] = "busy"
      BY <1>0, <2>1, <2>3, <3>2, <3>3 DEF Waits
    <3>8. HashOf(d, part[d])' = HashOf(d, part[d])
      BY <1>0 DEF HashOf
    <3> QED BY <1>1, <3>4, <3>5, <3>6, <3>7, <3>8
            DEF OneInv, CallInv, TimerInv, PacketInv, HitInv, QueueInv
  <2> QED BY <2>2, <2>3
<1> QED BY <1>4, <1>5

\* The reply to a request is for whoever sent the request.
LEMMA OneInvAnswer ==
    ASSUME NEW d, Before(d), After(d), NEW q \in net, ReplyToDataRequest(q)
    PROVE  OneInv(d)'
<1> USE DEF Before, After
<1> DEFINE replies == {DataReply(q.dst, q.src, q.name, q.hash, data) :
                          data \in GetData(q.dst, q.name, q.hash)}
           out == IF q.src \in routes[q.dst] THEN replies ELSE {}
<1>1. q.type = "DRequest" /\ Exchange(q, out, q.src, FALSE)
  BY DEF ReplyToDataRequest
<1>2. UNCHANGED <<pending, calling, timers, queue, stage, part, hashes, matched>>
  BY DEF ReplyToDataRequest
<1>3. out \subseteq replies
  OBVIOUS
<1>4. q.src \in Node /\ q.dst \in Node /\ At(d) \in Node
  BY AtNode DEF TypeInv, PacketsOK
<1>5. \A m \in replies : m.type = "DReply" /\ m.src = q.dst /\ m.dst = q.src /\ m.hash = q.hash
  BY DEF DataReply
<1>6. \A m, b \in replies : m = b
  BY <1>4, FoundIsData DEF TypeInv
<1> HIDE DEF out, replies
<1>7. Calls(d)' = Calls(d) /\ Timed(d)' = Timed(d) /\ Hits(d)' = Hits(d)
  BY <1>2 DEF Calls, Timed, Hits, At
<1>8. net' \in {(net \ {q}) \cup out, net \cup out}
  BY <1>1 DEF Exchange
<1>9. CASE q \notin Mine(d)
  <2>1. \A m \in replies : m \notin Mine(d)'
    <3>1. \A m \in replies : m \in Mine(d)' =>
             q.hash \in Parts(d) /\ q.src = At(d) /\ q.dst \in Range(Wanted[d].from)
      BY <1>5 DEF Mine, At, Parts
    <3> QED BY <1>1, <1>9, <3>1 DEF Mine
  <2>2. Mine(d)' \subseteq Mine(d)
    BY <1>3, <1>8, <2>1 DEF Mine, At, Parts
  <2> QED BY <1>2, <1>7, <2>2, NothingNew
<1>10. CASE q \in Mine(d)
  <2>1. /\ Waits(d) /\ IsAbout(q, d)
        /\ Calls(d) # {} \/ Timed(d) # {}
        /\ Hits(d) = {} /\ \A b \in Mine(d) : b = q
    BY <1>10 DEF OneInv, PacketInv
  <2>2. q.src = At(d)
    BY <1>1, <1>10 DEF Mine
  <2>3. net' = (net \ {q}) \cup out
    <3>1. races'[q.src] = 0 /\ races \in [Node -> Nat]
      BY <2>2 DEF Clean, At, TypeInv, ProgressOK
    <3>2. ~ Race(q.src, TRUE)
      BY <1>4, <3>1, NoRace DEF Race
    <3> QED BY <1>1, <3>2 DEF Exchange
  <2>4. Mine(d)' \subseteq replies
    BY <1>3, <2>1, <2>3 DEF Mine, At, Parts
  <2>5. HashOf(d, part[d])' = HashOf(d, part[d]) /\ Waits(d)'
    BY <1>2, <2>1 DEF HashOf, Waits
  <2>6. \A m \in replies : IsAbout(m, d)'
    BY <1>2, <1>5, <2>1, <2>5 DEF IsAbout, At
  <2>7. PacketInv(d)'
    <3>1. \A m \in Mine(d)' : /\ Waits(d)' /\ IsAbout(m, d)'
                              /\ Calls(d)' # {} \/ Timed(d)' # {}
                              /\ Hits(d)' = {} /\ \A b \in Mine(d)' : b = m
      BY <1>6, <1>7, <2>1, <2>4, <2>5, <2>6
    <3> QED BY <3>1 DEF PacketInv
  <2>8. CallInv(d)' /\ HitInv(d)' /\ QueueInv(d)'
    <3>1. \A c \in Calls(d)' : /\ Waits(d)' /\ c.part = part'[d]
                               /\ Timed(d)' = {} /\ Hits(d)' = {} /\ \A b \in Calls(d)' : b = c
      BY <1>2, <1>7, <2>5 DEF OneInv, CallInv
    <3> QED BY <1>2, <1>7, <2>1, <3>1 DEF CallInv, HitInv, QueueInv, Waits
  <2>9. TimerInv(d)'
    BY <1>2, <1>7, <2>5 DEF OneInv, TimerInv, At
  <2> QED BY <2>7, <2>8, <2>9 DEF OneInv
<1> QED BY <1>9, <1>10

LEMMA OneInvMatch ==
    ASSUME NEW d, Before(d), After(d), NEW m \in net, MatchDataReply(m)
    PROVE  OneInv(d)'
<1> USE DEF Before, After
<1> DEFINE n == m.dst
<1>1. /\ m.type = "DReply" /\ m.src \in Node /\ n \in Node /\ matched[n] = {}
      /\ \/ matched' = matched
         \/ /\ m.src \in DOMAIN pending[n]
            /\ matched' = [matched EXCEPT ![n] = {[reply |-> m, for |-> pending[n][m.src]]}]
            /\ IsFor(n, m.src, pending[n][m.src])
            /\ m.data = HashOf(pending[n][m.src][1], pending[n][m.src][2])
  BY Matching
<1>2. /\ UNCHANGED <<pending, calling, timers, queue, stage, part, hashes>>
      /\ Exchange(m, {}, n, Calling(m))
      /\ DOMAIN matched = Node
  BY DEF MatchDataReply, TypeInv, MatchedOK
<1>3. Calls(d)' = Calls(d) /\ Timed(d)' = Timed(d)
  BY <1>2 DEF Calls, Timed
<1>4. net' \in {net \ {m}, net}
  BY <1>2 DEF Exchange
<1>5. Mine(d)' \subseteq Mine(d)
  BY <1>4 DEF Mine, At, Parts
<1>6. PICK new : new = [reply |-> m, for |-> pending[n][m.src]]
  OBVIOUS
<1>7. CASE Hits(d)' \subseteq Hits(d)
  BY <1>2, <1>3, <1>5, <1>7, NothingNew
<1>8. CASE ~ (Hits(d)' \subseteq Hits(d))
  <2>1. matched' = [matched EXCEPT ![n] = {new}] /\ matched' # matched
    BY <1>1, <1>6, <1>8 DEF Hits, At
  <2>2. n = At(d) /\ new.for[1] = d /\ Hits(d)' = {new}
    BY <1>1, <1>2, <1>8, <2>1 DEF Hits, At
  <2>3. /\ IsFor(n, m.src, new.for) /\ m.data = HashOf(new.for[1], new.for[2])
        /\ m.src \in DOMAIN pending[n]
    BY <1>1, <1>6, <2>1
  <2>4. m \in Mine(d)
    BY <1>1, <2>2, <2>3, OwnReply DEF IsFor
  <2>5. /\ Waits(d) /\ IsAbout(m, d)
        /\ Calls(d) # {} \/ Timed(d) # {}
        /\ \A b \in Mine(d) : b = m
    BY <2>4 DEF OneInv, PacketInv
  <2> DEFINE p == Wanted[d].from[part[d]]
  <2>6. m.hash = HashOf(d, part[d]) /\ m.src = p
    BY <2>2, <2>5 DEF IsAbout
  <2>7. net' = net \ {m} /\ ~ Calling(m)
    <3>1. races'[n] = 0 /\ races \in [Node -> Nat]
      BY <2>2 DEF Clean, At, TypeInv, ProgressOK
    <3>2. ~ Race(n, TRUE)
      BY <1>1, <3>1, NoRace DEF Race
    <3>3. Calling(m) \in BOOLEAN
      BY DEF Calling
    <3>4. net' = net \ {m} /\ Race(n, Calling(m))
      BY <1>2, <3>2 DEF Exchange
    <3> QED BY <1>1, <3>1, <3>3, <3>4, NoRace DEF Race
  <2>8. Calls(d) = {}
    <3>1. \A c \in Calls(d) : c \in calling /\ c.download = d /\ c.part = part[d]
      BY DEF OneInv, CallInv, Calls
    <3> QED BY <2>2, <2>6, <2>7, <3>1 DEF Calling
  <2>9. new.for = <<d, part[d]>>
    <3>1. PICK t \in Timed(d) : TRUE
      BY <2>5, <2>8
    <3>2. pending[At(d)][p][1] = d => pending[At(d)][p] = <<d, part[d]>>
      BY DEF OneInv, TimerInv
    <3> QED BY <1>6, <2>2, <2>6, <3>2
  <2>10. Mine(d)' = {}
    BY <1>5, <2>5, <2>7 DEF Mine
  <2>11. Waits(d)' /\ HashOf(d, part[d])' = HashOf(d, part[d])
    BY <1>2, <2>5 DEF Waits, HashOf
  <2>12. HitInv(d)'
    <3>1. IsAbout(new.reply, d)'
      BY <1>2, <1>6, <2>5, <2>11 DEF IsAbout, At
    <3>2. new.for[2] = part[d]
      BY <2>9
    <3> QED BY <1>2, <2>2, <2>11, <3>1, <3>2 DEF HitInv
  <2>13. CallInv(d)' /\ PacketInv(d)' /\ QueueInv(d)'
    BY <1>2, <1>3, <2>5, <2>8, <2>10 DEF CallInv, PacketInv, QueueInv, Waits
  <2>14. TimerInv(d)'
    BY <1>2, <1>3, <2>11 DEF OneInv, TimerInv, At
  <2> QED BY <2>12, <2>13, <2>14 DEF OneInv
<1> QED BY <1>7, <1>8

LEMMA OneInvNext ==
    ASSUME NEW d, Before(d), After(d), [Next]_vars
    PROVE  OneInv(d)'
<1>1. CASE SomeStarted
  BY <1>1, OneInvStart DEF SomeStarted
<1>2. CASE SomeTaken
  BY <1>2, OneInvTake DEF SomeTaken
<1>3. CASE SomeTimeout
  BY <1>3, OneInvTimeout DEF SomeTimeout
<1>4. CASE SomePendingSet
  BY <1>4, OneInvSet DEF SomePendingSet
<1>5. CASE SomeDataPassedOn
  BY <1>5, OneInvPassOn DEF SomeDataPassedOn
<1>6. CASE SomeAnswered
  BY <1>6, OneInvAnswer DEF SomeAnswered
<1>7. CASE SomeMatched
  BY <1>7, OneInvMatch DEF SomeMatched
<1>8. CASE ~ (\/ SomeStarted \/ SomeTaken \/ SomeTimeout \/ SomePendingSet
              \/ SomeDataPassedOn \/ SomeAnswered \/ SomeMatched)
  <2>0. TypeInv /\ d \in Download /\ OneInv(d)
    BY DEF Before
  <2>1. UNCHANGED <<pending, calling, timers, queue, stage, part, hashes, matched>>
    BY <1>8, Frame
  <2>2. net' \subseteq net
    BY <1>8, Frame DEF SomeLost, Lose
  <2>3. Calls(d)' = Calls(d) /\ Timed(d)' = Timed(d) /\ Hits(d)' = Hits(d)
    BY <2>1 DEF Calls, Timed, Hits, At
  <2>4. Mine(d)' \subseteq Mine(d)
    BY <2>2 DEF Mine, At, Parts
  <2> QED BY <2>0, <2>1, <2>3, <2>4, NothingNew
<1> QED BY <1>1, <1>2, <1>3, <1>4, <1>5, <1>6, <1>7, <1>8

-----------------------------------------------------------------------------
(***************************************************************************)
(* The file.                                                               *)
(***************************************************************************)

\* Others leave the file of d alone.
LEMMA SameFile ==
    ASSUME NEW d \in Download, FileInv(d), part'[d] = part[d],
           \/ stage'[d] = stage[d]
           \/ stage[d] = "idle" /\ stage'[d] = "busy" /\ part[d] = 0,
           Wanted[d].name \in DOMAIN files'[At(d)] <=> Wanted[d].name \in DOMAIN files[At(d)],
           Wanted[d].name \in DOMAIN files[At(d)] =>
              files'[At(d)][Wanted[d].name] = files[At(d)][Wanted[d].name],
           Wanted[d].name \in DOMAIN saved[At(d)] =>
              /\ Wanted[d].name \in DOMAIN saved'[At(d)]
              /\ saved'[At(d)][Wanted[d].name] = saved[At(d)][Wanted[d].name]
    PROVE  FileInv(d)'
<1> DEFINE n == At(d)
           name == Wanted[d].name
<1>1. /\ stage[d] \in {"idle", "busy"} /\ part[d] = 0 => name \notin DOMAIN files[n]
      /\ stage[d] = "busy" /\ part[d] # 0 =>
            /\ name \in DOMAIN files[n]
            /\ files[n][name].metafile = Wanted[d].meta
            /\ \A i \in 1 .. part[d] - 1 : Wanted[d].meta[i] \in DOMAIN files[n][name].chunks
            /\ \A h \in DOMAIN files[n][name].chunks : files[n][name].chunks[h] = h
      /\ stage[d] = "done" => name \in DOMAIN saved[n] /\ saved[n][name] = Wanted[d].meta
  BY DEF FileInv
<1>2. /\ stage'[d] \in {"idle", "busy"} /\ part'[d] = 0 => name \notin DOMAIN files'[n]
      /\ stage'[d] = "busy" /\ part'[d] # 0 =>
            /\ name \in DOMAIN files'[n]
            /\ files'[n][name].metafile = Wanted[d].meta
            /\ \A i \in 1 .. part'[d] - 1 : Wanted[d].meta[i] \in DOMAIN files'[n][name].chunks
            /\ \A h \in DOMAIN files'[n][name].chunks : files'[n][name].chunks[h] = h
      /\ stage'[d] = "done" => name \in DOMAIN saved'[n] /\ saved'[n][name] = Wanted[d].meta
  <2>1. CASE stage'[d] = stage[d]
    BY <1>1, <2>1
  <2>2. CASE stage[d] = "idle" /\ stage'[d] = "busy" /\ part[d] = 0
    BY <1>1, <2>2
  <2> QED BY <2>1, <2>2
<1> QED BY <1>2 DEF FileInv, At

\* What a map has at another key.
LEMMA OtherName ==
    ASSUME NEW F, NEW x, NEW y, NEW name, x # name
    PROVE  /\ name \in DOMAIN With(F, x, y) <=> name \in DOMAIN F
           /\ name \in DOMAIN F => With(F, x, y)[name] = F[name]
BY DEF With

\* The data d takes is stored under its hash.
LEMMA FileInvTake ==
    ASSUME NEW d, Before(d), After(d), FileInv(d), TakeData(d)
    PROVE  FileInv(d)'
<1> USE DEF Before, After
<1> DEFINE n == At(d)
           name == Wanted[d].name
           meta == Wanted[d].meta
           h == HashOf(d, part[d])
           data == Head(queue[d])
           old == files[n][name]
<1>1. /\ stage[d] = "busy" /\ queue[d] # <<>>
      /\ files' = [files EXCEPT ![n] = StoreData(n, name, h, data)]
      /\ Astray(d) \/ (GoesOn(d) /\ (Ends(d) \/ AsksNext(d)))
  BY Taking
<1>2. data = h
  BY <1>1 DEF OneInv, QueueInv
<1>3. n \in Node /\ DOMAIN files = Node /\ DOMAIN saved = Node
  BY AtNode DEF TypeInv, FilesOK, ProgressOK
<1>4. part[d] \in Nat /\ part[d] <= Len(hashes[d]) /\ hashes[d] \in Seq(Chunk)
  BY <1>1 DEF TypeInv, ProgressOK
<1>5. CASE Astray(d)
  <2>1. stage'[d] = "astray"
    BY <1>5 DEF Astray, TypeInv, ProgressOK
  <2> QED BY <2>1 DEF FileInv
<1>6. CASE GoesOn(d)
  <2>1. part'[d] = part[d] + 1
    BY <1>4, <1>6 DEF GoesOn, TypeInv, ProgressOK
  <2>2. hashes'[d] = meta /\ meta \in Seq(Chunk)
    <3>1. hashes'[d] = meta
      BY <1>4, <2>1 DEF MetaInv, Clean, At
    <3> QED BY <3>1 DEF TypeInv, ProgressOK
  <2> DEFINE stored == files'[n][name]
  <2>3. /\ name \in DOMAIN files'[n]
        /\ stored.metafile = meta
        /\ \A i \in 1 .. part[d] : meta[i] \in DOMAIN stored.chunks
        /\ \A g \in DOMAIN stored.chunks : stored.chunks[g] = g
    <3>1. CASE part[d] = 0
      <4>1. name \notin DOMAIN files[n]
        BY <1>1, <3>1 DEF FileInv
      <4>2. data = meta
        BY <1>2, <3>1 DEF HashOf
      <4> HIDE DEF data, h
      <4>3. files'[n] = With(files[n], name, [metafile |-> data, metaHash |-> h, chunks |-> <<>>])
        BY <1>1, <1>3, <4>1 DEF StoreData
      <4>4. name \in DOMAIN files'[n]
            /\ stored = [metafile |-> data, metaHash |-> h, chunks |-> <<>>]
        BY <4>3 DEF With
      <4>5. DOMAIN stored.chunks = {} /\ stored.metafile = meta
        BY <4>2, <4>4
      <4> QED BY <3>1, <4>4, <4>5
    <3>2. CASE part[d] # 0
      <4>1. /\ name \in DOMAIN files[n]
            /\ old.metafile = meta
            /\ \A i \in 1 .. part[d] - 1 : meta[i] \in DOMAIN old.chunks
            /\ \A g \in DOMAIN old.chunks : old.chunks[g] = g
        BY <1>1, <3>2 DEF FileInv
      <4>2. h = meta[part[d]]
        BY <3>2 DEF HashOf, MetaInv, Clean
      <4> HIDE DEF data, h
      <4>3. IsRecord(old)
        BY <1>3, <4>1 DEF TypeInv, FilesOK
      <4> HIDE DEF old
      <4> DEFINE chunks == With(old.chunks, h, data)
      <4>4. files'[n] = With(files[n], name, [old EXCEPT !.chunks = chunks])
        BY <1>1, <1>3, <4>1 DEF StoreData, old
      <4>5. [old EXCEPT !.chunks = chunks]
               = [metafile |-> old.metafile, metaHash |-> old.metaHash, chunks |-> chunks]
        BY <4>3 DEF IsRecord
      <4>6. name \in DOMAIN files'[n]
            /\ stored = [metafile |-> old.metafile, metaHash |-> old.metaHash, chunks |-> chunks]
        <5> HIDE DEF chunks
        <5> QED BY <4>4, <4>5 DEF With
      <4>7. /\ DOMAIN chunks = DOMAIN old.chunks \cup {h}
            /\ \A g \in DOMAIN old.chunks \cup {h} : chunks[g] = IF g = h THEN data ELSE old.chunks[g]
        BY DEF With
      <4> HIDE DEF chunks
      <4>8. stored.metafile = meta /\ stored.chunks = chunks
        BY <4>1, <4>6
      <4>9. \A i \in 1 .. part[d] : i \in 1 .. part[d] - 1 \/ i = part[d]
        BY <1>4
      <4> HIDE DEF stored
      <4> QED BY <1>2, <4>1, <4>2, <4>6, <4>7, <4>8, <4>9
    <3> QED BY <3>1, <3>2
  <2>4. CASE Ends(d)
    <3>1. stage'[d] = "done"
      BY <2>4 DEF Ends, TypeInv, ProgressOK
    <3>2. saved'[n] = With(saved[n], name, Content(stored))
      BY <1>3, <2>4 DEF Ends
    <3>3. name \in DOMAIN saved'[n] /\ saved'[n][name] = Content(stored)
      <4> HIDE DEF stored
      <4> QED BY <3>2 DEF With
    <3>4. Len(meta) \in Nat /\ Len(meta) <= part[d]
      BY <1>4, <2>2, <2>4 DEF Ends
    <3>5. Content(stored) = meta
      <4> HIDE DEF stored, meta
      <4>1. \A i \in 1 .. Len(meta) : i \in 1 .. part[d]
        BY <1>4, <3>4
      <4> QED BY <2>2, <2>3, <4>1, WholeContent
    <3> QED BY <3>1, <3>3, <3>5 DEF FileInv, At
  <2>5. CASE AsksNext(d)
    <3>1. stage'[d] = "busy" /\ part'[d] # 0 /\ part'[d] - 1 = part[d]
      BY <1>1, <1>4, <2>1, <2>5 DEF AsksNext
    <3> QED BY <2>3, <3>1 DEF FileInv, At
  <2> QED BY <1>1, <1>6, <2>4, <2>5 DEF Astray, GoesOn
<1> QED BY <1>1, <1>5, <1>6

LEMMA FileInvNext ==
    ASSUME NEW d, Before(d), After(d), FileInv(d), [Next]_vars
    PROVE  FileInv(d)'
<1> USE DEF Before, After
<1> DEFINE n == At(d)
           name == Wanted[d].name
<1>0. n \in Node /\ DOMAIN files = Node /\ DOMAIN saved = Node
      /\ stage \in [Download -> {"idle", "busy", "done", "astray"}]
  BY AtNode DEF TypeInv, FilesOK, ProgressOK
<1>1. CASE SomeFileAdded
  <2>1. PICK k \in Node : \E x \in DOMAIN Disk[k] : AddFile(k, x)
    BY <1>1 DEF SomeFileAdded
  <2>2. PICK x \in DOMAIN Disk[k] : AddFile(k, x)
    BY <2>1
  <2>3. PICK file : files' = [files EXCEPT ![k] = With(files[k], x, file)]
    BY <2>2 DEF AddFile
  <2>4. k # n \/ x # name
    BY DEF Clean, Sole
  <2>5. UNCHANGED <<stage, part, saved>>
    BY <2>2 DEF AddFile
  <2>6. /\ name \in DOMAIN files'[n] <=> name \in DOMAIN files[n]
        /\ name \in DOMAIN files[n] => files'[n][name] = files[n][name]
    <3>1. files'[n] = files[n] \/ (files'[n] = With(files[n], x, file) /\ x # name)
      BY <1>0, <2>3, <2>4
    <3> QED BY <3>1, OtherName
  <2> QED BY <2>5, <2>6, SameFile
<1>2. CASE SomeTaken
  <2>1. PICK e \in Download : TakeData(e)
    BY <1>2 DEF SomeTaken
  <2>2. CASE e = d
    BY <2>1, <2>2, FileInvTake
  <2>3. CASE e # d
    <3>1. /\ files' = [files EXCEPT ![At(e)] =
                          StoreData(At(e), Wanted[e].name, HashOf(e, part[e]), Head(queue[e]))]
          /\ Astray(e) \/ (GoesOn(e) /\ (Ends(e) \/ AsksNext(e)))
      BY <2>1, Taking
    <3>2. PICK file : files' = [files EXCEPT ![At(e)] = With(files[At(e)], Wanted[e].name, file)]
      BY <3>1 DEF StoreData
    <3>3. At(e) # n \/ Wanted[e].name # name
      BY <2>3 DEF Clean, Sole
    <3>4. /\ name \in DOMAIN files'[n] <=> name \in DOMAIN files[n]
          /\ name \in DOMAIN files[n] => files'[n][name] = files[n][name]
      <4>1. \/ files'[n] = files[n]
            \/ files'[n] = With(files[n], Wanted[e].name, file) /\ Wanted[e].name # name
        BY <1>0, <3>2, <3>3, AtNode
      <4> QED BY <4>1, OtherName
    <3>5. part'[d] = part[d] /\ stage'[d] = stage[d]
      BY <2>1, <2>3, Progress
    <3>6. name \in DOMAIN saved[n] => name \in DOMAIN saved'[n] /\ saved'[n][name] = saved[n][name]
      <4>1. CASE Ends(e)
        <5>1. PICK x : saved' = [saved EXCEPT ![At(e)] = With(saved[At(e)], Wanted[e].name, x)]
          BY <4>1 DEF Ends
        <5>2. \/ saved'[n] = saved[n]
              \/ saved'[n] = With(saved[n], Wanted[e].name, x) /\ Wanted[e].name # name
          BY <1>0, <3>3, <5>1, AtNode
        <5> QED BY <5>2, OtherName
      <4>2. CASE ~ Ends(e)
        BY <3>1, <4>2 DEF Astray, AsksNext
      <4> QED BY <4>1, <4>2
    <3> QED BY <3>4, <3>5, <3>6, SameFile
  <2> QED BY <2>2, <2>3
<1>3. CASE ~ (SomeFileAdded \/ SomeTaken)
  <2>1. UNCHANGED <<files, part, saved>>
    BY <1>3, Frame
  <2>2. \/ stage'[d] = stage[d]
        \/ stage[d] = "idle" /\ stage'[d] = "busy" /\ part[d] = 0
    <3>1. CASE SomeStarted
      <4>1. PICK e \in Download : stage[e] = "idle" /\ stage' = [stage EXCEPT ![e] = "busy"]
        BY <3>1 DEF SomeStarted, StartDownload
      <4>2. stage[d] = "idle" => part[d] = 0
        BY DEF TypeInv, ProgressOK
      <4> QED BY <1>0, <4>1, <4>2
    <3> QED BY <1>3, <3>1, Frame
  <2> QED BY <2>1, <2>2, SameFile
<1> QED BY <1>1, <1>2, <1>3

-----------------------------------------------------------------------------
(***************************************************************************)
(* The invariant holds, and with it the property.                          *)
(***************************************************************************)

LEMMA TransferInvInit == Init => TransferInv
<1> SUFFICES ASSUME Init PROVE TransferInv
  OBVIOUS
<1>1. TypeInv
  BY TypeInvInit
<1>2. MetaInv
  BY DEF Init, MetaInv
<1>3. TrafficInv
  BY DEF Init, TrafficInv
<1>4. SharerInv
  BY DEF Init, SharerInv
<1>5. ASSUME NEW d \in Download PROVE OneInv(d) /\ FileInv(d)
  <2>1. Calls(d) = {} /\ Timed(d) = {} /\ Mine(d) = {} /\ Hits(d) = {}
    BY <1>5, AtNode DEF Init, Calls, Timed, Mine, Hits
  <2>2. queue[d] = <<>> /\ stage[d] = "idle" /\ files[At(d)] = <<>>
    BY <1>5, AtNode DEF Init
  <2>3. OneInv(d)
    BY <2>1, <2>2 DEF OneInv, CallInv, TimerInv, PacketInv, HitInv, QueueInv
  <2>4. FileInv(d)
    BY <2>2 DEF FileInv
  <2> QED BY <2>3, <2>4
<1>6. CleanInv
  BY <1>5 DEF CleanInv
<1> QED BY <1>1, <1>2, <1>3, <1>4, <1>6 DEF TransferInv

LEMMA TransferInvNext == TransferInv /\ [Next]_vars => TransferInv'
<1> SUFFICES ASSUME TransferInv, [Next]_vars PROVE TransferInv'
  OBVIOUS
<1>1. TypeInv /\ MetaInv /\ TrafficInv /\ SharerInv /\ CleanInv
  BY DEF TransferInv
<1>2. TypeInv' /\ Grows
  BY <1>1, TypeInvNext, ProgressNext
<1>3. MetaInv'
  BY <1>1, <1>2, MetaInvNext
<1>4. TrafficInv'
  BY <1>1, <1>2, <1>3, TrafficNext
<1>5. SharerInv'
  BY <1>1, <1>2, SharerNext
<1>6. ASSUME NEW d \in Download, Clean(d)' PROVE (OneInv(d) /\ FileInv(d))'
  <2>1. Clean(d)
    BY <1>1, <1>6, RacesGrow, AtNode DEF Clean, At, Sole, Rivals, Apart, Parts
  <2>2. Before(d) /\ After(d) /\ FileInv(d)
    BY <1>1, <1>2, <1>3, <1>6, <2>1 DEF Before, After, CleanInv
  <2> QED BY <2>2, OneInvNext, FileInvNext
<1>7. CleanInv'
  BY <1>6 DEF CleanInv
<1> QED BY <1>2, <1>3, <1>4, <1>5, <1>7 DEF TransferInv

LEMMA TransferInvCorrect == Spec => []TransferInv
BY TransferInvInit, TransferInvNext, PTL DEF Spec

\* A download that ends has saved the file it was asked for, for every set of nodes,
\* peers and files: whatever is lost and whatever the nodes it comes from have
\* stored, as long as its node sees no race for its pending requests.
\* (handleDataReply, stopTimerAndSendData and storeFile of filehandler.go)
THEOREM RightFileCorrect == Spec => []RightFileSaved
<1>1. TransferInv => RightFileSaved
  BY DEF TransferInv, CleanInv, Clean, FileInv, RightFileSaved
<1> QED BY <1>1, TransferInvCorrect, PTL
=============================================================================
