------------------------ MODULE NetworkGuard_proofs -------------------------
(***************************************************************************)
(* What NetworkGuard guarantees for any number of workers, clients and DNS *)
(* workers and any size of its queues: after the guard is dropped no       *)
(* connection it accepted or made is left open, without an upstream proxy  *)
(* only vetted addresses are ever connected to, and every lookup in the    *)
(* DNS queue has a worker that waits for it.                               *)
(*                                                                         *)
(* The sockets are the point: a client is in the queue or in the hands of  *)
(* one worker, never both, so that the scan of stop() closes each of them  *)
(* once and nobody opens one behind it. Of the lookups it is the jobs:     *)
(* that of a client is in the queue, with one DNS worker or answered, and  *)
(* nothing of it is left when a worker takes the client or has had the     *)
(* reply.                                                                  *)
(***************************************************************************)
EXTENDS NetworkGuard, SequenceTheorems, TLAPS

\* A worker has a client from NextClient to Finish, in the table of active
\* sockets after RegisterClient.
Registered == {"request", "resolving", "vet", "connect", "connected", "relay", "finish"}
Busy       == Registered \cup {"claimed"}
Stopping   == {"stop", "sweep", "exited"}

Labels == Busy \cup Stopping \cup {"idle", "accept", "enqueue", "running", "join", "dropped"}

\* What a lookup can answer, whichever it is.
AnswerSet   == Answers \cup {NoAnswer}
SocketState == {"new", "accepted", "queued", "open", "shut", "closed"}
Upstream    == [address : Addresses \cup {"none"}, open : BOOLEAN]
Lookup      == [purpose : {"destination", "proxy"}, answer : AnswerSet]
Job         == [cancelled : BOOLEAN, reply : AnswerSet]

\* The types but for those of the DNS pool's own queue.
SetupType == setup \in Setups /\ stopped \in BOOLEAN

PcType == pc \in [Threads -> Labels]

QueueTypes ==
  /\ queue \in Seq(Clients)
  /\ serving \in [Workers -> Clients \cup {None}]
  /\ socket \in [Clients -> SocketState]
  /\ active \in [Workers -> SUBSET {"client", "upstream"}]

LookupTypes ==
  /\ upstream \in [Workers -> Upstream]
  /\ lookup \in [Workers -> Lookup]
  /\ job \in [Clients -> Job]

Types ==
  /\ SetupType /\ PcType /\ QueueTypes /\ LookupTypes

\* Each kind of thread keeps to its own code, and who has begun the scan has
\* set the flag.
LabelInv ==
  /\ \A w \in Workers : pc[w] \in Busy \cup Stopping \cup {"idle"}
  /\ pc[Listener] \in Stopping \cup {"accept", "enqueue"}
  /\ pc[Owner] \in {"running", "stop", "sweep", "join", "dropped"}
  /\ \A t \in Threads : pc[t] = "sweep" => stopped
  /\ pc[Owner] \in {"join", "dropped"} => stopped

\* Whose the sockets are.
SocketInv ==
  /\ \A w \in Workers : pc[w] \in Busy <=> serving[w] # None
  /\ \A w \in Workers : serving[w] # None => socket[serving[w]] \in {"open", "shut"}
  /\ \A w, v \in Workers : serving[w] # None /\ serving[w] = serving[v] => w = v
  /\ \A i \in 1 .. Len(queue) : socket[queue[i]] = "queued"
  /\ \A i, j \in 1 .. Len(queue) : queue[i] = queue[j] => i = j
  /\ \A w \in Workers : /\ active[w] # {} => pc[w] \in Registered
                        /\ "upstream" \in active[w] => pc[w] \in {"relay", "finish"}

\* What is known of the addresses a worker has looked up or connected to. From
\* the check to the connection it keeps the answer it has vetted.
VetInv ==
  \A w \in Workers :
    /\ upstream[w].open => pc[w] \in {"connected", "relay", "finish"}
    /\ lookup[w].purpose = "proxy" => setup.proxied
    /\ pc[w] = "connect" /\ ~setup.proxied => lookup[w].answer = {"public"}
    /\ upstream[w].open /\ ~setup.proxied =>
         upstream[w].address = "public" /\ lookup[w].answer = {"public"}

\* A client that nobody looks anything up for: no job of it is left behind.
Clean(k) ==
  /\ \A i \in 1 .. Len(dnsQueue) : dnsQueue[i] # k
  /\ \A d \in DnsWorkers : dns[d].job # k
  /\ job[k].reply = NoAnswer

\* Which workers may still ask for a lookup, or have the answer of one.
Asking == Busy \ {"resolving", "finish"}

\* The job of a client is in the queue, in the hands of one DNS worker or
\* answered, and only of one whose worker waits or gave it up.
DnsInv ==
  /\ \A i, j \in 1 .. Len(dnsQueue) : dnsQueue[i] = dnsQueue[j] => i = j
  /\ \A i \in 1 .. Len(dnsQueue) : /\ job[dnsQueue[i]].reply = NoAnswer
                                   /\ \A d \in DnsWorkers : dns[d].job # dnsQueue[i]
  /\ \A d \in DnsWorkers : /\ dns[d].at # "idle" <=> dns[d].job # None
                           /\ dns[d].job # None => job[dns[d].job].reply = NoAnswer
  /\ \A d, e \in DnsWorkers : dns[d].job = dns[e].job /\ dns[d].job # None => d = e
  /\ \A k \in Clients : socket[k] \in {"new", "accepted", "queued"} => Clean(k)
  /\ \A w \in Workers : pc[w] \in Asking => Clean(serving[w])
  /\ QueuedLookupIsAwaited

Limits ==
  /\ Len(queue) <= MaxPendingClients /\ Len(dnsQueue) <= MaxPendingQueries
  /\ asleep \subseteq Workers \cup DnsWorkers /\ cancelled \in BOOLEAN

DnsType == [at : {"idle", "popped", "looking up"}, job : Clients \cup {None}]
DnsTypes == dnsQueue \in Seq(Clients) /\ dns \in [DnsWorkers -> DnsType]

IInv == Types /\ LabelInv /\ SocketInv /\ VetInv /\ StopLeavesNothingOpen
PoolInv == DnsTypes /\ DnsInv /\ Limits

-----------------------------------------------------------------------------
\* Workers are numbered, the listener and the owner are not.
LEMMA ThreadKinds ==
  /\ Workers \subseteq Threads /\ Listener \in Threads /\ Owner \in Threads
  /\ Listener \notin Workers /\ Owner \notin Workers /\ Listener # Owner
  /\ None \notin Clients
  /\ setup' = setup => Workers' = Workers /\ Clients' = Clients /\ Threads' = Threads
BY GuardAssumption DEF Threads, Workers, Clients

\* The records a step writes have their types.
LEMMA Records ==
  /\ Closed \in Upstream /\ NoLookup \in Lookup /\ NoJob \in Job
  /\ Answers \subseteq AnswerSet /\ NoAnswer \in AnswerSet
  /\ \A a \in Addresses : [address |-> a, open |-> TRUE] \in Upstream
  /\ \A a \in AnswerSet : [purpose |-> "proxy", answer |-> a] \in Lookup
  /\ [NoJob EXCEPT !.cancelled = TRUE] \in Job
  /\ NoJob.reply = NoAnswer /\ [NoJob EXCEPT !.cancelled = TRUE].reply = NoAnswer
BY
DEF Closed, NoLookup, NoJob, Upstream, Lookup, Job, AnswerSet, Answers, NoAnswer,
    Addresses

\* What is said of one field leaves the others.
LEMMA Fields ==
  /\ \A u \in Upstream : /\ [u EXCEPT !.open = FALSE] \in Upstream
                         /\ ~[u EXCEPT !.open = FALSE].open
  /\ \A l \in Lookup, a \in AnswerSet :
       /\ [l EXCEPT !.answer = a] \in Lookup
       /\ [l EXCEPT !.answer = a].purpose = l.purpose
  /\ \A j \in Job : j.reply \in AnswerSet
  /\ \A j \in Job, a \in AnswerSet : [j EXCEPT !.reply = a] \in Job
BY DEF Upstream, Lookup, Job

\* Every step keeps LabelInv.
LEMMA LabelStep ==
  ASSUME Types, LabelInv, [Next]_vars
  PROVE  LabelInv'
<1> USE DEF Goto, proxy, flows, dnsAll, Types, SetupType, PcType, LabelInv, Busy, Registered, Stopping, AfterStop
<1>1. ASSUME NEW t \in Threads, StopStore(t) PROVE LabelInv'
  BY <1>1, ThreadKinds DEF StopStore
<1>2. ASSUME NEW t \in Threads, StopSweep(t) PROVE LabelInv'
  BY <1>2, ThreadKinds DEF StopSweep, AfterStop
<1>3. ASSUME CancelOperation PROVE LabelInv'
  BY <1>3, ThreadKinds DEF CancelOperation
<1>4. ASSUME DropGuard PROVE LabelInv'
  BY <1>4, ThreadKinds DEF DropGuard
<1>5. ASSUME JoinListener PROVE LabelInv'
  BY <1>5, ThreadKinds DEF JoinListener
<1>6. ASSUME Accept PROVE LabelInv'
  BY <1>6, ThreadKinds DEF Accept
<1>7. ASSUME Enqueue PROVE LabelInv'
  BY <1>7, ThreadKinds DEF Enqueue
<1>8. ASSUME NEW w \in Workers, NextClient(w) PROVE LabelInv'
  BY <1>8, ThreadKinds DEF NextClient
<1>9. ASSUME NEW w \in Workers, RegisterClient(w) PROVE LabelInv'
  BY <1>9, ThreadKinds DEF RegisterClient
<1>10. ASSUME NEW w \in Workers, Resolve(w) PROVE LabelInv'
  BY <1>10, ThreadKinds DEF Resolve
<1>11. ASSUME NEW w \in Workers, AwaitReply(w) PROVE LabelInv'
  BY <1>11, ThreadKinds DEF AwaitReply
<1>12. ASSUME NEW w \in Workers, Vet(w) PROVE LabelInv'
  BY <1>12, ThreadKinds DEF Vet
<1>13. ASSUME NEW w \in Workers, RegisterUpstream(w) PROVE LabelInv'
  BY <1>13, ThreadKinds DEF RegisterUpstream
<1>14. ASSUME NEW w \in Workers, Relay(w) PROVE LabelInv'
  BY <1>14, ThreadKinds DEF Relay
<1>15. ASSUME NEW w \in Workers, Finish(w) PROVE LabelInv'
  BY <1>15, ThreadKinds DEF Finish
<1>16. ASSUME NEW d \in DnsWorkers, DnsPop(d) PROVE LabelInv'
  BY <1>16, ThreadKinds DEF DnsPop
<1>17. ASSUME NEW d \in DnsWorkers, DnsBegin(d) PROVE LabelInv'
  BY <1>17, ThreadKinds DEF DnsBegin
<1>18. ASSUME NEW d \in DnsWorkers, DnsReply(d) PROVE LabelInv'
  BY <1>18, ThreadKinds DEF DnsReply
<1>19. ASSUME UNCHANGED vars PROVE LabelInv'
  BY <1>19, ThreadKinds DEF vars
<1>20. ASSUME NEW w \in Workers, Connect(w) PROVE LabelInv'
  BY <1>20, ThreadKinds DEF Connect
<1>21. QED
  BY <1>1, <1>2, <1>3, <1>4, <1>5, <1>6, <1>7, <1>8, <1>9, <1>10, <1>11, <1>12, <1>13,
     <1>14, <1>15, <1>16, <1>17, <1>18, <1>19, <1>20, ThreadKinds
  DEF Next, WorkerSteps, ListenerSteps, OwnerSteps, Stop

\* Every step keeps the instance and the type of the flag.
LEMMA SetupStep ==
  ASSUME Types, [Next]_vars
  PROVE  SetupType'
<1> USE DEF Goto, proxy, flows, dnsAll, Types, SetupType
<1>1. ASSUME NEW t \in Threads, StopStore(t) PROVE SetupType'
  BY <1>1 DEF StopStore
<1>2. ASSUME NEW t \in Threads, StopSweep(t) PROVE SetupType'
  BY <1>2 DEF StopSweep, AfterStop
<1>3. ASSUME CancelOperation PROVE SetupType'
  BY <1>3 DEF CancelOperation
<1>4. ASSUME DropGuard PROVE SetupType'
  BY <1>4 DEF DropGuard
<1>5. ASSUME JoinListener PROVE SetupType'
  BY <1>5 DEF JoinListener
<1>6. ASSUME Accept PROVE SetupType'
  BY <1>6 DEF Accept
<1>7. ASSUME Enqueue PROVE SetupType'
  BY <1>7 DEF Enqueue
<1>8. ASSUME NEW w \in Workers, NextClient(w) PROVE SetupType'
  BY <1>8 DEF NextClient
<1>9. ASSUME NEW w \in Workers, RegisterClient(w) PROVE SetupType'
  BY <1>9 DEF RegisterClient
<1>10. ASSUME NEW w \in Workers, Resolve(w) PROVE SetupType'
  BY <1>10 DEF Resolve
<1>11. ASSUME NEW w \in Workers, AwaitReply(w) PROVE SetupType'
  BY <1>11 DEF AwaitReply
<1>12. ASSUME NEW w \in Workers, Vet(w) PROVE SetupType'
  BY <1>12 DEF Vet
<1>13. ASSUME NEW w \in Workers, RegisterUpstream(w) PROVE SetupType'
  BY <1>13 DEF RegisterUpstream
<1>14. ASSUME NEW w \in Workers, Relay(w) PROVE SetupType'
  BY <1>14 DEF Relay
<1>15. ASSUME NEW w \in Workers, Finish(w) PROVE SetupType'
  BY <1>15 DEF Finish
<1>16. ASSUME NEW d \in DnsWorkers, DnsPop(d) PROVE SetupType'
  BY <1>16 DEF DnsPop
<1>17. ASSUME NEW d \in DnsWorkers, DnsBegin(d) PROVE SetupType'
  BY <1>17 DEF DnsBegin
<1>18. ASSUME NEW d \in DnsWorkers, DnsReply(d) PROVE SetupType'
  BY <1>18 DEF DnsReply
<1>19. ASSUME UNCHANGED vars PROVE SetupType'
  BY <1>19 DEF vars
<1>20. ASSUME NEW w \in Workers, Connect(w) PROVE SetupType'
  BY <1>20 DEF Connect
<1>21. QED
  BY <1>1, <1>2, <1>3, <1>4, <1>5, <1>6, <1>7, <1>8, <1>9, <1>10, <1>11, <1>12, <1>13,
     <1>14, <1>15, <1>16, <1>17, <1>18, <1>19, <1>20, ThreadKinds
  DEF Next, WorkerSteps, ListenerSteps, OwnerSteps, Stop

\* Every step leaves the threads at labels.
LEMMA PcTypeStep ==
  ASSUME Types, [Next]_vars
  PROVE  PcType'
<1> USE DEF Goto, proxy, flows, dnsAll, Types, PcType, Labels, Busy, Registered, Stopping
<1>1. ASSUME NEW t \in Threads, StopStore(t) PROVE PcType'
  BY <1>1, ThreadKinds DEF StopStore
<1>2. ASSUME NEW t \in Threads, StopSweep(t) PROVE PcType'
  BY <1>2, ThreadKinds DEF StopSweep, AfterStop
<1>3. ASSUME CancelOperation PROVE PcType'
  BY <1>3, ThreadKinds DEF CancelOperation
<1>4. ASSUME DropGuard PROVE PcType'
  BY <1>4, ThreadKinds DEF DropGuard
<1>5. ASSUME JoinListener PROVE PcType'
  BY <1>5, ThreadKinds DEF JoinListener
<1>6. ASSUME Accept PROVE PcType'
  BY <1>6, ThreadKinds DEF Accept
<1>7. ASSUME Enqueue PROVE PcType'
  BY <1>7, ThreadKinds DEF Enqueue
<1>8. ASSUME NEW w \in Workers, NextClient(w) PROVE PcType'
  BY <1>8, ThreadKinds DEF NextClient
<1>9. ASSUME NEW w \in Workers, RegisterClient(w) PROVE PcType'
  BY <1>9, ThreadKinds DEF RegisterClient
<1>10. ASSUME NEW w \in Workers, Resolve(w) PROVE PcType'
  BY <1>10, ThreadKinds DEF Resolve
<1>11. ASSUME NEW w \in Workers, AwaitReply(w) PROVE PcType'
  BY <1>11, ThreadKinds DEF AwaitReply
<1>12. ASSUME NEW w \in Workers, Vet(w) PROVE PcType'
  BY <1>12, ThreadKinds DEF Vet
<1>13. ASSUME NEW w \in Workers, RegisterUpstream(w) PROVE PcType'
  BY <1>13, ThreadKinds DEF RegisterUpstream
<1>14. ASSUME NEW w \in Workers, Relay(w) PROVE PcType'
  BY <1>14, ThreadKinds DEF Relay
<1>15. ASSUME NEW w \in Workers, Finish(w) PROVE PcType'
  BY <1>15, ThreadKinds DEF Finish
<1>16. ASSUME NEW d \in DnsWorkers, DnsPop(d) PROVE PcType'
  BY <1>16, ThreadKinds DEF DnsPop
<1>17. ASSUME NEW d \in DnsWorkers, DnsBegin(d) PROVE PcType'
  BY <1>17, ThreadKinds DEF DnsBegin
<1>18. ASSUME NEW d \in DnsWorkers, DnsReply(d) PROVE PcType'
  BY <1>18, ThreadKinds DEF DnsReply
<1>19. ASSUME UNCHANGED vars PROVE PcType'
  BY <1>19, ThreadKinds DEF vars
<1>20. ASSUME NEW w \in Workers, Connect(w) PROVE PcType'
  BY <1>20, ThreadKinds DEF Connect
<1>21. QED
  BY <1>1, <1>2, <1>3, <1>4, <1>5, <1>6, <1>7, <1>8, <1>9, <1>10, <1>11, <1>12, <1>13,
     <1>14, <1>15, <1>16, <1>17, <1>18, <1>19, <1>20, ThreadKinds
  DEF Next, WorkerSteps, ListenerSteps, OwnerSteps, Stop

\* Every step keeps the types of the clients' sockets.
LEMMA QueueTypeStep ==
  ASSUME Types, SocketInv, [Next]_vars
  PROVE  QueueTypes'
<1> USE DEF Goto, proxy, flows, dnsAll, Types, QueueTypes, SocketState
<1>1. ASSUME NEW t \in Threads, StopStore(t) PROVE QueueTypes'
  BY <1>1, ThreadKinds DEF StopStore
<1>2. ASSUME NEW t \in Threads, StopSweep(t) PROVE QueueTypes'
  <2>1. /\ UNCHANGED <<setup, serving, active>> /\ queue' = <<>>
        /\ socket' = [k \in Clients |-> socket'[k]]
        /\ \A k \in Clients : socket'[k] \in {"closed", "shut", socket[k]}
    BY <1>2 DEF StopSweep
  <2>2. socket' \in [Clients -> SocketState]
    BY <2>1 DEF SocketState
  <2>3. QED
    BY <2>1, <2>2, ThreadKinds
<1>3. ASSUME CancelOperation PROVE QueueTypes'
  BY <1>3, ThreadKinds DEF CancelOperation
<1>4. ASSUME DropGuard PROVE QueueTypes'
  BY <1>4, ThreadKinds DEF DropGuard
<1>5. ASSUME JoinListener PROVE QueueTypes'
  BY <1>5, ThreadKinds DEF JoinListener
<1>6. ASSUME Accept PROVE QueueTypes'
  BY <1>6, ThreadKinds DEF Accept
<1>7. ASSUME Enqueue PROVE QueueTypes'
  BY <1>7, ThreadKinds, SMTT(30) DEF Enqueue
<1>8. ASSUME NEW w \in Workers, NextClient(w) PROVE QueueTypes'
  <2>1. CASE UNCHANGED <<queue, serving, socket>>
    BY <1>8, <2>1, ThreadKinds DEF NextClient
  <2>2. CASE /\ queue # <<>> /\ serving' = [serving EXCEPT ![w] = Head(queue)]
             /\ socket' = [socket EXCEPT ![Head(queue)] = "open"]
             /\ queue' = Tail(queue)
    <3>1. Head(queue) \in Clients /\ Tail(queue) \in Seq(Clients)
      BY <2>2
    <3>2. UNCHANGED <<setup, active>>
      BY <1>8 DEF NextClient
    <3>3. QED
      BY <2>2, <3>1, <3>2, ThreadKinds
  <2>3. QED
    BY <1>8, <2>1, <2>2 DEF NextClient
<1>9. ASSUME NEW w \in Workers, RegisterClient(w) PROVE QueueTypes'
  BY <1>9, ThreadKinds DEF RegisterClient
<1>10. ASSUME NEW w \in Workers, Resolve(w) PROVE QueueTypes'
  BY <1>10, ThreadKinds DEF Resolve
<1>11. ASSUME NEW w \in Workers, AwaitReply(w) PROVE QueueTypes'
  BY <1>11, ThreadKinds DEF AwaitReply
<1>12. ASSUME NEW w \in Workers, Vet(w) PROVE QueueTypes'
  BY <1>12, ThreadKinds DEF Vet
<1>13. ASSUME NEW w \in Workers, RegisterUpstream(w) PROVE QueueTypes'
  BY <1>13, ThreadKinds DEF RegisterUpstream
<1>14. ASSUME NEW w \in Workers, Relay(w) PROVE QueueTypes'
  BY <1>14, ThreadKinds DEF Relay
<1>15. ASSUME NEW w \in Workers, Finish(w) PROVE QueueTypes'
  BY <1>15, ThreadKinds DEF Finish
<1>16. ASSUME NEW d \in DnsWorkers, DnsPop(d) PROVE QueueTypes'
  BY <1>16, ThreadKinds DEF DnsPop
<1>17. ASSUME NEW d \in DnsWorkers, DnsBegin(d) PROVE QueueTypes'
  BY <1>17, ThreadKinds DEF DnsBegin
<1>18. ASSUME NEW d \in DnsWorkers, DnsReply(d) PROVE QueueTypes'
  BY <1>18, ThreadKinds DEF DnsReply
<1>19. ASSUME UNCHANGED vars PROVE QueueTypes'
  BY <1>19, ThreadKinds DEF vars
<1>20. ASSUME NEW w \in Workers, Connect(w) PROVE QueueTypes'
  BY <1>20, ThreadKinds DEF Connect
<1>21. QED
  BY <1>1, <1>2, <1>3, <1>4, <1>5, <1>6, <1>7, <1>8, <1>9, <1>10, <1>11, <1>12, <1>13,
     <1>14, <1>15, <1>16, <1>17, <1>18, <1>19, <1>20, ThreadKinds
  DEF Next, WorkerSteps, ListenerSteps, OwnerSteps, Stop

\* Every step keeps the types of what the workers look up and connect to.
LEMMA LookupTypeStep ==
  ASSUME Types, SocketInv, [Next]_vars
  PROVE  LookupTypes'
<1> USE DEF Goto, proxy, flows, dnsAll, Types, LookupTypes
<1>1. ASSUME NEW t \in Threads, StopStore(t) PROVE LookupTypes'
  BY <1>1, ThreadKinds DEF StopStore
<1>2. ASSUME NEW t \in Threads, StopSweep(t) PROVE LookupTypes'
  <2>1. UNCHANGED <<setup, lookup, job>>
    BY <1>2 DEF StopSweep
  <2>2. upstream' = [w \in Workers |-> IF "upstream" \in active[w]
                                     THEN [upstream[w] EXCEPT !.open = FALSE] ELSE upstream[w]]
    BY <1>2 DEF StopSweep
  <2>3. upstream' \in [Workers -> Upstream]
    BY <2>2, Fields
  <2>4. QED
    BY <2>1, <2>3, ThreadKinds
<1>3. ASSUME CancelOperation PROVE LookupTypes'
  BY <1>3, ThreadKinds DEF CancelOperation
<1>4. ASSUME DropGuard PROVE LookupTypes'
  BY <1>4, ThreadKinds DEF DropGuard
<1>5. ASSUME JoinListener PROVE LookupTypes'
  BY <1>5, ThreadKinds DEF JoinListener
<1>6. ASSUME Accept PROVE LookupTypes'
  BY <1>6, ThreadKinds DEF Accept
<1>7. ASSUME Enqueue PROVE LookupTypes'
  BY <1>7, ThreadKinds DEF Enqueue
<1>8. ASSUME NEW w \in Workers, NextClient(w) PROVE LookupTypes'
  BY <1>8, ThreadKinds DEF NextClient
<1>9. ASSUME NEW w \in Workers, RegisterClient(w) PROVE LookupTypes'
  BY <1>9, ThreadKinds DEF RegisterClient
<1>10. ASSUME NEW w \in Workers, Resolve(w) PROVE LookupTypes'
  <2>1. UNCHANGED <<setup, upstream, job>>
    BY <1>10 DEF Resolve
  <2>2. UNCHANGED lookup \/ \E answer \in Answers : lookup' = [lookup EXCEPT ![w].answer = answer]
    BY <1>10 DEF Resolve
  <2>3. lookup' \in [Workers -> Lookup]
    BY <2>2, Records, Fields
  <2>4. QED
    BY <2>1, <2>3, ThreadKinds
<1>11. ASSUME NEW w \in Workers, AwaitReply(w) PROVE LookupTypes'
  <2>1. UNCHANGED <<setup, upstream>> /\ pc[w] = "resolving"
    BY <1>11 DEF AwaitReply
  <2>2. serving[w] \in Clients
    BY <2>1 DEF SocketInv, Busy, Registered, QueueTypes
  <2>3. \/ UNCHANGED lookup
        \/ lookup' = [lookup EXCEPT ![w].answer = job[serving[w]].reply]
    BY <1>11 DEF AwaitReply
  <2>4. lookup' \in [Workers -> Lookup]
    BY <2>2, <2>3, Fields
  <2>5. \E j \in {NoJob, [NoJob EXCEPT !.cancelled = TRUE]} : job' = [job EXCEPT ![serving[w]] = j]
    BY <1>11 DEF AwaitReply
  <2>6. job' \in [Clients -> Job]
    BY <2>5, Records
  <2>7. QED
    BY <2>1, <2>4, <2>6, ThreadKinds
<1>12. ASSUME NEW w \in Workers, Vet(w) PROVE LookupTypes'
  <2>1. UNCHANGED <<setup, upstream, job>>
    BY <1>12 DEF Vet
  <2>2. \/ UNCHANGED lookup
        \/ lookup' = [lookup EXCEPT ![w] = [purpose |-> "proxy", answer |-> NoAnswer]]
    BY <1>12 DEF Vet
  <2>3. lookup' \in [Workers -> Lookup]
    BY <2>2, Records
  <2>4. QED
    BY <2>1, <2>3, ThreadKinds
<1>13. ASSUME NEW w \in Workers, RegisterUpstream(w) PROVE LookupTypes'
  <2>1. UNCHANGED <<setup, lookup, job>>
    BY <1>13 DEF RegisterUpstream
  <2>2. UNCHANGED upstream \/ upstream' = [upstream EXCEPT ![w].open = FALSE]
    BY <1>13 DEF RegisterUpstream
  <2>3. upstream' \in [Workers -> Upstream]
    BY <2>2, Fields
  <2>4. QED
    BY <2>1, <2>3, ThreadKinds
<1>14. ASSUME NEW w \in Workers, Relay(w) PROVE LookupTypes'
  BY <1>14, ThreadKinds DEF Relay
<1>15. ASSUME NEW w \in Workers, Finish(w) PROVE LookupTypes'
  BY <1>15, ThreadKinds, Records DEF Finish
<1>16. ASSUME NEW d \in DnsWorkers, DnsPop(d) PROVE LookupTypes'
  BY <1>16, ThreadKinds DEF DnsPop
<1>17. ASSUME NEW d \in DnsWorkers, DnsBegin(d) PROVE LookupTypes'
  BY <1>17, ThreadKinds, Records DEF DnsBegin
<1>18. ASSUME NEW d \in DnsWorkers, DnsReply(d) PROVE LookupTypes'
  <2>1. UNCHANGED <<setup, upstream, lookup>>
    BY <1>18 DEF DnsReply
  <2>2. PICK answer \in Answers :
          job' = [job EXCEPT ![dns[d].job] =
                    IF @.cancelled THEN NoJob ELSE [@ EXCEPT !.reply = answer]]
    BY <1>18 DEF DnsReply
  <2>3. \A k \in Clients : job'[k] \in Job
    BY <2>2, Records, Fields
  <2>4. job' \in [Clients -> Job]
    BY <2>2, <2>3
  <2>5. QED
    BY <2>1, <2>4, ThreadKinds
<1>19. ASSUME UNCHANGED vars PROVE LookupTypes'
  BY <1>19, ThreadKinds DEF vars
<1>20. ASSUME NEW w \in Workers, Connect(w) PROVE LookupTypes'
  <2>1. UNCHANGED <<setup, lookup, job>>
    BY <1>20 DEF Connect
  <2>2. \/ UNCHANGED upstream
        \/ \E a \in lookup[w].answer :
             upstream' = [upstream EXCEPT ![w] = [address |-> a, open |-> TRUE]]
    BY <1>20 DEF Connect
  <2>3. \A a \in lookup[w].answer : [address |-> a, open |-> TRUE] \in Upstream
    <3>1. lookup[w].answer \in AnswerSet
      BY DEF Lookup
    <3>2. lookup[w].answer \subseteq Addresses \cup {"none"}
      BY <3>1 DEF AnswerSet, Answers, NoAnswer, Addresses
    <3>3. QED
      BY <3>2 DEF Upstream
  <2>4. upstream' \in [Workers -> Upstream]
    BY <2>2, <2>3
  <2>5. QED
    BY <2>1, <2>4, ThreadKinds
<1>21. QED
  BY <1>1, <1>2, <1>3, <1>4, <1>5, <1>6, <1>7, <1>8, <1>9, <1>10, <1>11, <1>12, <1>13,
     <1>14, <1>15, <1>16, <1>17, <1>18, <1>19, <1>20, ThreadKinds
  DEF Next, WorkerSteps, ListenerSteps, OwnerSteps, Stop

-----------------------------------------------------------------------------
(* Whose the sockets are                                                   *)

\* The steps that move no client.
LEMMA SocketKept ==
  ASSUME Types, SocketInv, UNCHANGED <<setup, queue, serving>>,
         \A w \in Workers : pc[w] \in Busy <=> pc'[w] \in Busy,
         \A w \in Workers : active'[w] # {} => pc'[w] \in Registered,
         \A w \in Workers : "upstream" \in active'[w] => pc'[w] \in {"relay", "finish"},
         \A k \in Clients : socket[k] \in {"open", "shut"} => socket'[k] \in {"open", "shut"},
         \A i \in 1 .. Len(queue) : socket'[queue[i]] = socket[queue[i]]
  PROVE  SocketInv'
<1>1. Workers' = Workers /\ \A w \in Workers : serving[w] \in Clients \cup {None}
  BY ThreadKinds DEF Types, QueueTypes
<1>2. QED
  BY <1>1 DEF SocketInv

\* Every step keeps SocketInv.
LEMMA SocketStep ==
  ASSUME Types, LabelInv, SocketInv, [Next]_vars
  PROVE  SocketInv'
<1> USE DEF Goto, proxy, flows, dnsAll
<1>0. /\ pc \in [Threads -> Labels] /\ serving \in [Workers -> Clients \cup {None}]
      /\ queue \in Seq(Clients) /\ socket \in [Clients -> SocketState]
      /\ active \in [Workers -> SUBSET {"client", "upstream"}]
      /\ upstream \in [Workers -> Upstream] /\ lookup \in [Workers -> Lookup]
  BY DEF Types, PcType, QueueTypes, LookupTypes
<1>1. ASSUME NEW t \in Threads, StopStore(t) PROVE SocketInv'
  BY <1>0, <1>1, SocketKept, ThreadKinds
  DEF StopStore, SocketInv, LabelInv, Busy, Registered, Stopping, SocketState
<1>2. ASSUME NEW t \in Threads, StopSweep(t) PROVE SocketInv'
  <2>1. /\ UNCHANGED <<setup, serving, active>> /\ queue' = <<>> /\ Len(queue') = 0
        /\ pc[t] = "sweep" /\ pc' = [pc EXCEPT ![t] = AfterStop(t)]
    BY <1>2 DEF StopSweep
  <2>2. \A w \in Workers : /\ pc[w] \in Busy <=> pc'[w] \in Busy
                           /\ pc'[w] # pc[w] => pc[w] = "sweep"
    BY <1>0, <2>1, ThreadKinds DEF AfterStop, Busy, Registered
  <2>3. \A k \in Clients : socket[k] \in {"open", "shut"} => socket'[k] \in {"open", "shut"}
    BY <1>0, <1>2 DEF StopSweep
  <2>4. QED
    BY <1>0, <2>1, <2>2, <2>3, ThreadKinds DEF SocketInv, Registered
<1>3. ASSUME CancelOperation PROVE SocketInv'
  BY <1>0, <1>3, SocketKept, ThreadKinds
  DEF CancelOperation, SocketInv, LabelInv, Busy, Registered, Stopping, SocketState
<1>4. ASSUME DropGuard PROVE SocketInv'
  BY <1>0, <1>4, SocketKept, ThreadKinds
  DEF DropGuard, SocketInv, LabelInv, Busy, Registered, Stopping, SocketState
<1>5. ASSUME JoinListener PROVE SocketInv'
  BY <1>0, <1>5, SocketKept, ThreadKinds
  DEF JoinListener, SocketInv, LabelInv, Busy, Registered, Stopping, SocketState
<1>6. ASSUME Accept PROVE SocketInv'
  BY <1>0, <1>6, SocketKept, ThreadKinds
  DEF Accept, SocketInv, LabelInv, Busy, Registered, Stopping, SocketState
<1>7. ASSUME Enqueue PROVE SocketInv'
  <2>1. /\ UNCHANGED <<setup, serving, active>> /\ pc' = [pc EXCEPT ![Listener] = "accept"]
    BY <1>7 DEF Enqueue
  <2>2. PICK k \in Clients :
          /\ socket[k] = "accepted"
          /\ \/ socket' = [socket EXCEPT ![k] = "closed"] /\ UNCHANGED queue
             \/ socket' = [socket EXCEPT ![k] = "queued"] /\ queue' = Append(queue, k)
    BY <1>7 DEF Enqueue
  <2>3. \A w \in Workers : pc'[w] = pc[w] /\ serving[w] # k
    BY <1>0, <2>1, <2>2, ThreadKinds DEF SocketInv
  <2>4. \A i \in 1 .. Len(queue) : queue[i] # k
    BY <2>2 DEF SocketInv
  <2>5. \A i, j \in 1 .. Len(queue') : /\ socket'[queue'[i]] = "queued"
                                       /\ queue'[i] = queue'[j] => i = j
    <3>1. CASE UNCHANGED queue
      BY <1>0, <2>2, <2>4, <3>1 DEF SocketInv
    <3>2. CASE socket' = [socket EXCEPT ![k] = "queued"] /\ queue' = Append(queue, k)
      <4>1. /\ Len(queue') = Len(queue) + 1 /\ queue'[Len(queue) + 1] = k
            /\ \A i \in 1 .. Len(queue) : queue'[i] = queue[i]
        BY <1>0, <3>2
      <4>2. \A i \in 1 .. Len(queue') : i \in 1 .. Len(queue) \/ i = Len(queue) + 1
        BY <1>0, <4>1
      <4>3. QED
        BY <1>0, <2>2, <2>4, <3>2, <4>1, <4>2 DEF SocketInv
    <3>3. QED
      BY <2>2, <3>1, <3>2
  <2>6. \A w \in Workers : serving[w] # None => socket'[serving[w]] \in {"open", "shut"}
    BY <1>0, <2>2, <2>3 DEF SocketInv
  <2>7. QED
    BY <2>1, <2>3, <2>5, <2>6, ThreadKinds DEF SocketInv
<1>8. ASSUME NEW w \in Workers, NextClient(w) PROVE SocketInv'
  <2>1. UNCHANGED <<setup, active>> /\ pc[w] = "idle"
    BY <1>8 DEF NextClient
  <2>2. CASE UNCHANGED <<queue, serving, socket>>
    BY <1>0, <1>8, <2>1, <2>2, SocketKept, ThreadKinds
    DEF NextClient, SocketInv, Busy, Registered
  <2>3. CASE /\ queue # <<>> /\ serving' = [serving EXCEPT ![w] = Head(queue)]
             /\ socket' = [socket EXCEPT ![Head(queue)] = "open"]
             /\ queue' = Tail(queue) /\ pc' = [pc EXCEPT ![w] = "claimed"]
    <3>1. /\ queue[1] \in Clients /\ Head(queue) = queue[1] /\ 1 \in 1 .. Len(queue)
          /\ Len(queue') = Len(queue) - 1
          /\ \A i \in 1 .. Len(queue') : /\ queue'[i] = queue[i + 1]
                                         /\ i + 1 \in 1 .. Len(queue) /\ i + 1 # 1
      BY <1>0, <2>3
    <3>2. \A i, j \in 1 .. Len(queue') : /\ socket'[queue'[i]] = "queued"
                                         /\ queue'[i] = queue'[j] => i = j
      BY <1>0, <2>3, <3>1 DEF SocketInv
    <3>3. \A v \in Workers : serving[v] # queue[1]
      BY <1>0, <3>1, ThreadKinds DEF SocketInv
    <3>4. /\ serving'[w] = queue[1] /\ queue[1] # None /\ pc'[w] = "claimed"
          /\ \A v \in Workers : v # w => serving'[v] = serving[v] /\ pc'[v] = pc[v]
      BY <1>0, <2>3, <3>1, ThreadKinds
    <3>5. /\ socket'[queue[1]] = "open"
          /\ \A k \in Clients : k # queue[1] => socket'[k] = socket[k]
      BY <1>0, <2>3, <3>1
    <3>6. active[w] = {}
      BY <1>0, <2>1 DEF SocketInv, Registered
    <3>7. \A v \in Workers : serving'[v] # None => socket'[serving'[v]] \in {"open", "shut"}
      BY <1>0, <3>3, <3>4, <3>5 DEF SocketInv
    <3>8. QED
      BY <1>0, <2>1, <3>2, <3>3, <3>4, <3>6, <3>7, ThreadKinds DEF SocketInv, Busy
  <2>4. QED
    BY <1>8, <2>2, <2>3 DEF NextClient
<1>9. ASSUME NEW w \in Workers, RegisterClient(w) PROVE SocketInv'
  <2>1. UNCHANGED <<setup, queue>> /\ pc[w] = "claimed"
    BY <1>9 DEF RegisterClient
  <2>2. CASE /\ socket' = [socket EXCEPT ![serving[w]] = "closed"]
             /\ serving' = [serving EXCEPT ![w] = None]
             /\ pc' = [pc EXCEPT ![w] = "idle"] /\ UNCHANGED active
    <3>1. /\ serving[w] \in Clients /\ serving'[w] = None /\ pc'[w] = "idle"
          /\ \A v \in Workers : v # w => serving'[v] = serving[v] /\ pc'[v] = pc[v]
      BY <1>0, <2>1, <2>2, ThreadKinds DEF SocketInv, Busy, Registered
    <3>2. \A k \in Clients : k # serving[w] => socket'[k] = socket[k]
      BY <1>0, <2>2
    <3>3. \A v \in Workers : v # w => serving[v] # serving[w]
      BY <1>0, <3>1, ThreadKinds DEF SocketInv
    <3>4. \A i \in 1 .. Len(queue) : queue[i] \in Clients /\ queue[i] # serving[w]
      BY <1>0, <3>1, ThreadKinds DEF SocketInv
    <3>5. active'[w] = {} /\ \A v \in Workers : v # w => active'[v] = active[v]
      BY <1>0, <2>1, <2>2 DEF SocketInv, Registered
    <3>6. \A v \in Workers : serving'[v] # None => socket'[serving'[v]] \in {"open", "shut"}
      BY <1>0, <3>1, <3>2, <3>3 DEF SocketInv
    <3>7. \A i \in 1 .. Len(queue) : socket'[queue[i]] = "queued"
      BY <3>2, <3>4 DEF SocketInv
    <3>8. QED
      BY <1>0, <2>1, <3>1, <3>3, <3>5, <3>6, <3>7, ThreadKinds
      DEF SocketInv, Busy, Registered
  <2>3. CASE /\ active' = [active EXCEPT ![w] = @ \cup {"client"}]
             /\ pc' = [pc EXCEPT ![w] = "request"] /\ UNCHANGED <<serving, socket>>
    <3>1. active[w] = {}
      BY <1>0, <2>1 DEF SocketInv, Registered
    <3>2. QED
      BY <1>0, <2>1, <2>3, <3>1, SocketKept, ThreadKinds DEF SocketInv, Busy, Registered
  <2>4. QED
    BY <1>9, <2>2, <2>3 DEF RegisterClient
<1>10. ASSUME NEW w \in Workers, Resolve(w) PROVE SocketInv'
  BY <1>0, <1>10, SocketKept, ThreadKinds
  DEF Resolve, SocketInv, LabelInv, Busy, Registered, Stopping, SocketState
<1>11. ASSUME NEW w \in Workers, AwaitReply(w) PROVE SocketInv'
  <2>1. /\ UNCHANGED <<setup, queue, serving, socket, active>> /\ pc[w] = "resolving"
        /\ \E l \in {"vet", "finish"} : pc' = [pc EXCEPT ![w] = l]
    BY <1>11 DEF AwaitReply
  <2>2. active[w] \subseteq {"client"}
    BY <1>0, <2>1 DEF SocketInv
  <2>3. QED
    BY <1>0, <2>1, <2>2, SocketKept, ThreadKinds DEF SocketInv, Busy, Registered
<1>12. ASSUME NEW w \in Workers, Vet(w) PROVE SocketInv'
  BY <1>0, <1>12, SocketKept, ThreadKinds
  DEF Vet, SocketInv, LabelInv, Busy, Registered, Stopping, SocketState
<1>13. ASSUME NEW w \in Workers, RegisterUpstream(w) PROVE SocketInv'
  BY <1>0, <1>13, SocketKept, ThreadKinds
  DEF RegisterUpstream, SocketInv, LabelInv, Busy, Registered, Stopping, SocketState
<1>14. ASSUME NEW w \in Workers, Relay(w) PROVE SocketInv'
  BY <1>0, <1>14, SocketKept, ThreadKinds
  DEF Relay, SocketInv, LabelInv, Busy, Registered, Stopping, SocketState
<1>15. ASSUME NEW w \in Workers, Finish(w) PROVE SocketInv'
  <2>1. UNCHANGED <<setup, queue>> /\ pc[w] = "finish"
    BY <1>15 DEF Finish
  <2>2. /\ socket' = [socket EXCEPT ![serving[w]] = "closed"]
        /\ serving' = [serving EXCEPT ![w] = None]
        /\ pc' = [pc EXCEPT ![w] = "idle"] /\ active' = [active EXCEPT ![w] = {}]
    BY <1>15 DEF Finish
  <2>3. SocketInv'
    <3>1. /\ serving[w] \in Clients /\ serving'[w] = None /\ pc'[w] = "idle"
          /\ \A v \in Workers : v # w => serving'[v] = serving[v] /\ pc'[v] = pc[v]
      BY <1>0, <2>1, <2>2, ThreadKinds DEF SocketInv, Busy, Registered
    <3>2. \A k \in Clients : k # serving[w] => socket'[k] = socket[k]
      BY <1>0, <2>2
    <3>3. \A v \in Workers : v # w => serving[v] # serving[w]
      BY <1>0, <3>1, ThreadKinds DEF SocketInv
    <3>4. \A i \in 1 .. Len(queue) : queue[i] \in Clients /\ queue[i] # serving[w]
      BY <1>0, <3>1, ThreadKinds DEF SocketInv
    <3>5. active'[w] = {} /\ \A v \in Workers : v # w => active'[v] = active[v]
      BY <1>0, <2>1, <2>2 DEF SocketInv, Registered
    <3>6. \A v \in Workers : serving'[v] # None => socket'[serving'[v]] \in {"open", "shut"}
      BY <1>0, <3>1, <3>2, <3>3 DEF SocketInv
    <3>7. \A i \in 1 .. Len(queue) : socket'[queue[i]] = "queued"
      BY <3>2, <3>4 DEF SocketInv
    <3>8. QED
      BY <1>0, <2>1, <3>1, <3>3, <3>5, <3>6, <3>7, ThreadKinds
      DEF SocketInv, Busy, Registered
  <2>4. QED
    BY <2>3
<1>16. ASSUME NEW d \in DnsWorkers, DnsPop(d) PROVE SocketInv'
  BY <1>0, <1>16, SocketKept, ThreadKinds
  DEF DnsPop, SocketInv, LabelInv, Busy, Registered, Stopping, SocketState
<1>17. ASSUME NEW d \in DnsWorkers, DnsBegin(d) PROVE SocketInv'
  BY <1>0, <1>17, SocketKept, ThreadKinds
  DEF DnsBegin, SocketInv, LabelInv, Busy, Registered, Stopping, SocketState
<1>18. ASSUME NEW d \in DnsWorkers, DnsReply(d) PROVE SocketInv'
  BY <1>0, <1>18, SocketKept, ThreadKinds
  DEF DnsReply, SocketInv, LabelInv, Busy, Registered, Stopping, SocketState
<1>19. ASSUME UNCHANGED vars PROVE SocketInv'
  BY <1>19, <1>0, SocketKept, ThreadKinds DEF vars, SocketInv, Registered
<1>20. ASSUME NEW w \in Workers, Connect(w) PROVE SocketInv'
  BY <1>0, <1>20, SocketKept, ThreadKinds
  DEF Connect, SocketInv, LabelInv, Busy, Registered, Stopping, SocketState
<1>21. QED
  BY <1>1, <1>2, <1>3, <1>4, <1>5, <1>6, <1>7, <1>8, <1>9, <1>10, <1>11, <1>12, <1>13,
     <1>14, <1>15, <1>16, <1>17, <1>18, <1>19, <1>20, ThreadKinds
  DEF Next, WorkerSteps, ListenerSteps, OwnerSteps, Stop

-----------------------------------------------------------------------------
(* Vetted addresses                                                        *)

\* Writing an answer into a lookup leaves what it is for.
LEMMA OnlyAnswers ==
  ASSUME lookup \in [Workers -> Lookup], NEW w \in Workers, NEW a \in AnswerSet,
         lookup' = [lookup EXCEPT ![w].answer = a]
  PROVE  \A v \in Workers : /\ v # w => lookup'[v] = lookup[v]
                            /\ lookup'[v].purpose = lookup[v].purpose
<1>1. lookup'[w] = [lookup[w] EXCEPT !.answer = a]
      /\ \A v \in Workers : v # w => lookup'[v] = lookup[v]
  OBVIOUS
<1>2. lookup'[w].purpose = lookup[w].purpose
  BY <1>1 DEF Lookup
<1>3. QED
  BY <1>1, <1>2

\* Shutting one upstream socket opens none.
LEMMA OnlyShuts ==
  ASSUME upstream \in [Workers -> Upstream], NEW w \in Workers,
         upstream' = [upstream EXCEPT ![w].open = FALSE]
  PROVE  \A v \in Workers : upstream'[v] = upstream[v] \/ ~upstream'[v].open
<1>1. upstream'[w] = [upstream[w] EXCEPT !.open = FALSE]
      /\ \A v \in Workers : v # w => upstream'[v] = upstream[v]
  OBVIOUS
<1>2. ~upstream'[w].open
  BY <1>1 DEF Upstream
<1>3. QED
  BY <1>1, <1>2

\* Every step keeps VetInv.
LEMMA VetStep ==
  ASSUME Types, LabelInv, SocketInv, VetInv, [Next]_vars
  PROVE  VetInv'
<1> USE DEF Goto, proxy, flows, dnsAll
<1>0. /\ pc \in [Threads -> Labels] /\ serving \in [Workers -> Clients \cup {None}]
      /\ queue \in Seq(Clients) /\ socket \in [Clients -> SocketState]
      /\ active \in [Workers -> SUBSET {"client", "upstream"}]
      /\ upstream \in [Workers -> Upstream] /\ lookup \in [Workers -> Lookup]
  BY DEF Types, PcType, QueueTypes, LookupTypes
<1>1. ASSUME NEW t \in Threads, StopStore(t) PROVE VetInv'
  BY <1>1, <1>0, ThreadKinds DEF StopStore, VetInv
<1>2. ASSUME NEW t \in Threads, StopSweep(t) PROVE VetInv'
  <2>1. /\ UNCHANGED <<setup, lookup>> /\ pc[t] = "sweep"
        /\ pc' = [pc EXCEPT ![t] = AfterStop(t)]
        /\ upstream' = [w \in Workers |-> IF "upstream" \in active[w]
                                          THEN [upstream[w] EXCEPT !.open = FALSE] ELSE upstream[w]]
    BY <1>2 DEF StopSweep
  <2>2. \A w \in Workers : upstream'[w] = upstream[w] \/ ~upstream'[w].open
    BY <1>0, <2>1, Fields
  <2>3. \A w \in Workers : pc'[w] = pc[w] \/ (pc[w] = "sweep" /\ pc'[w] = "exited")
    BY <1>0, <2>1, ThreadKinds DEF AfterStop
  <2>4. QED
    BY <2>1, <2>2, <2>3, ThreadKinds DEF VetInv
<1>3. ASSUME CancelOperation PROVE VetInv'
  BY <1>3, <1>0, ThreadKinds DEF CancelOperation, VetInv
<1>4. ASSUME DropGuard PROVE VetInv'
  BY <1>4, <1>0, ThreadKinds DEF DropGuard, VetInv
<1>5. ASSUME JoinListener PROVE VetInv'
  BY <1>5, <1>0, ThreadKinds DEF JoinListener, VetInv
<1>6. ASSUME Accept PROVE VetInv'
  BY <1>6, <1>0, ThreadKinds DEF Accept, VetInv
<1>7. ASSUME Enqueue PROVE VetInv'
  BY <1>7, <1>0, ThreadKinds DEF Enqueue, VetInv
<1>8. ASSUME NEW w \in Workers, NextClient(w) PROVE VetInv'
  BY <1>8, <1>0, ThreadKinds DEF NextClient, VetInv
<1>9. ASSUME NEW w \in Workers, RegisterClient(w) PROVE VetInv'
  BY <1>9, <1>0, ThreadKinds DEF RegisterClient, VetInv
<1>10. ASSUME NEW w \in Workers, Resolve(w) PROVE VetInv'
  <2>1. /\ UNCHANGED <<setup, upstream>> /\ pc[w] = "request"
        /\ \E label \in {"finish", "vet", "resolving"} : pc' = [pc EXCEPT ![w] = label]
    BY <1>10 DEF Resolve
  <2>2. \/ UNCHANGED lookup
        \/ \E answer \in AnswerSet : lookup' = [lookup EXCEPT ![w].answer = answer]
    BY <1>10, Records DEF Resolve
  <2>3. \A v \in Workers : /\ v # w => lookup'[v] = lookup[v] /\ pc'[v] = pc[v]
                           /\ lookup'[v].purpose = lookup[v].purpose
    BY <1>0, <2>1, <2>2, OnlyAnswers, ThreadKinds
  <2>4. ~upstream[w].open /\ pc'[w] # "connect"
    BY <1>0, <2>1, ThreadKinds DEF VetInv
  <2>5. QED
    BY <2>1, <2>3, <2>4, ThreadKinds DEF VetInv
<1>11. ASSUME NEW w \in Workers, AwaitReply(w) PROVE VetInv'
  <2>1. /\ UNCHANGED <<setup, upstream>> /\ pc[w] = "resolving"
        /\ \E label \in {"finish", "vet"} : pc' = [pc EXCEPT ![w] = label]
    BY <1>11 DEF AwaitReply
  <2>2. \/ UNCHANGED lookup
        \/ lookup' = [lookup EXCEPT ![w].answer = job[serving[w]].reply]
    BY <1>11 DEF AwaitReply
  <2>3. serving[w] \in Clients
    BY <1>0, <2>1 DEF SocketInv, Busy, Registered
  <2>4. job[serving[w]].reply \in AnswerSet
    BY <2>3, Fields DEF Types, LookupTypes
  <2>5. \A v \in Workers : /\ v # w => lookup'[v] = lookup[v] /\ pc'[v] = pc[v]
                           /\ lookup'[v].purpose = lookup[v].purpose
    BY <1>0, <2>1, <2>2, <2>4, OnlyAnswers, ThreadKinds
  <2>6. ~upstream[w].open /\ pc'[w] # "connect"
    BY <1>0, <2>1, ThreadKinds DEF VetInv
  <2>7. QED
    BY <2>1, <2>5, <2>6, ThreadKinds DEF VetInv
<1>12. ASSUME NEW w \in Workers, Vet(w) PROVE VetInv'
  <2>1. /\ UNCHANGED <<setup, upstream>> /\ pc[w] = "vet" /\ ~upstream[w].open
        /\ \A v \in Workers : v # w => lookup'[v] = lookup[v] /\ pc'[v] = pc[v]
    BY <1>0, <1>12, ThreadKinds DEF Vet, VetInv
  <2>2. CASE pc' = [pc EXCEPT ![w] = "finish"] /\ UNCHANGED lookup
    BY <1>0, <2>1, <2>2, ThreadKinds DEF VetInv
  <2>3. CASE /\ setup.proxied /\ pc' = [pc EXCEPT ![w] = "request"]
             /\ lookup' = [lookup EXCEPT ![w] = [purpose |-> "proxy", answer |-> NoAnswer]]
    BY <1>0, <2>1, <2>3, ThreadKinds DEF VetInv
  <2>4. CASE /\ lookup[w].purpose = "proxy" \/ (~setup.proxied /\ Allowed(lookup[w].answer))
             /\ pc' = [pc EXCEPT ![w] = "connect"] /\ UNCHANGED lookup
    <3>1. ~setup.proxied => lookup[w].answer = {"public"}
      BY <2>4 DEF Allowed, VetInv
    <3>2. QED
      BY <1>0, <2>1, <2>4, <3>1, ThreadKinds DEF VetInv
  <2>5. QED
    BY <1>12, <2>2, <2>3, <2>4 DEF Vet
<1>13. ASSUME NEW w \in Workers, RegisterUpstream(w) PROVE VetInv'
  <2>1. /\ UNCHANGED <<setup, lookup>> /\ pc[w] = "connected"
        /\ \E label \in {"relay", "finish"} : pc' = [pc EXCEPT ![w] = label]
        /\ UNCHANGED upstream \/ upstream' = [upstream EXCEPT ![w].open = FALSE]
    BY <1>13 DEF RegisterUpstream
  <2>2. \A v \in Workers : upstream'[v] = upstream[v] \/ ~upstream'[v].open
    BY <1>0, <2>1, OnlyShuts
  <2>3. QED
    BY <1>0, <2>1, <2>2, ThreadKinds DEF VetInv
<1>14. ASSUME NEW w \in Workers, Relay(w) PROVE VetInv'
  BY <1>14, <1>0, ThreadKinds DEF Relay, VetInv
<1>15. ASSUME NEW w \in Workers, Finish(w) PROVE VetInv'
  <2>1. /\ UNCHANGED setup /\ pc' = [pc EXCEPT ![w] = "idle"]
        /\ upstream' = [upstream EXCEPT ![w] = Closed]
        /\ lookup' = [lookup EXCEPT ![w] = NoLookup]
    BY <1>15 DEF Finish
  <2>2. ~Closed.open /\ NoLookup.purpose # "proxy"
    BY DEF Closed, NoLookup
  <2>3. QED
    BY <1>0, <2>1, <2>2, ThreadKinds DEF VetInv
<1>16. ASSUME NEW d \in DnsWorkers, DnsPop(d) PROVE VetInv'
  BY <1>16, <1>0, ThreadKinds DEF DnsPop, VetInv
<1>17. ASSUME NEW d \in DnsWorkers, DnsBegin(d) PROVE VetInv'
  BY <1>17, <1>0, ThreadKinds DEF DnsBegin, VetInv
<1>18. ASSUME NEW d \in DnsWorkers, DnsReply(d) PROVE VetInv'
  BY <1>18, <1>0, ThreadKinds DEF DnsReply, VetInv
<1>19. ASSUME UNCHANGED vars PROVE VetInv'
  BY <1>19, <1>0, ThreadKinds DEF vars, VetInv
<1>20. ASSUME NEW w \in Workers, Connect(w) PROVE VetInv'
  <2>1. /\ UNCHANGED <<setup, lookup>> /\ pc[w] = "connect"
        /\ \A v \in Workers : v # w => upstream'[v] = upstream[v] /\ pc'[v] = pc[v]
    BY <1>0, <1>20, ThreadKinds DEF Connect
  <2>2. CASE pc' = [pc EXCEPT ![w] = "finish"] /\ UNCHANGED upstream
    BY <1>0, <2>1, <2>2, ThreadKinds DEF VetInv
  <2>3. CASE /\ pc' = [pc EXCEPT ![w] = "connected"]
             /\ \E a \in lookup[w].answer :
                  upstream' = [upstream EXCEPT ![w] = [address |-> a, open |-> TRUE]]
    <3>1. pc'[w] = "connected"
      BY <1>0, <2>3, ThreadKinds
    <3>2. PICK a \in lookup[w].answer : upstream'[w] = [address |-> a, open |-> TRUE]
      BY <1>0, <2>3
    <3>3. ~setup.proxied => lookup[w].answer = {"public"}
      BY <2>1 DEF VetInv
    <3>4. ~setup.proxied => upstream'[w].address = "public"
      BY <3>2, <3>3
    <3>5. QED
      BY <2>1, <3>1, <3>3, <3>4, ThreadKinds DEF VetInv
  <2>4. QED
    BY <1>20, <2>2, <2>3 DEF Connect
<1>21. QED
  BY <1>1, <1>2, <1>3, <1>4, <1>5, <1>6, <1>7, <1>8, <1>9, <1>10, <1>11, <1>12, <1>13,
     <1>14, <1>15, <1>16, <1>17, <1>18, <1>19, <1>20, ThreadKinds
  DEF Next, WorkerSteps, ListenerSteps, OwnerSteps, Stop

-----------------------------------------------------------------------------
(* What stop() leaves                                                      *)

\* Nothing that is in the table or in the queue is opened, and nobody enters
\* it, once the scan of the owner is over.
LEMMA StopKept ==
  ASSUME Types, StopLeavesNothingOpen, UNCHANGED <<setup, queue>>,
         pc'[Owner] \in {"join", "dropped"} => pc[Owner] \in {"join", "dropped"},
         pc[Owner] \in {"join", "dropped"} =>
           \A w \in Workers :
             /\ "client" \in active'[w] =>
                  /\ "client" \in active[w] /\ serving'[w] = serving[w]
                  /\ socket[serving[w]] = "shut" => socket'[serving[w]] = "shut"
             /\ "upstream" \in active'[w] =>
                  "upstream" \in active[w] /\ (upstream'[w].open => upstream[w].open)
  PROVE  StopLeavesNothingOpen'
BY ThreadKinds DEF StopLeavesNothingOpen

\* Every step keeps StopLeavesNothingOpen.
LEMMA StopStep ==
  ASSUME Types, LabelInv, SocketInv, StopLeavesNothingOpen, [Next]_vars
  PROVE  StopLeavesNothingOpen'
<1> USE DEF Goto, proxy, flows, dnsAll
<1>0. /\ pc \in [Threads -> Labels] /\ serving \in [Workers -> Clients \cup {None}]
      /\ queue \in Seq(Clients) /\ socket \in [Clients -> SocketState]
      /\ active \in [Workers -> SUBSET {"client", "upstream"}]
      /\ upstream \in [Workers -> Upstream] /\ lookup \in [Workers -> Lookup]
  BY DEF Types, PcType, QueueTypes, LookupTypes
<1>1. ASSUME NEW t \in Threads, StopStore(t) PROVE StopLeavesNothingOpen'
  BY <1>0, <1>1, StopKept, ThreadKinds DEF StopStore
<1>2. ASSUME NEW t \in Threads, StopSweep(t) PROVE StopLeavesNothingOpen'
  <2>1. /\ UNCHANGED <<setup, serving, active>> /\ queue' = <<>>
        /\ socket' = [k \in Clients |->
             IF socket[k] = "queued" THEN "closed"
             ELSE IF \E w \in Workers : serving[w] = k /\ "client" \in active[w] THEN "shut"
             ELSE socket[k]]
        /\ upstream' = [w \in Workers |-> IF "upstream" \in active[w]
                                          THEN [upstream[w] EXCEPT !.open = FALSE] ELSE upstream[w]]
    BY <1>2 DEF StopSweep
  <2>2. ASSUME NEW w \in Workers, "client" \in active[w]
        PROVE  socket'[serving[w]] = "shut"
    <3>1. serving[w] \in Clients /\ socket[serving[w]] # "queued"
      BY <1>0, <2>2 DEF SocketInv, Busy
    <3>2. QED
      BY <2>1, <2>2, <3>1
  <2>3. \A w \in Workers : "upstream" \in active[w] => ~upstream'[w].open
    BY <1>0, <2>1, Fields
  <2>4. QED
    BY <2>1, <2>2, <2>3, ThreadKinds DEF StopLeavesNothingOpen
<1>3. ASSUME CancelOperation PROVE StopLeavesNothingOpen'
  BY <1>0, <1>3, StopKept, ThreadKinds DEF CancelOperation
<1>4. ASSUME DropGuard PROVE StopLeavesNothingOpen'
  BY <1>0, <1>4, StopKept, ThreadKinds DEF DropGuard
<1>5. ASSUME JoinListener PROVE StopLeavesNothingOpen'
  BY <1>0, <1>5, StopKept, ThreadKinds DEF JoinListener
<1>6. ASSUME Accept PROVE StopLeavesNothingOpen'
  <2>1. /\ UNCHANGED <<setup, queue, active, serving, upstream>>
        /\ \E label \in Labels : pc' = [pc EXCEPT ![Listener] = label]
        /\ \/ UNCHANGED socket
           \/ \E k \in Clients : socket[k] = "new" /\ socket' = [socket EXCEPT ![k] = "accepted"]
    BY <1>6 DEF Accept, Labels, Busy, Registered, Stopping
  <2>2. \A k \in Clients : socket[k] = "shut" => socket'[k] = "shut"
    BY <1>0, <2>1
  <2>3. \A w \in Workers : "client" \in active[w] => serving[w] \in Clients
    BY <1>0 DEF SocketInv, Busy
  <2>4. QED
    BY <1>0, <2>1, <2>2, <2>3, StopKept, ThreadKinds
<1>7. ASSUME Enqueue PROVE StopLeavesNothingOpen'
  <2>1. /\ UNCHANGED <<setup, active, serving, upstream>>
        /\ pc' = [pc EXCEPT ![Listener] = "accept"]
        /\ \E k \in Clients, state \in {"closed", "queued"} :
             socket[k] = "accepted" /\ socket' = [socket EXCEPT ![k] = state]
        /\ stopped => UNCHANGED queue
    BY <1>7 DEF Enqueue
  <2>2. \A k \in Clients : socket[k] = "shut" => socket'[k] = "shut"
    BY <1>0, <2>1
  <2>3. \A w \in Workers : "client" \in active[w] => serving[w] \in Clients
    BY <1>0 DEF SocketInv, Busy
  <2>4. pc[Owner] \in {"join", "dropped"} => stopped
    BY DEF LabelInv
  <2>5. pc'[Owner] = pc[Owner]
    BY <1>0, <2>1, ThreadKinds
  <2>6. QED
    BY <1>0, <2>1, <2>2, <2>3, <2>4, <2>5, ThreadKinds DEF StopLeavesNothingOpen
<1>8. ASSUME NEW w \in Workers, NextClient(w) PROVE StopLeavesNothingOpen'
  <2>1. /\ UNCHANGED <<setup, active, upstream>>
        /\ stopped => UNCHANGED <<queue, serving, socket>>
        /\ \E label \in Labels : pc' = [pc EXCEPT ![w] = label]
    BY <1>0, <1>8 DEF NextClient, Labels, Busy, Registered, Stopping
  <2>2. pc[Owner] \in {"join", "dropped"} => stopped
    BY DEF LabelInv
  <2>3. pc'[Owner] = pc[Owner]
    BY <1>0, <2>1, ThreadKinds
  <2>4. QED
    BY <1>0, <2>1, <2>2, <2>3, ThreadKinds DEF StopLeavesNothingOpen
<1>9. ASSUME NEW w \in Workers, RegisterClient(w) PROVE StopLeavesNothingOpen'
  <2>1. /\ UNCHANGED <<setup, queue, upstream>> /\ pc[w] = "claimed"
        /\ stopped => /\ UNCHANGED active
                      /\ socket' = [socket EXCEPT ![serving[w]] = "closed"]
                      /\ serving' = [serving EXCEPT ![w] = None]
        /\ \E label \in Labels : pc' = [pc EXCEPT ![w] = label]
    BY <1>9 DEF RegisterClient, Labels, Busy, Registered
  <2>2. pc[Owner] \in {"join", "dropped"} => stopped
    BY DEF LabelInv
  <2>3. pc'[Owner] = pc[Owner]
    BY <1>0, <2>1, ThreadKinds
  <2>4. active[w] = {} /\ serving[w] \in Clients
    <3>1. active[w] = {}
      BY <2>1 DEF SocketInv, Registered
    <3>2. serving[w] \in Clients
      BY <1>0, <2>1 DEF SocketInv, Busy
    <3>3. QED
      BY <3>1, <3>2
  <2>5. \A v \in Workers : "client" \in active[v] => v # w /\ serving[v] \in Clients
    BY <1>0, <2>4 DEF SocketInv, Busy
  <2>6. \A v \in Workers : v # w => serving[v] # serving[w]
    BY <2>4, ThreadKinds DEF SocketInv
  <2>7. QED
    BY <1>0, <2>1, <2>2, <2>3, <2>5, <2>6, StopKept, ThreadKinds
<1>10. ASSUME NEW w \in Workers, Resolve(w) PROVE StopLeavesNothingOpen'
  BY <1>0, <1>10, StopKept, ThreadKinds DEF Resolve
<1>11. ASSUME NEW w \in Workers, AwaitReply(w) PROVE StopLeavesNothingOpen'
  BY <1>0, <1>11, StopKept, ThreadKinds DEF AwaitReply
<1>12. ASSUME NEW w \in Workers, Vet(w) PROVE StopLeavesNothingOpen'
  BY <1>0, <1>12, StopKept, ThreadKinds DEF Vet
<1>13. ASSUME NEW w \in Workers, RegisterUpstream(w) PROVE StopLeavesNothingOpen'
  <2>1. /\ UNCHANGED <<setup, queue, serving, socket>>
        /\ \E label \in Labels : pc' = [pc EXCEPT ![w] = label]
        /\ stopped => UNCHANGED active
        /\ UNCHANGED upstream \/ upstream' = [upstream EXCEPT ![w].open = FALSE]
    BY <1>0, <1>13 DEF RegisterUpstream, Labels, Busy, Registered
  <2>2. \A v \in Workers : upstream'[v].open => upstream[v].open
    BY <1>0, <2>1, OnlyShuts
  <2>3. pc[Owner] \in {"join", "dropped"} => stopped
    BY DEF LabelInv
  <2>4. QED
    BY <1>0, <2>1, <2>2, <2>3, StopKept, ThreadKinds
<1>14. ASSUME NEW w \in Workers, Relay(w) PROVE StopLeavesNothingOpen'
  BY <1>0, <1>14, StopKept, ThreadKinds DEF Relay
<1>15. ASSUME NEW w \in Workers, Finish(w) PROVE StopLeavesNothingOpen'
  <2>1. /\ UNCHANGED <<setup, queue>> /\ pc[w] = "finish"
        /\ pc' = [pc EXCEPT ![w] = "idle"] /\ active' = [active EXCEPT ![w] = {}]
        /\ socket' = [socket EXCEPT ![serving[w]] = "closed"]
        /\ serving' = [serving EXCEPT ![w] = None]
        /\ upstream' = [upstream EXCEPT ![w] = Closed]
    BY <1>15 DEF Finish
  <2>2. serving[w] \in Clients
    BY <1>0, <2>1 DEF SocketInv, Registered, Busy
  <2>3. \A v \in Workers : "client" \in active'[v] => v # w /\ serving[v] \in Clients
    <3>1. active'[w] = {} /\ \A v \in Workers : v # w => active'[v] = active[v]
      BY <1>0, <2>1
    <3>2. \A v \in Workers : "client" \in active[v] => serving[v] \in Clients
      BY <1>0 DEF SocketInv, Busy, Registered
    <3>3. QED
      BY <3>1, <3>2
  <2>4. \A v \in Workers : v # w => serving[v] # serving[w]
    BY <2>2, ThreadKinds DEF SocketInv
  <2>5. active'[w] = {} /\ pc'[Owner] = pc[Owner]
    BY <1>0, <2>1, ThreadKinds
  <2>6. QED
    BY <1>0, <2>1, <2>3, <2>4, <2>5, StopKept, ThreadKinds
<1>16. ASSUME NEW d \in DnsWorkers, DnsPop(d) PROVE StopLeavesNothingOpen'
  BY <1>0, <1>16, StopKept, ThreadKinds DEF DnsPop
<1>17. ASSUME NEW d \in DnsWorkers, DnsBegin(d) PROVE StopLeavesNothingOpen'
  BY <1>0, <1>17, StopKept, ThreadKinds DEF DnsBegin
<1>18. ASSUME NEW d \in DnsWorkers, DnsReply(d) PROVE StopLeavesNothingOpen'
  BY <1>0, <1>18, StopKept, ThreadKinds DEF DnsReply
<1>19. ASSUME UNCHANGED vars PROVE StopLeavesNothingOpen'
  BY <1>19, <1>0, StopKept, ThreadKinds DEF vars
<1>20. ASSUME NEW w \in Workers, Connect(w) PROVE StopLeavesNothingOpen'
  <2>1. /\ UNCHANGED <<setup, queue, active, serving, socket>> /\ pc[w] = "connect"
        /\ \E label \in Labels : pc' = [pc EXCEPT ![w] = label]
        /\ \A v \in Workers : v # w => upstream'[v] = upstream[v]
    BY <1>0, <1>20 DEF Connect, Labels, Busy, Registered
  <2>2. "upstream" \notin active[w]
    BY <2>1 DEF SocketInv
  <2>3. QED
    BY <1>0, <2>1, <2>2, StopKept, ThreadKinds
<1>21. QED
  BY <1>1, <1>2, <1>3, <1>4, <1>5, <1>6, <1>7, <1>8, <1>9, <1>10, <1>11, <1>12, <1>13,
     <1>14, <1>15, <1>16, <1>17, <1>18, <1>19, <1>20, ThreadKinds
  DEF Next, WorkerSteps, ListenerSteps, OwnerSteps, Stop

-----------------------------------------------------------------------------
(* The pool of DNS workers                                                 *)

\* What removing an element leaves.
LEMMA Removal ==
  ASSUME NEW S, NEW q \in Seq(S), NEW i \in 1 .. Len(q)
  PROVE  /\ RemoveAt(q, i) \in Seq(S) /\ Len(RemoveAt(q, i)) = Len(q) - 1
         /\ \A j \in 1 .. Len(RemoveAt(q, i)) :
              RemoveAt(q, i)[j] = q[IF j < i THEN j ELSE j + 1]
<1> DEFINE a == SubSeq(q, 1, i - 1)
           b == SubSeq(q, i + 1, Len(q))
<1>1. a \in Seq(S) /\ Len(a) = i - 1 /\ \A j \in 1 .. i - 1 : a[j] = q[j]
  OBVIOUS
<1>2. b \in Seq(S) /\ Len(b) = Len(q) - i /\ \A j \in 1 .. Len(q) - i : b[j] = q[i + j]
  OBVIOUS
<1>3. RemoveAt(q, i) = a \o b
  BY DEF RemoveAt
<1> HIDE DEF a, b
<1>4. a \o b \in Seq(S) /\ Len(a \o b) = Len(a) + Len(b)
  BY <1>1, <1>2, ConcatProperties
<1>5. ASSUME NEW j \in 1 .. Len(a \o b)
      PROVE  (a \o b)[j] = q[IF j < i THEN j ELSE j + 1]
  <2>1. (a \o b)[j] = IF j <= Len(a) THEN a[j] ELSE b[j - Len(a)]
    BY <1>1, <1>2, <1>4, <1>5, ConcatProperties
  <2>2. CASE j < i
    BY <1>1, <1>2, <1>4, <1>5, <2>1, <2>2
  <2>3. CASE ~(j < i)
    <3>1. j - Len(a) \in 1 .. Len(q) - i /\ i + (j - Len(a)) = j + 1
      BY <1>1, <1>2, <1>4, <1>5, <2>3
    <3>2. QED
      BY <1>1, <1>2, <1>5, <2>1, <2>3, <3>1
  <2>4. QED
    BY <2>2, <2>3
<1>6. Len(a \o b) = Len(q) - 1
  BY <1>1, <1>2, <1>4
<1>7. QED
  BY <1>3, <1>4, <1>5, <1>6

\* What is behind the head of a queue.
LEMMA Behind ==
  ASSUME NEW S, NEW q \in Seq(S), q # <<>>
  PROVE  /\ Head(q) = q[1] /\ q[1] \in S /\ 1 \in 1 .. Len(q)
         /\ Tail(q) \in Seq(S) /\ Len(Tail(q)) = Len(q) - 1
         /\ \A j \in 1 .. Len(Tail(q)) : Tail(q)[j] = q[j + 1] /\ j + 1 \in 2 .. Len(q)
OBVIOUS

\* What a queue is after an element is added.
LEMMA Appended ==
  ASSUME NEW S, NEW q \in Seq(S), NEW e \in S
  PROVE  /\ Append(q, e) \in Seq(S) /\ Len(Append(q, e)) = Len(q) + 1
         /\ Append(q, e)[Len(q) + 1] = e
         /\ \A j \in 1 .. Len(q) : Append(q, e)[j] = q[j]
         /\ \A j \in 1 .. Len(Append(q, e)) : j \in 1 .. Len(q) \/ j = Len(q) + 1
OBVIOUS

\* The parts of what a DNS worker is at.
LEMMA DnsFields ==
  /\ \A d \in DnsType : d.at \in {"idle", "popped", "looking up"} /\ d.job \in Clients \cup {None}
  /\ \A d \in DnsType : [d EXCEPT !.at = "looking up"] \in DnsType
  /\ \A d \in DnsType : [d EXCEPT !.at = "looking up"].job = d.job
  /\ \A d \in DnsType : [d EXCEPT !.at = "looking up"].at = "looking up"
  /\ [at |-> "idle", job |-> None] \in DnsType
  /\ \A k \in Clients : [at |-> "popped", job |-> k] \in DnsType
BY DEF DnsType

\* What AwaitReply does to the queue of a job that it gives up.
LEMMA RetainIs ==
  ASSUME DnsTypes, NEW k \in Clients, Retain(k)
  PROVE  /\ dnsQueue' \in Seq(Clients) /\ Len(dnsQueue') <= Len(dnsQueue)
         /\ asleep' \subseteq asleep
         /\ \E gone \in 0 .. Len(dnsQueue) :
              /\ \A j \in 1 .. Len(dnsQueue') :
                   \E i \in 1 .. Len(dnsQueue) :
                     /\ dnsQueue'[j] = dnsQueue[i] /\ i # gone
                     /\ i = IF gone = 0 \/ j < gone THEN j ELSE j + 1
              /\ gone # 0 => dnsQueue[gone] = k
              /\ gone = 0 => \A i \in 1 .. Len(dnsQueue) : dnsQueue[i] # k
<1>0. dnsQueue \in Seq(Clients) /\ DOMAIN dnsQueue = 1 .. Len(dnsQueue) /\ Len(dnsQueue) \in Nat
  BY DEF DnsTypes
<1>1. CASE (\A i \in DOMAIN dnsQueue : dnsQueue[i] # k) /\ UNCHANGED <<dnsQueue, asleep>>
  <2>1. 0 \in 0 .. Len(dnsQueue) /\ \A j \in 1 .. Len(dnsQueue) : j # 0
    BY <1>0
  <2>2. QED
    BY <1>0, <1>1, <2>1
<1>2. ASSUME NEW i \in DOMAIN dnsQueue, dnsQueue[i] = k, dnsQueue' = RemoveAt(dnsQueue, i),
             NotifyOne(DnsWorkers)
      PROVE  /\ dnsQueue' \in Seq(Clients) /\ Len(dnsQueue') <= Len(dnsQueue)
             /\ asleep' \subseteq asleep
             /\ \E gone \in 0 .. Len(dnsQueue) :
                  /\ \A j \in 1 .. Len(dnsQueue') :
                       \E m \in 1 .. Len(dnsQueue) :
                         /\ dnsQueue'[j] = dnsQueue[m] /\ m # gone
                         /\ m = IF gone = 0 \/ j < gone THEN j ELSE j + 1
                  /\ gone # 0 => dnsQueue[gone] = k
                  /\ gone = 0 => \A m \in 1 .. Len(dnsQueue) : dnsQueue[m] # k
  <2>1. /\ dnsQueue' \in Seq(Clients) /\ Len(dnsQueue') = Len(dnsQueue) - 1
        /\ \A j \in 1 .. Len(dnsQueue') : dnsQueue'[j] = dnsQueue[IF j < i THEN j ELSE j + 1]
    BY <1>0, <1>2, Removal
  <2>2. asleep' \subseteq asleep
    BY <1>2 DEF NotifyOne
  <2>3. i \in 0 .. Len(dnsQueue) /\ i # 0
    BY <1>0, <1>2
  <2>4. ASSUME NEW j \in 1 .. Len(dnsQueue')
        PROVE  \E m \in 1 .. Len(dnsQueue) :
                 /\ dnsQueue'[j] = dnsQueue[m] /\ m # i
                 /\ m = IF i = 0 \/ j < i THEN j ELSE j + 1
    <3> DEFINE m == IF j < i THEN j ELSE j + 1
    <3>1. m \in 1 .. Len(dnsQueue) /\ m # i
      BY <1>0, <1>2, <2>1
    <3>2. QED
      BY <2>1, <2>3, <3>1
  <2>5. Len(dnsQueue') <= Len(dnsQueue)
    BY <1>0, <2>1
  <2>6. QED
    BY <1>2, <2>1, <2>2, <2>3, <2>4, <2>5
<1>3. QED
  BY <1>1, <1>2 DEF Retain

\* Which steps deal with lookups.
PoolStep ==
  \/ \E w \in Workers : Resolve(w) \/ AwaitReply(w)
  \/ \E d \in DnsWorkers : DnsPop(d) \/ DnsBegin(d) \/ DnsReply(d)

\* The others leave the pool alone.
LEMMA PoolKept ==
  ASSUME [Next]_vars, ~PoolStep
  PROVE  UNCHANGED dnsAll
<1> USE DEF proxy, flows, PoolStep
<1>1. CASE \E t \in Threads : Stop(t)
  BY <1>1 DEF Stop, StopStore, StopSweep
<1>2. CASE OwnerSteps \/ ListenerSteps
  BY <1>1, <1>2, ThreadKinds
  DEF OwnerSteps, ListenerSteps, DropGuard, JoinListener, Accept, Enqueue
<1>3. CASE CancelOperation
  BY <1>3 DEF CancelOperation
<1>4. ASSUME NEW w \in Workers, WorkerSteps(w) PROVE UNCHANGED dnsAll
  BY <1>1, <1>4, ThreadKinds
  DEF WorkerSteps, NextClient, RegisterClient, Vet, Connect, RegisterUpstream, Relay, Finish
<1>5. CASE UNCHANGED vars
  BY <1>5 DEF vars
<1>6. QED
  BY <1>2, <1>3, <1>4, <1>5 DEF Next

\* The client whose reply a worker awaits, or whose lookup it is about to ask for.
LEMMA Served ==
  ASSUME Types, SocketInv, NEW w \in Workers, pc[w] \in Busy
  PROVE  serving[w] \in Clients
BY DEF Types, QueueTypes, SocketInv

\* A DNS worker that has popped a job knows it.
LEMMA JobKnown ==
  ASSUME DnsTypes, DnsInv, NEW d \in DnsWorkers, dns[d].at # "idle"
  PROVE  dns[d].job \in Clients
<1>1. dns[d] \in DnsType
  BY DEF DnsTypes
<1>2. QED
  BY <1>1, DnsFields DEF DnsInv

\* Every step keeps the types of the pool.
LEMMA DnsTypeStep ==
  ASSUME IInv, PoolInv, [Next]_vars
  PROVE  DnsTypes'
<1>0. /\ Types /\ SocketInv /\ DnsTypes /\ DnsInv
      /\ setup' = setup => Clients' = Clients
      /\ setup' = setup => DnsType' = DnsType
  BY ThreadKinds DEF IInv, PoolInv, DnsType
<1>1. setup' = setup
  BY DEF Next, WorkerSteps, ListenerSteps, OwnerSteps, Stop, StopStore, StopSweep, DropGuard,
         JoinListener, Accept, Enqueue, CancelOperation, NextClient, RegisterClient, Resolve,
         AwaitReply, Vet, Connect, RegisterUpstream, Relay, Finish, DnsPop, DnsBegin, DnsReply, vars
<1>2. CASE UNCHANGED <<dnsQueue, dns>>
  BY <1>0, <1>1, <1>2 DEF DnsTypes
<1>3. ASSUME NEW w \in Workers, Resolve(w) PROVE DnsTypes'
  <2>1. serving[w] \in Clients
    BY <1>0, <1>3, Served DEF Resolve, Busy, Registered
  <2>2. dns' = dns /\ (dnsQueue' = dnsQueue \/ dnsQueue' = Append(dnsQueue, serving[w]))
    BY <1>3 DEF Resolve, dnsAll
  <2>3. QED
    BY <1>0, <1>1, <2>1, <2>2, Appended DEF DnsTypes
<1>4. ASSUME NEW w \in Workers, AwaitReply(w) PROVE DnsTypes'
  <2>1. serving[w] \in Clients
    BY <1>0, <1>4, Served DEF AwaitReply, Busy, Registered
  <2>2. dns' = dns /\ (dnsQueue' = dnsQueue \/ Retain(serving[w]))
    BY <1>4 DEF AwaitReply, dnsAll
  <2>3. QED
    BY <1>0, <1>1, <2>1, <2>2, RetainIs DEF DnsTypes
<1>5. ASSUME NEW d \in DnsWorkers, DnsPop(d) PROVE DnsTypes'
  <2>1. CASE UNCHANGED <<dnsQueue, dns>>
    BY <1>2, <2>1
  <2>2. CASE /\ dnsQueue # <<>> /\ dnsQueue' = Tail(dnsQueue)
             /\ dns' = [dns EXCEPT ![d] = [at |-> "popped", job |-> Head(dnsQueue)]]
    <3>1. Head(dnsQueue) \in Clients /\ dnsQueue' \in Seq(Clients)
      BY <1>0, <2>2, Behind DEF DnsTypes
    <3>2. dns' \in [DnsWorkers -> DnsType]
      BY <1>0, <2>2, <3>1, DnsFields DEF DnsTypes
    <3>3. QED
      BY <1>0, <1>1, <3>1, <3>2 DEF DnsTypes
  <2>3. QED
    BY <1>5, <2>1, <2>2 DEF DnsPop
<1>6. ASSUME NEW d \in DnsWorkers, DnsBegin(d) \/ DnsReply(d) PROVE DnsTypes'
  <2>1. dnsQueue' = dnsQueue
    BY <1>6 DEF DnsBegin, DnsReply
  <2>2. PICK e \in {[at |-> "idle", job |-> None], [dns[d] EXCEPT !.at = "looking up"]} :
          dns' = [dns EXCEPT ![d] = e]
    BY <1>6 DEF DnsBegin, DnsReply
  <2>3. e \in DnsType
    <3>1. dns[d] \in DnsType
      BY <1>0 DEF DnsTypes
    <3>2. QED
      BY <2>2, <3>1, DnsFields
  <2>4. dns' \in [DnsWorkers -> DnsType]
    BY <1>0, <2>2, <2>3 DEF DnsTypes
  <2>5. QED
    BY <1>0, <1>1, <2>1, <2>4 DEF DnsTypes
<1>7. QED
  BY <1>2, <1>3, <1>4, <1>5, <1>6, PoolKept DEF PoolStep, dnsAll

\* Every step keeps the queues within their limits.
LEMMA LimitStep ==
  ASSUME IInv, PoolInv, [Next]_vars
  PROVE  Limits'
<1>0. /\ Types /\ SocketInv /\ DnsTypes /\ DnsInv /\ Limits
      /\ queue \in Seq(Clients) /\ dnsQueue \in Seq(Clients)
      /\ MaxPendingClients \in Nat \ {0} /\ MaxPendingQueries \in Nat \ {0}
  BY GuardAssumption DEF IInv, PoolInv, Types, QueueTypes, DnsTypes
<1>1. setup' = setup /\ Workers' = Workers
  BY DEF Next, WorkerSteps, ListenerSteps, OwnerSteps, Stop, StopStore, StopSweep, DropGuard,
         JoinListener, Accept, Enqueue, CancelOperation, NextClient, RegisterClient, Resolve,
         AwaitReply, Vet, Connect, RegisterUpstream, Relay, Finish, DnsPop, DnsBegin, DnsReply,
         vars, Workers
<1>2. \A group : NotifyOne(group) => asleep' \subseteq asleep
  BY DEF NotifyOne
<1>3. ASSUME Len(queue') <= Len(queue), Len(dnsQueue') <= Len(dnsQueue),
             asleep' \subseteq asleep, cancelled' \in {cancelled, TRUE}
      PROVE  Limits'
  <2>1. Len(queue') <= MaxPendingClients /\ Len(dnsQueue') <= MaxPendingQueries
    BY <1>0, <1>3 DEF Limits
  <2>2. QED
    BY <1>0, <1>1, <1>3, <2>1 DEF Limits
<1>4. CASE UNCHANGED <<queue, dnsQueue, asleep>> /\ cancelled' \in {cancelled, TRUE}
  <2>1. Len(queue) \in Nat /\ Len(dnsQueue) \in Nat
    BY <1>0
  <2>2. Len(queue') <= Len(queue) /\ Len(dnsQueue') <= Len(dnsQueue)
    BY <1>4, <2>1
  <2>3. QED
    BY <1>3, <1>4, <2>2
<1>5. ASSUME NEW t \in Threads, StopStore(t) \/ StopSweep(t) PROVE Limits'
  <2>1. /\ queue' = queue \/ queue' = <<>>
        /\ dnsQueue' = dnsQueue /\ asleep' \subseteq asleep /\ cancelled' = cancelled
    BY <1>5 DEF StopStore, StopSweep, dnsAll
  <2>2. Len(<<>>) = 0 /\ Len(queue) \in Nat
    BY <1>0
  <2>3. QED
    BY <1>0, <1>3, <2>1, <2>2
<1>6. ASSUME CancelOperation \/ DropGuard \/ JoinListener \/ Accept PROVE Limits'
  BY <1>4, <1>6 DEF CancelOperation, DropGuard, JoinListener, Accept, proxy, dnsAll
<1>7. ASSUME Enqueue PROVE Limits'
  <2>1. CASE UNCHANGED <<queue, asleep>>
    BY <1>4, <1>7, <2>1 DEF Enqueue, dnsAll
  <2>2. ASSUME NEW k \in Clients, Len(queue) < MaxPendingClients,
               queue' = Append(queue, k), NotifyOne(Workers)
        PROVE  Limits'
    <3>1. Len(queue') <= MaxPendingClients
      BY <1>0, <2>2, Appended
    <3>2. dnsQueue' = dnsQueue /\ cancelled' = cancelled /\ asleep' \subseteq asleep
      BY <1>2, <1>7, <2>2 DEF Enqueue, dnsAll
    <3>3. QED
      BY <1>0, <1>1, <3>1, <3>2 DEF Limits
  <2>3. QED
    BY <1>0, <1>7, <2>1, <2>2 DEF Enqueue
<1>8. ASSUME NEW w \in Workers, NextClient(w) PROVE Limits'
  <2>1. /\ queue' = queue \/ (queue # <<>> /\ queue' = Tail(queue))
        /\ dnsQueue' = dnsQueue /\ cancelled' = cancelled
        /\ asleep' = asleep \/ asleep' = asleep \cup {w}
    BY <1>8 DEF NextClient, dnsAll
  <2>2. Len(queue') <= Len(queue) /\ Len(queue) \in Nat /\ Len(queue') \in Nat
    BY <1>0, <2>1, Behind
  <2>3. QED
    BY <1>0, <1>1, <2>1, <2>2 DEF Limits
<1>9. ASSUME NEW w \in Workers,
             \/ RegisterClient(w) \/ Vet(w) \/ Connect(w)
             \/ RegisterUpstream(w) \/ Relay(w) \/ Finish(w)
      PROVE  Limits'
  BY <1>4, <1>9 DEF RegisterClient, Vet, Connect, RegisterUpstream, Relay, Finish, proxy, dnsAll
<1>10. ASSUME NEW w \in Workers, Resolve(w) PROVE Limits'
  <2>0. queue' = queue /\ cancelled' = cancelled
    BY <1>10 DEF Resolve, proxy
  <2>1. CASE UNCHANGED <<dnsQueue, asleep>>
    BY <1>4, <2>0, <2>1
  <2>2. CASE /\ Len(dnsQueue) < MaxPendingQueries /\ NotifyOne(DnsWorkers)
             /\ dnsQueue' = Append(dnsQueue, serving[w]) /\ pc[w] = "request"
    <3>1. serving[w] \in Clients
      BY <1>0, <2>2, Served DEF Busy, Registered
    <3>2. Len(dnsQueue') <= MaxPendingQueries
      BY <1>0, <2>2, <3>1, Appended
    <3>3. asleep' \subseteq asleep
      BY <1>2, <2>2
    <3>4. QED
      BY <1>0, <1>1, <2>0, <3>2, <3>3 DEF Limits
  <2>3. QED
    BY <1>10, <2>1, <2>2 DEF Resolve
<1>11. ASSUME NEW w \in Workers, AwaitReply(w) PROVE Limits'
  <2>0. queue' = queue /\ cancelled' = cancelled /\ serving[w] \in Clients
    BY <1>0, <1>11, Served DEF AwaitReply, proxy, Busy, Registered
  <2>1. CASE UNCHANGED <<dnsQueue, asleep>>
    BY <1>4, <2>0, <2>1
  <2>2. CASE Retain(serving[w])
    BY <1>0, <1>3, <2>0, <2>2, RetainIs
  <2>3. QED
    BY <1>11, <2>1, <2>2 DEF AwaitReply
<1>12. ASSUME NEW d \in DnsWorkers, DnsPop(d) PROVE Limits'
  <2>1. /\ dnsQueue' = dnsQueue \/ (dnsQueue # <<>> /\ dnsQueue' = Tail(dnsQueue))
        /\ queue' = queue /\ cancelled' = cancelled
        /\ asleep' = asleep \/ asleep' = asleep \cup {d}
    BY <1>12 DEF DnsPop, proxy
  <2>2. Len(dnsQueue') <= Len(dnsQueue) /\ Len(dnsQueue) \in Nat /\ Len(dnsQueue') \in Nat
    BY <1>0, <2>1, Behind
  <2>3. QED
    BY <1>0, <1>1, <2>1, <2>2 DEF Limits
<1>13. ASSUME NEW d \in DnsWorkers, DnsBegin(d) \/ DnsReply(d) PROVE Limits'
  BY <1>4, <1>13 DEF DnsBegin, DnsReply, proxy
<1>14. CASE UNCHANGED vars
  BY <1>4, <1>14 DEF vars, proxy, dnsAll
<1>15. QED
  BY <1>5, <1>6, <1>7, <1>8, <1>9, <1>10, <1>11, <1>12, <1>13, <1>14, ThreadKinds
  DEF Next, WorkerSteps, ListenerSteps, OwnerSteps, Stop

\* A step that leaves the pool alone keeps DnsInv if no client becomes new or
\* queued, a worker takes no client with a job, and nobody who waits goes on.
LEMMA DnsKept ==
  ASSUME DnsInv, UNCHANGED <<setup, dnsAll>>,
         \A k \in Clients : socket'[k] \in {"new", "accepted", "queued"}
                            => socket[k] \in {"new", "accepted", "queued"},
         \A w \in Workers : pc'[w] \in Asking => Clean(serving'[w]),
         \A w \in Workers : pc[w] = "resolving"
                            => pc'[w] = "resolving" /\ serving'[w] = serving[w]
  PROVE  DnsInv'
<1>1. Workers' = Workers /\ Clients' = Clients /\ UNCHANGED <<dnsQueue, dns, job>>
  BY ThreadKinds DEF dnsAll
<1>2. \A k : Clean(k) => /\ \A i \in 1 .. Len(dnsQueue') : dnsQueue'[i] # k
                         /\ \A d \in DnsWorkers : dns'[d].job # k
                         /\ job'[k].reply = NoAnswer
  BY <1>1 DEF Clean
<1>3. \A k \in Clients' : socket'[k] \in {"new", "accepted", "queued"} => Clean(k)'
  BY <1>1, <1>2 DEF DnsInv, Clean
<1>4. \A w \in Workers' : pc'[w] \in Asking => Clean(serving[w])'
  BY <1>1, <1>2 DEF Asking, Clean
<1>5. QueuedLookupIsAwaited'
  BY <1>1 DEF DnsInv, QueuedLookupIsAwaited
<1>6. QED
  BY <1>1, <1>3, <1>4, <1>5 DEF DnsInv

\* The steps that have nothing to do with lookups.
LEMMA DnsFrame ==
  ASSUME IInv, PoolInv, [Next]_vars, ~PoolStep
  PROVE  DnsInv'
<1>0. /\ Types /\ LabelInv /\ SocketInv /\ DnsInv /\ UNCHANGED dnsAll
      /\ \A w \in Workers : pc[w] \in Asking => Clean(serving[w])
  BY PoolKept DEF IInv, PoolInv, DnsInv, Asking
<1> USE <1>0 DEF Goto, proxy, flows, Types, PcType, QueueTypes
<1>1. ASSUME UNCHANGED <<setup, serving>>,
             \A k \in Clients : socket'[k] \in {socket[k], "open", "shut", "closed"},
             NEW t \in Threads, pc[t] # "resolving", NEW l, pc' = [pc EXCEPT ![t] = l],
             l \in Asking => pc[t] \in Asking
      PROVE  DnsInv'
  <2>1. \A w \in Workers : pc'[w] = pc[w] \/ (w = t /\ pc'[w] = l)
    BY <1>1, ThreadKinds
  <2>2. \A w \in Workers : pc'[w] \in Asking => Clean(serving'[w])
    BY <1>1, <2>1
  <2>3. \A w \in Workers : pc[w] = "resolving"
                           => pc'[w] = "resolving" /\ serving'[w] = serving[w]
    BY <1>1, <2>1
  <2>4. QED
    BY <1>1, <2>2, <2>3, DnsKept
<1>2. CASE UNCHANGED <<setup, serving, socket, pc>>
  BY <1>2, DnsKept
<1>3. ASSUME NEW t \in Threads, StopStore(t) PROVE DnsInv'
  BY <1>1, <1>3 DEF StopStore, Asking, Busy, Registered
<1>4. ASSUME NEW t \in Threads, StopSweep(t) PROVE DnsInv'
  <2>1. \A k \in Clients : socket'[k] \in {socket[k], "open", "shut", "closed"}
    BY <1>4 DEF StopSweep
  <2>2. UNCHANGED <<setup, serving>> /\ pc[t] = "sweep" /\ pc' = [pc EXCEPT ![t] = AfterStop(t)]
    BY <1>4 DEF StopSweep
  <2>3. AfterStop(t) \notin Asking
    BY DEF AfterStop, Asking, Busy, Registered
  <2>4. QED
    BY <1>1, <2>1, <2>2, <2>3
<1>5. CASE CancelOperation
  BY <1>2, <1>5 DEF CancelOperation
<1>6. CASE DropGuard
  BY <1>1, <1>6, ThreadKinds DEF DropGuard, Asking, Busy, Registered
<1>7. CASE JoinListener
  BY <1>1, <1>7, ThreadKinds DEF JoinListener, Asking, Busy, Registered
<1>8. CASE Accept \/ Enqueue
  <2>1. PICK l \in {"exited", "stop", "enqueue", "accept"} : pc' = [pc EXCEPT ![Listener] = l]
    BY <1>8 DEF Accept, Enqueue
  <2>2. \A k \in Clients : socket'[k] \in {"new", "accepted", "queued"}
                           => socket[k] \in {"new", "accepted", "queued"}
    BY <1>8 DEF Accept, Enqueue
  <2>3. UNCHANGED <<setup, serving>>
    BY <1>8 DEF Accept, Enqueue
  <2>4. \A w \in Workers : pc'[w] = pc[w]
    BY <2>1, ThreadKinds
  <2>5. QED
    BY <2>2, <2>3, <2>4, DnsKept
<1>9. ASSUME NEW w \in Workers, NextClient(w) PROVE DnsInv'
  <2>1. CASE UNCHANGED <<serving, socket>> /\ \E l \in {"exited", "stop"} : Goto(w, l)
    BY <1>1, <1>9, <2>1, ThreadKinds DEF NextClient, Asking, Busy, Registered
  <2>2. CASE UNCHANGED <<pc, serving, socket>>
    BY <1>2, <1>9, <2>2 DEF NextClient
  <2>3. CASE /\ queue # <<>> /\ serving' = [serving EXCEPT ![w] = Head(queue)]
             /\ socket' = [socket EXCEPT ![Head(queue)] = "open"]
             /\ Goto(w, "claimed")
    <3>1. Head(queue) \in Clients /\ socket[Head(queue)] = "queued"
      BY <2>3, Behind DEF SocketInv
    <3>2. Clean(Head(queue))
      BY <3>1 DEF DnsInv
    <3>3. \A v \in Workers : /\ v = w => serving'[v] = Head(queue)
                             /\ v # w => serving'[v] = serving[v] /\ pc'[v] = pc[v]
      BY <2>3, ThreadKinds
    <3>4. \A v \in Workers : pc'[v] \in Asking => Clean(serving'[v])
      BY <3>2, <3>3
    <3>5. \A k \in Clients : socket'[k] \in {socket[k], "open"}
      BY <2>3
    <3>6. setup' = setup /\ pc[w] = "idle"
      BY <1>9 DEF NextClient
    <3>7. \A v \in Workers : pc[v] = "resolving"
                             => pc'[v] = "resolving" /\ serving'[v] = serving[v]
      BY <3>3, <3>6
    <3>8. \A k \in Clients : socket'[k] \in {"new", "accepted", "queued"}
                             => socket[k] \in {"new", "accepted", "queued"}
      BY <3>5
    <3>9. QED
      BY <3>4, <3>6, <3>7, <3>8, DnsKept
  <2>4. QED
    BY <1>9, <2>1, <2>2, <2>3 DEF NextClient
<1>10. ASSUME NEW w \in Workers, RegisterClient(w) \/ Finish(w) PROVE DnsInv'
  <2>1. CASE /\ socket' = [socket EXCEPT ![serving[w]] = "closed"]
             /\ serving' = [serving EXCEPT ![w] = None] /\ Goto(w, "idle")
    <3>1. \A v \in Workers : /\ v = w => pc'[v] = "idle"
                             /\ v # w => serving'[v] = serving[v] /\ pc'[v] = pc[v]
      BY <2>1, ThreadKinds
    <3>2. \A v \in Workers : pc'[v] \in Asking => Clean(serving'[v])
      BY <3>1 DEF Asking, Busy, Registered
    <3>3. pc[w] # "resolving" /\ setup' = setup
      BY <1>10 DEF RegisterClient, Finish
    <3>4. \A v \in Workers : pc[v] = "resolving"
                             => pc'[v] = "resolving" /\ serving'[v] = serving[v]
      BY <3>1, <3>3
    <3>5. \A k \in Clients : socket'[k] \in {"new", "accepted", "queued"}
                             => socket[k] \in {"new", "accepted", "queued"}
      BY <2>1
    <3>6. QED
      BY <3>2, <3>3, <3>4, <3>5, DnsKept
  <2>2. CASE UNCHANGED <<setup, serving, socket>> /\ pc[w] = "claimed" /\ Goto(w, "request")
    BY <1>1, <2>2, ThreadKinds DEF Asking, Busy, Registered
  <2>3. QED
    BY <1>10, <2>1, <2>2 DEF RegisterClient, Finish
<1>11. ASSUME NEW w \in Workers, Vet(w) \/ Connect(w) \/ RegisterUpstream(w) \/ Relay(w)
       PROVE  DnsInv'
  <2>1. PICK l \in {"finish", "request", "connect", "connected", "relay"} : Goto(w, l)
    BY <1>11 DEF Vet, Connect, RegisterUpstream, Relay
  <2>2. UNCHANGED <<setup, serving, socket>> /\ pc[w] \in {"vet", "connect", "connected", "relay"}
    BY <1>11 DEF Vet, Connect, RegisterUpstream, Relay
  <2>3. pc[w] \in Asking /\ pc[w] # "resolving"
    BY <2>2 DEF Asking, Busy, Registered
  <2>4. \A k \in Clients : socket'[k] \in {socket[k], "open", "shut", "closed"}
    BY <2>2
  <2>5. w \in Threads
    BY ThreadKinds
  <2>6. QED
    BY <1>1, <2>1, <2>2, <2>3, <2>4, <2>5
<1>12. CASE UNCHANGED vars
  BY <1>2, <1>12 DEF vars
<1>13. QED
  BY <1>3, <1>4, <1>5, <1>6, <1>7, <1>8, <1>9, <1>10, <1>11, <1>12, ThreadKinds
  DEF Next, WorkerSteps, ListenerSteps, OwnerSteps, Stop, PoolStep

\* A worker asks for a lookup, or has no need of one.
LEMMA ResolveKeeps ==
  ASSUME IInv, PoolInv, NEW w \in Workers, Resolve(w)
  PROVE  DnsInv'
<1>0. /\ Types /\ SocketInv /\ DnsInv /\ dnsQueue \in Seq(Clients)
      /\ pc[w] = "request" /\ pc[w] \in Asking /\ UNCHANGED <<setup, serving, socket, dns, job>>
      /\ \A v \in Workers : pc[v] \in Asking => Clean(serving[v])
  BY DEF IInv, PoolInv, DnsTypes, DnsInv, Resolve, Asking, Busy, Registered
<1>1. Workers' = Workers /\ Clients' = Clients /\ w \in Threads /\ pc \in [Threads -> Labels]
  BY <1>0, ThreadKinds DEF Types, PcType
<1>2. ASSUME UNCHANGED dnsQueue, NEW l \in {"finish", "vet"}, Goto(w, l) PROVE DnsInv'
  <2>1. \A v \in Workers : pc'[v] = pc[v] \/ (v = w /\ pc'[v] = l)
    BY <1>1, <1>2 DEF Goto
  <2>2. \A v \in Workers : pc'[v] \in Asking => Clean(serving'[v])
    BY <1>0, <2>1
  <2>3. \A v \in Workers : pc[v] = "resolving"
                           => pc'[v] = "resolving" /\ serving'[v] = serving[v]
    BY <1>0, <2>1
  <2>4. QED
    BY <1>0, <1>2, <2>2, <2>3, DnsKept DEF dnsAll
<1>3. CASE /\ socket[serving[w]] = "open" /\ dnsQueue' = Append(dnsQueue, serving[w])
           /\ Goto(w, "resolving")
  <2> DEFINE k == serving[w]
             last == Len(dnsQueue) + 1
  <2>1. k \in Clients /\ Clean(k)
    BY <1>0, Served DEF Asking
  <2>2. /\ Len(dnsQueue') = last /\ dnsQueue'[last] = k
        /\ \A i \in 1 .. Len(dnsQueue) : dnsQueue'[i] = dnsQueue[i] /\ dnsQueue[i] # k
        /\ \A i \in 1 .. Len(dnsQueue') : i \in 1 .. Len(dnsQueue) \/ i = last
    BY <1>0, <1>3, <2>1, Appended DEF Clean
  <2>3. \A j \in Clients : j # k /\ Clean(j) => Clean(j)'
    BY <1>0, <2>2 DEF Clean
  <2>4. \A v \in Workers : /\ v = w => pc'[v] = "resolving"
                           /\ v # w => pc'[v] = pc[v]
    BY <1>1, <1>3 DEF Goto
  <2>5. /\ \A i, j \in 1 .. Len(dnsQueue') : dnsQueue'[i] = dnsQueue'[j] => i = j
        /\ \A i \in 1 .. Len(dnsQueue') : /\ job'[dnsQueue'[i]].reply = NoAnswer
                                          /\ \A d \in DnsWorkers : dns'[d].job # dnsQueue'[i]
    BY <1>0, <2>1, <2>2 DEF DnsInv, Clean
  <2>6. \A j \in Clients' : socket'[j] \in {"new", "accepted", "queued"} => Clean(j)'
    BY <1>0, <1>1, <1>3, <2>3 DEF DnsInv
  <2>7. ASSUME NEW v \in Workers, pc'[v] \in Asking PROVE Clean(serving[v])'
    <3>1. v # w /\ pc'[v] = pc[v]
      BY <2>4, <2>7 DEF Asking
    <3>2. serving[v] \in Clients /\ serving[v] # k
      BY <1>0, <2>1, <2>7, <3>1, Served, ThreadKinds DEF Asking, SocketInv
    <3>3. Clean(serving[v])
      BY <1>0, <2>7, <3>1
    <3>4. \A j : j # k /\ Clean(j) => Clean(j)'
      BY <1>0, <2>2 DEF Clean
    <3>5. QED
      BY <1>0, <2>2, <3>2, <3>3 DEF Clean
  <2>8. QueuedLookupIsAwaited'
    BY <1>0, <1>1, <2>2, <2>4 DEF DnsInv, QueuedLookupIsAwaited
  <2>9. QED
    BY <1>0, <1>1, <2>5, <2>6, <2>7, <2>8 DEF DnsInv, Asking
<1>4. QED
  BY <1>2, <1>3 DEF Resolve

\* A worker has its reply or gives the lookup up.
LEMMA AwaitReplyKeeps ==
  ASSUME IInv, PoolInv, NEW w \in Workers, AwaitReply(w)
  PROVE  DnsInv'
<1> DEFINE k == serving[w]
<1>0. /\ Types /\ SocketInv /\ DnsTypes /\ DnsInv /\ dnsQueue \in Seq(Clients)
      /\ pc[w] = "resolving" /\ UNCHANGED <<setup, serving, socket, dns>>
      /\ \A v \in Workers : pc[v] \in Asking => Clean(serving[v])
  BY DEF IInv, PoolInv, DnsTypes, DnsInv, AwaitReply, Asking
<1>1. Workers' = Workers /\ Clients' = Clients /\ w \in Threads /\ pc \in [Threads -> Labels]
  BY <1>0, ThreadKinds DEF Types, PcType
<1>2. k \in Clients /\ socket[k] \in {"open", "shut"} /\ job \in [Clients -> Job]
  BY <1>0, Served, ThreadKinds DEF Busy, Registered, SocketInv, Types, LookupTypes
<1>3. \A v \in Workers : v # w /\ pc[v] \in Busy => serving[v] \in Clients /\ serving[v] # k
  BY <1>0, <1>2, Served, ThreadKinds DEF SocketInv
<1>4. CASE /\ job[k].reply # NoAnswer /\ job' = [job EXCEPT ![k] = NoJob]
           /\ Goto(w, "vet") /\ UNCHANGED dnsQueue
  <2>1. /\ \A i \in 1 .. Len(dnsQueue) : dnsQueue[i] # k
        /\ \A d \in DnsWorkers : dns[d].job # k
    BY <1>0, <1>2, <1>4, ThreadKinds DEF DnsInv
  <2>2. \A j \in Clients : job'[j] = job[j] \/ (j = k /\ job'[j].reply = NoAnswer)
    BY <1>2, <1>4, Records
  <2>3. Clean(k)' /\ \A j \in Clients : Clean(j) => Clean(j)'
    BY <1>0, <1>2, <1>4, <2>1, <2>2, Records DEF Clean
  <2>4. \A v \in Workers : v # w => pc'[v] = pc[v]
    BY <1>1, <1>4 DEF Goto
  <2>5. ASSUME NEW v \in Workers, pc'[v] \in Asking PROVE Clean(serving[v])'
    <3>1. CASE v = w
      BY <1>0, <2>3, <3>1 DEF Clean
    <3>2. CASE v # w
      <4>1. serving[v] \in Clients /\ Clean(serving[v])
        BY <1>0, <1>3, <2>4, <2>5, <3>2 DEF Asking
      <4>2. QED
        BY <1>0, <1>4, <2>2, <4>1 DEF Clean
    <3>3. QED
      BY <3>1, <3>2
  <2>6. QueuedLookupIsAwaited'
    <3>1. \A i \in 1 .. Len(dnsQueue) :
            \E v \in Workers : v # w /\ serving[v] = dnsQueue[i] /\ pc[v] = "resolving"
      BY <1>0, <2>1 DEF DnsInv, QueuedLookupIsAwaited
    <3>2. QED
      BY <1>0, <1>1, <1>4, <2>4, <3>1 DEF QueuedLookupIsAwaited
  <2>7. \A i \in 1 .. Len(dnsQueue) : dnsQueue[i] \in Clients
    BY <1>0
  <2>8. \A d \in DnsWorkers : dns[d].job # None => dns[d].job \in Clients
    BY <1>0, JobKnown DEF DnsInv
  <2>9. /\ \A i \in 1 .. Len(dnsQueue') : job'[dnsQueue'[i]].reply = NoAnswer
        /\ \A d \in DnsWorkers : dns[d].job # None => job'[dns[d].job].reply = NoAnswer
    BY <1>0, <1>4, <2>1, <2>2, <2>7, <2>8 DEF DnsInv
  <2>10. QED
    BY <1>0, <1>1, <1>4, <2>3, <2>5, <2>6, <2>9 DEF DnsInv, Asking
<1>5. CASE /\ Retain(k) /\ Goto(w, "finish")
           /\ \E j \in {NoJob, [NoJob EXCEPT !.cancelled = TRUE]} : job' = [job EXCEPT ![k] = j]
  <2>1. \A j \in Clients : job'[j] = job[j] \/ (j = k /\ job'[j].reply = NoAnswer)
    BY <1>2, <1>5, Records
  <2>2. PICK gone \in 0 .. Len(dnsQueue) :
          /\ \A j \in 1 .. Len(dnsQueue') :
               \E i \in 1 .. Len(dnsQueue) :
                 /\ dnsQueue'[j] = dnsQueue[i] /\ i # gone
                 /\ i = IF gone = 0 \/ j < gone THEN j ELSE j + 1
          /\ gone # 0 => dnsQueue[gone] = k
          /\ gone = 0 => \A i \in 1 .. Len(dnsQueue) : dnsQueue[i] # k
    BY <1>0, <1>2, <1>5, RetainIs
  <2>3. \A j \in 1 .. Len(dnsQueue') : dnsQueue'[j] # k
    BY <1>0, <2>2 DEF DnsInv
  <2>4. \A i, j \in 1 .. Len(dnsQueue') : dnsQueue'[i] = dnsQueue'[j] => i = j
    <3> SUFFICES ASSUME NEW i \in 1 .. Len(dnsQueue'), NEW j \in 1 .. Len(dnsQueue'),
                        dnsQueue'[i] = dnsQueue'[j]
                 PROVE  i = j
      OBVIOUS
    <3>1. PICK m \in 1 .. Len(dnsQueue) : /\ dnsQueue'[i] = dnsQueue[m] /\ m # gone
                                          /\ m = IF gone = 0 \/ i < gone THEN i ELSE i + 1
      BY <2>2
    <3>2. PICK n \in 1 .. Len(dnsQueue) : /\ dnsQueue'[j] = dnsQueue[n] /\ n # gone
                                          /\ n = IF gone = 0 \/ j < gone THEN j ELSE j + 1
      BY <2>2
    <3>3. m = n
      BY <1>0, <3>1, <3>2 DEF DnsInv
    <3>4. gone \in Nat /\ i \in Nat /\ j \in Nat
      BY <1>0, <1>2, <1>5, RetainIs
    <3>5. QED
      BY <3>1, <3>2, <3>3, <3>4
  <2>5. \A j \in 1 .. Len(dnsQueue') :
          \E i \in 1 .. Len(dnsQueue) : dnsQueue'[j] = dnsQueue[i] /\ dnsQueue[i] \in Clients
    BY <1>0, <2>2
  <2>6. \A i \in 1 .. Len(dnsQueue') : /\ job'[dnsQueue'[i]].reply = NoAnswer
                                       /\ \A d \in DnsWorkers : dns'[d].job # dnsQueue'[i]
    BY <1>0, <2>1, <2>5 DEF DnsInv
  <2>7. \A d \in DnsWorkers : dns[d].job # None => job'[dns[d].job].reply = NoAnswer
    BY <1>0, <2>1, JobKnown DEF DnsInv
  <2>8. ASSUME NEW j \in Clients, Clean(j) PROVE Clean(j)'
    BY <1>0, <2>1, <2>5, <2>8 DEF Clean
  <2>9. \A v \in Workers : (v = w => pc'[v] = "finish") /\ (v # w => pc'[v] = pc[v])
    BY <1>1, <1>5 DEF Goto
  <2>10. ASSUME NEW v \in Workers, pc'[v] \in Asking PROVE Clean(serving[v])'
    <3>1. v # w /\ pc'[v] = pc[v]
      BY <2>9, <2>10 DEF Asking
    <3>2. serving[v] \in Clients /\ Clean(serving[v])
      BY <1>0, <1>3, <2>10, <3>1 DEF Asking
    <3>3. QED
      BY <1>0, <2>1, <2>5, <3>2 DEF Clean
  <2>11. QueuedLookupIsAwaited'
    <3>1. \A j \in 1 .. Len(dnsQueue') :
            \E v \in Workers : v # w /\ serving[v] = dnsQueue'[j] /\ pc[v] = "resolving"
      BY <1>0, <2>3, <2>5 DEF DnsInv, QueuedLookupIsAwaited
    <3>2. DOMAIN dnsQueue' = 1 .. Len(dnsQueue')
      BY <1>0, <1>2, <1>5, RetainIs
    <3>3. QED
      BY <1>0, <1>1, <2>9, <3>1, <3>2 DEF QueuedLookupIsAwaited
  <2>12. QED
    BY <1>0, <1>1, <2>4, <2>6, <2>7, <2>8, <2>10, <2>11 DEF DnsInv, Asking
<1>6. QED
  BY <1>4, <1>5 DEF AwaitReply

\* A DNS worker takes a job.
LEMMA DnsPopKeeps ==
  ASSUME IInv, PoolInv, NEW d \in DnsWorkers, DnsPop(d)
  PROVE  DnsInv'
<1>0. /\ Types /\ SocketInv /\ DnsTypes /\ DnsInv /\ dnsQueue \in Seq(Clients)
      /\ dns \in [DnsWorkers -> DnsType] /\ None \notin Clients
      /\ dns[d].at = "idle" /\ UNCHANGED <<setup, serving, socket, pc, job>>
      /\ \A v \in Workers : pc[v] \in Asking => Clean(serving[v])
  BY ThreadKinds DEF IInv, PoolInv, DnsTypes, DnsInv, DnsPop, Asking, flows
<1>1. Workers' = Workers /\ Clients' = Clients
  BY <1>0, ThreadKinds
<1>2. CASE UNCHANGED <<dnsQueue, dns>>
  BY <1>0, <1>2, DnsKept DEF dnsAll
<1>3. CASE /\ dnsQueue # <<>> /\ dnsQueue' = Tail(dnsQueue)
           /\ dns' = [dns EXCEPT ![d] = [at |-> "popped", job |-> Head(dnsQueue)]]
  <2> DEFINE k == Head(dnsQueue)
  <2>1. /\ k = dnsQueue[1] /\ k \in Clients /\ 1 \in 1 .. Len(dnsQueue)
        /\ Tail(dnsQueue) \in Seq(Clients)
        /\ \A j \in 1 .. Len(dnsQueue') :
             dnsQueue'[j] = dnsQueue[j + 1] /\ j + 1 \in 2 .. Len(dnsQueue)
    BY <1>0, <1>3, Behind
  <2>2. job[k].reply = NoAnswer /\ \A e \in DnsWorkers : dns[e].job # k
    BY <1>0, <2>1 DEF DnsInv
  <2>3. /\ dns'[d].job = k /\ dns'[d].at = "popped"
        /\ \A e \in DnsWorkers : e # d => dns'[e] = dns[e]
    BY <1>0, <1>3
  <2>4. \A j \in 1 .. Len(dnsQueue') :
          \E i \in 1 .. Len(dnsQueue) : i = j + 1 /\ i # 1 /\ dnsQueue'[j] = dnsQueue[i]
    BY <2>1
  <2>5. \A j \in 1 .. Len(dnsQueue') : dnsQueue'[j] # k
    BY <1>0, <2>1, <2>4 DEF DnsInv
  <2>6. \A i, j \in 1 .. Len(dnsQueue') : dnsQueue'[i] = dnsQueue'[j] => i = j
    <3> SUFFICES ASSUME NEW i \in 1 .. Len(dnsQueue'), NEW j \in 1 .. Len(dnsQueue'),
                        dnsQueue'[i] = dnsQueue'[j]
                 PROVE  i = j
      OBVIOUS
    <3>1. i + 1 = j + 1
      BY <1>0, <2>1 DEF DnsInv
    <3>2. QED
      BY <3>1
  <2>7. \A i \in 1 .. Len(dnsQueue') : /\ job'[dnsQueue'[i]].reply = NoAnswer
                                       /\ \A e \in DnsWorkers : dns'[e].job # dnsQueue'[i]
    BY <1>0, <2>3, <2>4, <2>5 DEF DnsInv
  <2>8. \A e \in DnsWorkers : /\ dns'[e].at # "idle" <=> dns'[e].job # None
                              /\ dns'[e].job # None => job'[dns'[e].job].reply = NoAnswer
    BY <1>0, <2>1, <2>2, <2>3 DEF DnsInv
  <2>9. \A e, f \in DnsWorkers : dns'[e].job = dns'[f].job /\ dns'[e].job # None => e = f
    BY <1>0, <2>2, <2>3 DEF DnsInv
  <2>10. ASSUME NEW j, Clean(j)
         PROVE  /\ \A i \in 1 .. Len(dnsQueue') : dnsQueue'[i] # j
                /\ \A e \in DnsWorkers : dns'[e].job # j
                /\ job'[j].reply = NoAnswer
    <3>1. \A i \in 1 .. Len(dnsQueue') : dnsQueue'[i] # j
      BY <2>4, <2>10 DEF Clean
    <3>2. \A e \in DnsWorkers : dns'[e].job # j
      BY <2>1, <2>3, <2>10 DEF Clean
    <3>3. QED
      BY <1>0, <2>10, <3>1, <3>2 DEF Clean
  <2>11. \A j \in Clients' : socket'[j] \in {"new", "accepted", "queued"} => Clean(j)'
    BY <1>0, <1>1, <2>10 DEF DnsInv, Clean
  <2>12. \A w \in Workers' : pc'[w] \in Asking => Clean(serving[w])'
    BY <1>0, <1>1, <2>10 DEF Clean
  <2>13. QueuedLookupIsAwaited'
    BY <1>0, <1>1, <2>4, <1>3, <2>1 DEF DnsInv, QueuedLookupIsAwaited
  <2>14. QED
    BY <1>0, <1>1, <2>6, <2>7, <2>8, <2>9, <2>11, <2>12, <2>13 DEF DnsInv, Asking
<1>4. QED
  BY <1>2, <1>3 DEF DnsPop

\* A DNS worker looks at the job it took, or answers it.
LEMMA DnsWorkKeeps ==
  ASSUME IInv, PoolInv, NEW d \in DnsWorkers, DnsBegin(d) \/ DnsReply(d)
  PROVE  DnsInv'
<1> DEFINE k == dns[d].job
<1>0. /\ Types /\ SocketInv /\ DnsTypes /\ DnsInv /\ dnsQueue \in Seq(Clients)
      /\ dns \in [DnsWorkers -> DnsType] /\ job \in [Clients -> Job] /\ None \notin Clients
      /\ dns[d].at # "idle" /\ UNCHANGED <<setup, serving, socket, pc, dnsQueue>>
      /\ \A v \in Workers : pc[v] \in Asking => Clean(serving[v])
  BY ThreadKinds
  DEF IInv, PoolInv, DnsTypes, DnsInv, Types, LookupTypes, DnsBegin, DnsReply, Asking, flows
<1>1. Workers' = Workers /\ Clients' = Clients
  BY <1>0, ThreadKinds
<1>2. /\ k \in Clients /\ k # None /\ job[k].reply = NoAnswer
      /\ \A i \in 1 .. Len(dnsQueue) : dnsQueue[i] # k
      /\ \A e \in DnsWorkers : e # d => dns[e].job # k
      /\ \A j : Clean(j) => j # k
  <2>1. k \in Clients
    BY <1>0, JobKnown
  <2>2. QED
    BY <1>0, <2>1 DEF DnsInv, Clean
<1>3. CASE dns' = [dns EXCEPT ![d].at = "looking up"] /\ UNCHANGED job
  <2>1. \A e \in DnsWorkers : /\ dns'[e].job = dns[e].job
                              /\ dns'[e].at # "idle" <=> dns[e].at # "idle"
    BY <1>0, <1>3, DnsFields
  <2>2. \A j : Clean(j) => /\ \A i \in 1 .. Len(dnsQueue') : dnsQueue'[i] # j
                           /\ \A e \in DnsWorkers : dns'[e].job # j
                           /\ job'[j].reply = NoAnswer
    BY <1>0, <1>3, <2>1 DEF Clean
  <2>3. \A j \in Clients' : socket'[j] \in {"new", "accepted", "queued"} => Clean(j)'
    BY <1>0, <1>1, <2>2 DEF DnsInv, Clean
  <2>4. \A w \in Workers' : pc'[w] \in Asking => Clean(serving[w])'
    BY <1>0, <1>1, <2>2 DEF Clean
  <2>5. QueuedLookupIsAwaited'
    BY <1>0, <1>1 DEF DnsInv, QueuedLookupIsAwaited
  <2>6. \A e \in DnsWorkers : /\ dns'[e].at # "idle" <=> dns'[e].job # None
                              /\ dns'[e].job # None => job'[dns'[e].job].reply = NoAnswer
    BY <1>0, <1>3, <2>1 DEF DnsInv
  <2>7. \A e, f \in DnsWorkers : dns'[e].job = dns'[f].job /\ dns'[e].job # None => e = f
    BY <1>0, <2>1 DEF DnsInv
  <2>8. \A i \in 1 .. Len(dnsQueue') : /\ job'[dnsQueue'[i]].reply = NoAnswer
                                       /\ \A e \in DnsWorkers : dns'[e].job # dnsQueue'[i]
    <3>1. \A i \in 1 .. Len(dnsQueue) : /\ job[dnsQueue[i]].reply = NoAnswer
                                        /\ \A e \in DnsWorkers : dns[e].job # dnsQueue[i]
      BY <1>0 DEF DnsInv
    <3>2. dnsQueue' = dnsQueue /\ job' = job
      BY <1>0, <1>3
    <3>3. QED
      BY <2>1, <3>1, <3>2
  <2>9. QED
    BY <1>0, <1>1, <2>3, <2>4, <2>5, <2>6, <2>7, <2>8 DEF DnsInv, Asking
<1>4. ASSUME dns' = [dns EXCEPT ![d] = [at |-> "idle", job |-> None]],
             NEW j, job' = [job EXCEPT ![k] = j]
      PROVE  DnsInv'
  <2>1. /\ dns'[d].at = "idle" /\ dns'[d].job = None
        /\ \A e \in DnsWorkers : e # d => dns'[e] = dns[e]
    BY <1>0, <1>4
  <2>2. \A c : c # k => job'[c] = job[c]
    BY <1>0, <1>2, <1>4
  <2>3. \A c \in Clients : Clean(c) => Clean(c)'
    BY <1>0, <1>2, <2>1, <2>2 DEF Clean
  <2>4. \A c \in Clients' : socket'[c] \in {"new", "accepted", "queued"} => Clean(c)'
    BY <1>0, <1>1, <2>3 DEF DnsInv
  <2>5. ASSUME NEW w \in Workers', pc'[w] \in Asking PROVE Clean(serving[w])'
    <3>1. serving[w] \in Clients /\ Clean(serving[w])
      BY <1>0, <1>1, <2>5, Served DEF Asking
    <3>2. QED
      BY <1>0, <1>2, <2>1, <2>2, <3>1 DEF Clean
  <2>6. QueuedLookupIsAwaited'
    BY <1>0, <1>1 DEF DnsInv, QueuedLookupIsAwaited
  <2>7. \A i \in 1 .. Len(dnsQueue') : /\ job'[dnsQueue'[i]].reply = NoAnswer
                                       /\ \A e \in DnsWorkers : dns'[e].job # dnsQueue'[i]
    <3>1. \A i \in 1 .. Len(dnsQueue) : dnsQueue[i] # None
      BY <1>0
    <3>2. QED
      BY <1>0, <1>2, <2>1, <2>2, <3>1 DEF DnsInv
  <2>8. \A e \in DnsWorkers : /\ dns'[e].at # "idle" <=> dns'[e].job # None
                              /\ dns'[e].job # None => job'[dns'[e].job].reply = NoAnswer
    BY <1>0, <1>2, <2>1, <2>2 DEF DnsInv
  <2>9. QED
    BY <1>0, <1>1, <2>1, <2>4, <2>5, <2>6, <2>7, <2>8 DEF DnsInv, Asking
<1>5. QED
  BY <1>3, <1>4 DEF DnsBegin, DnsReply

\* Every step keeps DnsInv.
LEMMA DnsStep ==
  ASSUME IInv, PoolInv, [Next]_vars
  PROVE  DnsInv'
<1>1. CASE PoolStep
  BY <1>1, ResolveKeeps, AwaitReplyKeeps, DnsPopKeeps, DnsWorkKeeps DEF PoolStep
<1>2. CASE ~PoolStep
  BY <1>2, DnsFrame
<1>3. QED
  BY <1>1, <1>2

-----------------------------------------------------------------------------
(* The theorems                                                            *)

\* The invariant holds initially.
LEMMA InitInv == Init => IInv
<1> SUFFICES ASSUME Init PROVE IInv
  OBVIOUS
<1>1. PcType /\ LabelInv
  BY ThreadKinds DEF Init, PcType, LabelInv, Labels, Busy, Registered, Stopping, Threads
<1>2. QueueTypes /\ LookupTypes
  BY Records DEF Init, QueueTypes, LookupTypes, SocketState
<1>3. Types
  BY <1>1, <1>2 DEF Init, Types, SetupType
<1>4. SocketInv
  BY ThreadKinds DEF Init, SocketInv, Busy, Registered, Threads
<1>5. VetInv
  BY ThreadKinds DEF Init, VetInv, Closed, NoLookup, Threads
<1>6. StopLeavesNothingOpen
  BY <1>1 DEF Init, StopLeavesNothingOpen
<1>7. QED
  BY <1>1, <1>3, <1>4, <1>5, <1>6 DEF IInv

\* The invariant of this module, for the proofs of its properties.
THEOREM Invariant == Spec => []IInv
<1>1. IInv /\ [Next]_vars => IInv'
  <2> SUFFICES ASSUME IInv, [Next]_vars PROVE IInv'
    OBVIOUS
  <2>1. Types /\ LabelInv /\ SocketInv /\ VetInv /\ StopLeavesNothingOpen
    BY DEF IInv
  <2>2. Types'
    BY <2>1, SetupStep, PcTypeStep, QueueTypeStep, LookupTypeStep DEF Types
  <2>3. LabelInv' /\ SocketInv'
    BY <2>1, LabelStep, SocketStep
  <2>4. VetInv' /\ StopLeavesNothingOpen'
    BY <2>1, VetStep, StopStep
  <2>5. QED
    BY <2>2, <2>3, <2>4 DEF IInv
<1>2. QED
  BY InitInv, <1>1, PTL DEF Spec

\* StopLeavesNothingOpen holds: "dropping it closes the listener, queued
\* sockets, and both ends of every active connection", whichever of the owner,
\* the listener and the workers call stop(), and when.
THEOREM NothingOpen == Spec => []StopLeavesNothingOpen
<1>1. IInv => StopLeavesNothingOpen
  BY DEF IInv
<1>2. QED
  BY Invariant, <1>1, PTL

\* ConnectsOnlyToVetted holds: without an upstream proxy no worker connects to
\* an address that was not vetted in the same answer.
THEOREM OnlyVetted == Spec => []ConnectsOnlyToVetted
<1>1. IInv => ConnectsOnlyToVetted
  BY DEF IInv, VetInv, ConnectsOnlyToVetted
<1>2. QED
  BY Invariant, <1>1, PTL
\* The pool begins with nothing to do.
LEMMA PoolInit == Init => PoolInv
<1> SUFFICES ASSUME Init PROVE PoolInv
  OBVIOUS
<1>1. DnsTypes
  <2>1. dnsQueue \in Seq(Clients)
    BY DEF Init
  <2>2. dns \in [DnsWorkers -> DnsType]
    BY DnsFields DEF Init
  <2>3. QED
    BY <2>1, <2>2 DEF DnsTypes
<1>2. /\ dnsQueue = <<>> /\ Len(dnsQueue) = 0 /\ Len(queue) = 0 /\ asleep = {} /\ ~cancelled
      /\ cancelled \in BOOLEAN
      /\ \A d \in DnsWorkers : dns[d].at = "idle" /\ dns[d].job = None
      /\ \A k \in Clients : job[k].reply = NoAnswer
      /\ \A w \in Workers : pc[w] = "idle"
  BY Records, ThreadKinds DEF Init, Threads
<1>3. DnsInv
  <2>1. \A k \in Clients : Clean(k)
    BY <1>2, ThreadKinds DEF Clean
  <2>2. \A w \in Workers : pc[w] \notin Asking
    BY <1>2 DEF Asking, Busy, Registered
  <2>3. QueuedLookupIsAwaited
    BY <1>2 DEF QueuedLookupIsAwaited
  <2>4. QED
    BY <1>2, <2>1, <2>2, <2>3 DEF DnsInv
<1>4. Limits
  BY <1>2, GuardAssumption DEF Limits
<1>5. QED
  BY <1>1, <1>3, <1>4 DEF PoolInv

\* GuardInv holds: the types, both queues within their limits, and every lookup
\* in the DNS queue has a worker that waits for it, however many there are of
\* each and however long the resolver hangs.
THEOREM LookupsAwaited == Spec => []GuardInv
<1>1. ASSUME IInv, PoolInv, [Next]_vars PROVE PoolInv'
  BY <1>1, DnsTypeStep, LimitStep, DnsStep DEF PoolInv
<1>2. Spec => [](IInv /\ PoolInv)
  BY Invariant, PoolInit, <1>1, PTL DEF Spec
<1>3. ASSUME IInv, PoolInv PROVE GuardInv
  <2>1. setup \in Setups /\ {stopped, cancelled} \subseteq BOOLEAN
    BY <1>3 DEF IInv, Types, SetupType, PoolInv, Limits
  <2>2. pc \in [Threads -> {"idle", "claimed", "request", "resolving", "vet",
                            "connect", "connected", "relay", "finish", "stop", "sweep", "exited",
                            "accept", "enqueue", "running", "join", "dropped"}]
    BY <1>3 DEF IInv, Types, PcType, Labels, Busy, Registered, Stopping
  <2>3. /\ queue \in Seq(Clients) /\ serving \in [Workers -> Clients \cup {None}]
        /\ socket \in [Clients -> {"new", "accepted", "queued", "open", "shut", "closed"}]
        /\ active \in [Workers -> SUBSET {"client", "upstream"}]
    BY <1>3 DEF IInv, Types, QueueTypes, SocketState
  <2>4. /\ upstream \in [Workers -> [address : Addresses \cup {"none"}, open : BOOLEAN]]
        /\ lookup \in [Workers -> [purpose : {"destination", "proxy"},
                                   answer : Answers \cup {NoAnswer}]]
        /\ job \in [Clients -> [cancelled : BOOLEAN, reply : Answers \cup {NoAnswer}]]
    BY <1>3 DEF IInv, Types, LookupTypes, Upstream, Lookup, Job, AnswerSet
  <2>5. /\ dnsQueue \in Seq(Clients)
        /\ dns \in [DnsWorkers -> [at : {"idle", "popped", "looking up"},
                                   job : Clients \cup {None}]]
    BY <1>3 DEF PoolInv, DnsTypes, DnsType
  <2>6. /\ Len(queue) <= MaxPendingClients /\ Len(dnsQueue) <= MaxPendingQueries
        /\ asleep \subseteq Workers \cup DnsWorkers
    BY <1>3 DEF PoolInv, Limits
  <2>7. TypeOK
    BY <2>1, <2>2, <2>3, <2>4, <2>5, <2>6 DEF TypeOK
  <2>8. QueuedLookupIsAwaited
    BY <1>3 DEF PoolInv, DnsInv
  <2>9. QED
    BY <2>7, <2>8 DEF GuardInv
<1>4. QED
  BY <1>2, <1>3, PTL
=============================================================================
