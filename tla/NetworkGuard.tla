---------------------------- MODULE NetworkGuard ----------------------------
(***************************************************************************)
(* The loopback proxy of one operation (src-tauri/src/network_security.rs):*)
(* a listener that accepts the clients of yt-dlp and queues them, a fixed  *)
(* number of workers that serve one client at a time, the guard that owns  *)
(* them and stops them when it is dropped, and the pool of DNS workers     *)
(* that all lookups go through. stop() may run in the owner, the listener  *)
(* and any worker at once.                                                 *)
(*                                                                         *)
(* One action is what a thread does under one acquisition of the queue, of *)
(* the table of active sockets or of the DNS state, or one blocking call.  *)
(* Requests are followed to the socket they connect; of a tunnel or a body *)
(* only that it ends is kept. No specification uses the operators named    *)
(* Bad...: each is the operator after it with a bug.                       *)
(***************************************************************************)
EXTENDS Naturals, SequencesExt

CONSTANTS Setups,       \* how many workers (PROXY_WORKERS) for how many clients,
                        \* and whether the setting upstreamProxy names a proxy
          DnsWorkers,   \* DNS_RESOLVER_WORKERS of them
          Listener, Owner, None,
          MaxPendingClients,   \* MAX_PENDING_PROXY_CLIENTS
          MaxPendingQueries    \* MAX_PENDING_DNS_QUERIES

ASSUME GuardAssumption ==
  /\ Setups \subseteq [workers : Nat \ {0}, clients : Nat \ {0}, proxied : BOOLEAN]
  /\ {MaxPendingClients, MaxPendingQueries} \subseteq Nat \ {0}
  /\ {Listener, Owner, None} \cap Nat = {} /\ Listener # Owner

VARIABLES
  setup,      \* one of Setups
  stopped,    \* ProxyShared.stopped
  cancelled,  \* ProxyShared.operation_cancelled
  queue,      \* ProxyShared.queued
  asleep,     \* who waits for the condition variable of its queue
  active,     \* ProxyShared.active: the sockets registered for each worker
  pc,         \* where each thread is
  serving,    \* the client of each worker
  socket,     \* of each client
  upstream,   \* the address each worker has connected to and that socket
  lookup,     \* what each worker looks up, and the vetted answer
  dnsQueue,   \* DnsResolverState.queue
  dns,        \* where each DNS worker is, and its job
  job         \* of each client's lookup: whether it is abandoned, the reply

proxy  == <<stopped, queue, active>>
flows  == <<serving, socket, upstream, lookup>>
dnsAll == <<dnsQueue, dns, job>>
vars   == <<setup, proxy, cancelled, asleep, pc, flows, dnsAll>>

Workers == 1 .. setup.workers
Clients == 1 .. setup.clients   \* in the order in which they are accepted
Threads == Workers \cup {Listener, Owner}

\* What a lookup can return: nothing, or addresses of which some are private.
Addresses == {"public", "private"}
Answers == {{}, {"public"}, Addresses}
NoAnswer == {"none"}

Closed == [address |-> "none", open |-> FALSE]
NoLookup == [purpose |-> "destination", answer |-> NoAnswer]
NoJob == [cancelled |-> FALSE, reply |-> NoAnswer]

Init ==
  /\ setup \in Setups
  /\ stopped = FALSE /\ cancelled = FALSE
  /\ queue = <<>> /\ dnsQueue = <<>>
  /\ asleep = {}
  /\ active = [w \in Workers |-> {}]
  /\ pc = [t \in Threads |-> IF t \in Workers THEN "idle"
                             ELSE IF t = Listener THEN "accept" ELSE "running"]
  /\ serving = [w \in Workers |-> None]
  /\ socket = [k \in Clients |-> "new"]
  /\ upstream = [w \in Workers |-> Closed]
  /\ lookup = [w \in Workers |-> NoLookup]
  /\ dns = [d \in DnsWorkers |-> [at |-> "idle", job |-> None]]
  /\ job = [k \in Clients |-> NoJob]

Goto(t, label) == pc' = [pc EXCEPT ![t] = label]

NotifyOne(group) ==
  IF asleep \cap group = {} THEN UNCHANGED asleep
  ELSE \E t \in asleep \cap group : asleep' = asleep \ {t}

-----------------------------------------------------------------------------
(* ProxyShared::stop by thread t, then the thread's own end                *)

AfterStop(t) == IF t = Owner THEN "join" ELSE "exited"

StopStore(t) ==
  /\ pc[t] = "stop"
  /\ stopped' = TRUE
  /\ Goto(t, "sweep")
  /\ UNCHANGED <<setup, queue, active, cancelled, asleep, flows, dnsAll>>

\* The queued clients and every registered socket are shut, the workers woken.
\* The queue and the table are locked one after the other; as nothing enters
\* either of them once the flag is set, they are emptied in one action.
StopSweep(t) ==
  /\ pc[t] = "sweep"
  /\ socket' = [k \in Clients |->
       IF socket[k] = "queued" THEN "closed"
       ELSE IF \E w \in Workers : serving[w] = k /\ "client" \in active[w] THEN "shut"
       ELSE socket[k]]
  /\ upstream' = [w \in Workers |-> IF "upstream" \in active[w]
                                    THEN [upstream[w] EXCEPT !.open = FALSE] ELSE upstream[w]]
  /\ queue' = <<>>
  /\ asleep' = asleep \ Workers
  /\ Goto(t, AfterStop(t))
  /\ UNCHANGED <<setup, stopped, active, cancelled, serving, lookup, dnsAll>>

Stop(t) == StopStore(t) \/ StopSweep(t)

\* Another thread sets the flag the operation was started with.
CancelOperation ==
  /\ ~cancelled /\ pc[Owner] = "running"
  /\ cancelled' = TRUE
  /\ UNCHANGED <<setup, proxy, asleep, pc, flows, dnsAll>>

\* NetworkSecurityGuard::drop: stops, then joins the listener
DropGuard ==
  /\ pc[Owner] = "running"
  /\ Goto(Owner, "stop")
  /\ UNCHANGED <<setup, proxy, cancelled, asleep, flows, dnsAll>>

JoinListener ==
  /\ pc[Owner] = "join" /\ pc[Listener] = "exited"
  /\ Goto(Owner, "dropped")
  /\ UNCHANGED <<setup, proxy, cancelled, asleep, flows, dnsAll>>

-----------------------------------------------------------------------------
(* The listener                                                            *)

\* One turn of the accept loop. accept() may fail for good.
Accept ==
  /\ pc[Listener] = "accept"
  /\ \/ stopped /\ Goto(Listener, "exited") /\ UNCHANGED <<socket, serving>>
     \/ ~stopped /\ cancelled /\ Goto(Listener, "stop") /\ UNCHANGED <<socket, serving>>
     \/ /\ ~stopped /\ ~cancelled
        /\ \E k \in Clients : /\ socket[k] = "new" /\ \A j \in 1 .. k - 1 : socket[j] # "new"
                              /\ socket' = [socket EXCEPT ![k] = "accepted"]
        /\ Goto(Listener, "enqueue") /\ UNCHANGED serving
     \/ ~stopped /\ ~cancelled /\ Goto(Listener, "exited") /\ UNCHANGED <<socket, serving>>
  /\ UNCHANGED <<setup, proxy, cancelled, asleep, upstream, lookup, dnsAll>>

\* ProxyShared::enqueue. A client too many is told that the proxy is busy.
Enqueue ==
  /\ pc[Listener] = "enqueue"
  /\ \E k \in Clients :
       /\ socket[k] = "accepted"
       /\ IF stopped \/ cancelled \/ Len(queue) >= MaxPendingClients
          THEN socket' = [socket EXCEPT ![k] = "closed"] /\ UNCHANGED <<queue, asleep>>
          ELSE /\ socket' = [socket EXCEPT ![k] = "queued"]
               /\ queue' = Append(queue, k)
               /\ NotifyOne(Workers)
  /\ Goto(Listener, "accept")
  /\ UNCHANGED <<setup, stopped, active, cancelled, serving, upstream, lookup, dnsAll>>

-----------------------------------------------------------------------------
(* A worker, from next_client to the end of the client                     *)

NextClient(w) ==
  /\ pc[w] = "idle" /\ w \notin asleep
  /\ IF stopped \/ cancelled
     THEN /\ Goto(w, IF stopped THEN "exited" ELSE "stop")
          /\ UNCHANGED <<queue, asleep, serving, socket>>
     ELSE IF queue = <<>>
     THEN asleep' = asleep \cup {w} /\ UNCHANGED <<queue, pc, serving, socket>>
     ELSE /\ serving' = [serving EXCEPT ![w] = Head(queue)]
          /\ socket' = [socket EXCEPT ![Head(queue)] = "open"]
          /\ queue' = Tail(queue)
          /\ Goto(w, "claimed")
          /\ UNCHANGED asleep
  /\ UNCHANGED <<setup, stopped, active, cancelled, upstream, lookup, dnsAll>>

\* configure_proxy_client_socket may fail. ActiveSockets::register looks at
\* the flags with the table locked, which stop() locks for its scan.
RegisterClient(w) ==
  LET k == serving[w] IN
  /\ pc[w] = "claimed"
  /\ \/ /\ socket' = [socket EXCEPT ![k] = "closed"]
        /\ serving' = [serving EXCEPT ![w] = None]
        /\ Goto(w, "idle") /\ UNCHANGED active
     \/ /\ ~stopped /\ ~cancelled
        /\ active' = [active EXCEPT ![w] = @ \cup {"client"}]
        /\ Goto(w, "request") /\ UNCHANGED <<serving, socket>>
  /\ UNCHANGED <<setup, stopped, queue, cancelled, asleep, upstream, lookup, dnsAll>>

\* The request is read, parsed and authenticated, or answered with an error.
\* resolve_connection_destination then needs no lookup for an address; a name
\* goes to the DNS queue unless that is full.
Resolve(w) ==
  LET k == serving[w] IN
  /\ pc[w] = "request"
  /\ \/ Goto(w, "finish") /\ UNCHANGED <<lookup, dnsQueue, job, asleep>>
     \/ /\ socket[k] = "open"
        /\ \E answer \in Answers : lookup' = [lookup EXCEPT ![w].answer = answer]
        /\ Goto(w, "vet") /\ UNCHANGED <<dnsQueue, job, asleep>>
     \/ /\ socket[k] = "open" /\ ~stopped /\ Len(dnsQueue) < MaxPendingQueries
        /\ dnsQueue' = Append(dnsQueue, k)
        /\ NotifyOne(DnsWorkers)
        /\ Goto(w, "resolving") /\ UNCHANGED <<lookup, job>>
  /\ UNCHANGED <<setup, proxy, cancelled, serving, socket, upstream, dns>>

\* resolve_system_dns_with_cancel: the reply has come, or the proxy is
\* stopped or the time is up and the job is abandoned (DnsResolverPool::
\* cancel).
BadAwaitReply(w) ==
  LET k == serving[w] IN
  /\ pc[w] = "resolving"
  /\ \/ /\ job[k].reply # NoAnswer
        /\ lookup' = [lookup EXCEPT ![w].answer = job[k].reply]
        /\ job' = [job EXCEPT ![k] = NoJob]
        /\ Goto(w, "vet") /\ UNCHANGED dnsQueue
     \/ /\ job' = [job EXCEPT ![k].cancelled = TRUE]
        /\ Goto(w, "finish") /\ UNCHANGED <<lookup, dnsQueue>>
  /\ UNCHANGED <<setup, proxy, cancelled, asleep, serving, socket, upstream, dns>>

BadAwaitReplyForever(w) ==
  LET k == serving[w] IN
  /\ pc[w] = "resolving"
  /\ job[k].reply # NoAnswer
  /\ lookup' = [lookup EXCEPT ![w].answer = job[k].reply]
  /\ job' = [job EXCEPT ![k] = NoJob]
  /\ Goto(w, "vet")
  /\ UNCHANGED <<setup, proxy, cancelled, asleep, serving, socket, upstream, dnsQueue, dns>>

\* A job that is still queued leaves the queue, and a DNS worker hears of it.
Retain(k) ==
  \/ \E i \in DOMAIN dnsQueue : /\ dnsQueue[i] = k
                                /\ dnsQueue' = RemoveAt(dnsQueue, i)
                                /\ NotifyOne(DnsWorkers)
  \/ /\ \A i \in DOMAIN dnsQueue : dnsQueue[i] # k
     /\ UNCHANGED <<dnsQueue, asleep>>

AwaitReply(w) ==
  LET k == serving[w] IN
  /\ pc[w] = "resolving"
  /\ \/ /\ job[k].reply # NoAnswer
        /\ lookup' = [lookup EXCEPT ![w].answer = job[k].reply]
        /\ job' = [job EXCEPT ![k] = NoJob]
        /\ Goto(w, "vet") /\ UNCHANGED <<dnsQueue, asleep>>
     \/ /\ Retain(k)
        /\ job' = [job EXCEPT ![k] = IF \E d \in DnsWorkers : dns[d].job = k
                                    THEN [NoJob EXCEPT !.cancelled = TRUE] ELSE NoJob]
        /\ Goto(w, "finish") /\ UNCHANGED lookup
  /\ UNCHANGED <<setup, proxy, cancelled, serving, socket, upstream, dns>>

\* vet_destination: one private address among the answer blocks the request.
Allowed(answer) == answer # {} /\ answer \subseteq {"public"}

\* An address goes on to connect_addresses, with an upstream proxy the host of
\* that is looked up first. It is trusted.
Vet(w) ==
  LET answer == lookup[w].answer
      trusted == lookup[w].purpose = "proxy"
  IN
  /\ pc[w] = "vet"
  /\ \/ Goto(w, "finish") /\ UNCHANGED lookup
     \/ /\ setup.proxied /\ ~trusted /\ Allowed(answer) /\ ~stopped
        /\ lookup' = [lookup EXCEPT ![w] = [purpose |-> "proxy", answer |-> NoAnswer]]
        /\ Goto(w, "request")
     \/ /\ trusted \/ (~setup.proxied /\ Allowed(answer) /\ ~stopped)
        /\ Goto(w, "connect") /\ UNCHANGED lookup
  /\ UNCHANGED <<setup, proxy, cancelled, asleep, serving, socket, upstream, dnsAll>>

\* Connecting to the name, which resolves it once more.
BadConnect(w) ==
  /\ pc[w] = "connect"
  /\ \/ Goto(w, "finish") /\ UNCHANGED upstream
     \/ /\ ~stopped
        /\ \E answer \in Answers : \E a \in answer :
              upstream' = [upstream EXCEPT ![w] = [address |-> a, open |-> TRUE]]
        /\ Goto(w, "connected")
  /\ UNCHANGED <<setup, proxy, cancelled, asleep, serving, socket, lookup, dnsAll>>

\* connect_addresses: one of the addresses it was given, or none in time.
Connect(w) ==
  /\ pc[w] = "connect"
  /\ \/ Goto(w, "finish") /\ UNCHANGED upstream
     \/ /\ ~stopped
        /\ \E a \in lookup[w].answer :
              upstream' = [upstream EXCEPT ![w] = [address |-> a, open |-> TRUE]]
        /\ Goto(w, "connected")
  /\ UNCHANGED <<setup, proxy, cancelled, asleep, serving, socket, lookup, dnsAll>>

BadRegisterUpstream(w) ==
  /\ pc[w] = "connected"
  /\ active' = [active EXCEPT ![w] = @ \cup {"upstream"}]
  /\ Goto(w, "relay")
  /\ UNCHANGED <<setup, stopped, queue, cancelled, asleep, flows, dnsAll>>

RegisterUpstream(w) ==
  /\ pc[w] = "connected"
  /\ IF stopped \/ cancelled
     THEN /\ upstream' = [upstream EXCEPT ![w].open = FALSE]
          /\ Goto(w, "finish") /\ UNCHANGED active
     ELSE /\ active' = [active EXCEPT ![w] = @ \cup {"upstream"}]
          /\ Goto(w, "relay") /\ UNCHANGED upstream
  /\ UNCHANGED <<setup, stopped, queue, cancelled, asleep, serving, socket, lookup, dnsAll>>

\* The upstream proxy answers CONNECT, then the tunnel or the body is copied
\* until an end closes it or nothing has come for long enough.
Relay(w) ==
  /\ pc[w] = "relay"
  /\ Goto(w, "finish")
  /\ UNCHANGED <<setup, proxy, cancelled, asleep, flows, dnsAll>>

\* The upstream socket, ActiveSockets and the client are dropped.
Finish(w) ==
  /\ pc[w] = "finish"
  /\ active' = [active EXCEPT ![w] = {}]
  /\ socket' = [socket EXCEPT ![serving[w]] = "closed"]
  /\ upstream' = [upstream EXCEPT ![w] = Closed]
  /\ serving' = [serving EXCEPT ![w] = None]
  /\ lookup' = [lookup EXCEPT ![w] = NoLookup]
  /\ Goto(w, "idle")
  /\ UNCHANGED <<setup, stopped, queue, cancelled, asleep, dnsAll>>

-----------------------------------------------------------------------------
(* dns_resolver_worker: the abandoned jobs it pops are answered without a  *)
(* lookup; a lookup that has begun cannot be interrupted                   *)

DnsPop(d) ==
  /\ dns[d].at = "idle" /\ d \notin asleep
  /\ IF dnsQueue = <<>>
     THEN asleep' = asleep \cup {d} /\ UNCHANGED <<dnsQueue, dns>>
     ELSE /\ dns' = [dns EXCEPT ![d] = [at |-> "popped", job |-> Head(dnsQueue)]]
          /\ dnsQueue' = Tail(dnsQueue)
          /\ UNCHANGED asleep
  /\ UNCHANGED <<setup, proxy, cancelled, pc, flows, job>>

DnsBegin(d) ==
  /\ dns[d].at = "popped"
  /\ IF job[dns[d].job].cancelled
     THEN /\ dns' = [dns EXCEPT ![d] = [at |-> "idle", job |-> None]]
          /\ job' = [job EXCEPT ![dns[d].job] = NoJob]
     ELSE dns' = [dns EXCEPT ![d].at = "looking up"] /\ UNCHANGED job
  /\ UNCHANGED <<setup, proxy, cancelled, asleep, pc, flows, dnsQueue>>

\* The reply goes to the channel of the job, which nobody may read any more.
DnsReply(d) ==
  /\ dns[d].at = "looking up"
  /\ \E answer \in Answers :
        job' = [job EXCEPT ![dns[d].job] = IF @.cancelled THEN NoJob ELSE [@ EXCEPT !.reply = answer]]
  /\ dns' = [dns EXCEPT ![d] = [at |-> "idle", job |-> None]]
  /\ UNCHANGED <<setup, proxy, cancelled, asleep, pc, flows, dnsQueue>>

-----------------------------------------------------------------------------
WorkerSteps(w) ==
  \/ NextClient(w) \/ RegisterClient(w) \/ Resolve(w) \/ AwaitReply(w)
  \/ Vet(w) \/ Connect(w) \/ RegisterUpstream(w) \/ Relay(w) \/ Finish(w) \/ Stop(w)

ListenerSteps == Accept \/ Enqueue \/ Stop(Listener)

OwnerSteps == DropGuard \/ Stop(Owner) \/ JoinListener

Next ==
  \/ \E w \in Workers : WorkerSteps(w)
  \/ \E d \in DnsWorkers : DnsPop(d) \/ DnsBegin(d) \/ DnsReply(d)
  \/ ListenerSteps \/ OwnerSteps \/ CancelOperation

\* Both ends may keep a relay going for ever, and the copy of an answer does
\* not look at the flag: what ends it for sure is a socket that was shut.
RelayEnds(w) == Relay(w) /\ (socket[serving[w]] = "shut" \/ ~upstream[w].open)

\* Every thread keeps running and every blocking call of a worker ends within
\* its timeout, but for a relay and for a lookup of the DNS, which may hang for
\* ever. No thread can go on without end (each turn of a loop takes a client, a
\* job or a stop), so one condition for all of them says as much as one for
\* each.
Fairness ==
  WF_vars(\/ \E w \in Workers : (WorkerSteps(w) /\ pc[w] # "relay") \/ RelayEnds(w)
          \/ \E d \in DnsWorkers : DnsPop(d) \/ DnsBegin(d)
          \/ ListenerSteps \/ Stop(Owner) \/ JoinListener)

Spec == Init /\ [][Next]_vars /\ Fairness

-----------------------------------------------------------------------------
\* The type of every variable.
TypeOK ==
  /\ setup \in Setups
  /\ {stopped, cancelled} \subseteq BOOLEAN
  /\ queue \in Seq(Clients) /\ Len(queue) <= MaxPendingClients
  /\ dnsQueue \in Seq(Clients) /\ Len(dnsQueue) <= MaxPendingQueries
  /\ asleep \subseteq Workers \cup DnsWorkers
  /\ active \in [Workers -> SUBSET {"client", "upstream"}]
  /\ pc \in [Threads -> {"idle", "claimed", "request", "resolving", "vet",
                         "connect", "connected", "relay", "finish", "stop", "sweep", "exited",
                         "accept", "enqueue", "running", "join", "dropped"}]
  /\ serving \in [Workers -> Clients \cup {None}]
  /\ socket \in [Clients -> {"new", "accepted", "queued", "open", "shut", "closed"}]
  /\ upstream \in [Workers -> [address : Addresses \cup {"none"}, open : BOOLEAN]]
  /\ lookup \in [Workers -> [purpose : {"destination", "proxy"},
                             answer : Answers \cup {NoAnswer}]]
  /\ dns \in [DnsWorkers -> [at : {"idle", "popped", "looking up"}, job : Clients \cup {None}]]
  /\ job \in [Clients -> [cancelled : BOOLEAN, reply : Answers \cup {NoAnswer}]]

\* Once the owner's stop() has scanned the table, no client waits in the queue
\* and every socket in the table is shut: one that a worker held in its hand
\* during the scan is refused by register ("dropping it closes the listener,
\* queued sockets, and both ends of every active connection").
StopLeavesNothingOpen ==
  pc[Owner] \in {"join", "dropped"} =>
    /\ queue = <<>>
    /\ \A w \in Workers :
         /\ "client" \in active[w] => socket[serving[w]] = "shut"
         /\ "upstream" \in active[w] => ~upstream[w].open

\* Without an upstream proxy a worker only ever connects to an address of an
\* answer that was public as a whole, and of the one that was vetted: nothing is
\* looked up between the check and the connection ("the caller must connect to
\* those exact addresses").
ConnectsOnlyToVetted ==
  \A w \in Workers : upstream[w].open /\ ~setup.proxied =>
    upstream[w].address = "public" /\ lookup[w].answer = {"public"}

\* Every lookup in the DNS queue has a worker that waits for it: those that
\* were given up do not fill the queue while the pool hangs.
QueuedLookupIsAwaited ==
  \A i \in DOMAIN dnsQueue :
    \E w \in Workers : serving[w] = dnsQueue[i] /\ pc[w] = "resolving"

\* With the types, in which the limits of both queues are.
GuardInv == TypeOK /\ QueuedLookupIsAwaited

\* After the guard is dropped every worker ends, whatever the DNS and both ends
\* of its relay do, and the drop itself returns.
DropEndsWorkers ==
  pc[Owner] = "stop" ~> pc[Owner] = "dropped" /\ \A w \in Workers : pc[w] = "exited"

=============================================================================
