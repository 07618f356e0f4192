------------------------------- MODULE PSRpc -------------------------------
(***************************************************************************)
(* The clients and the polling threads of a cluster.  A behaviour begins   *)
(* with the start of the processes, or in a cluster that is already        *)
(* serving (see ServingInit).                                              *)
(*                                                                         *)
(* A client thread keeps several requests under way, one per slot.  The    *)
(* answer of a GET is written by the server's NIC straight into the        *)
(* client's memory: the client marks the last word of the place where the  *)
(* answer will be and polls it until it has been overwritten.  With        *)
(* several servers AllShardsParameterClientWrapper splits the keys over    *)
(* them, with one server WqRPCParameterClient is used as it is.            *)
(*                                                                         *)
(* Memory is counted in cells of value_size bytes.  A cell holds the value *)
(* of a key (named by the key), or FINISH_MAGIC in the word polled, or the *)
(* answer to a PUT.                                                        *)
(***************************************************************************)
EXTENDS PSStartup, SequencesExt

CONSTANTS Clients,      \* the threads of the client process
          AsyncReqNum,  \* async_req_num
          Batch,        \* batch_read_count
          Samples,      \* what SampleReader::fillArray may return
          MaxKvNum,     \* max_kv_num_per_request
          ShardCut,     \* 500 in the code
          FinishMagic, Ack, Blank,
          MaxRequests   \* bound: the requests of one client thread

ASSUME RpcAssumption ==
    /\ AsyncReqNum \in Nat \ {0} /\ Batch \in Nat \ {0} /\ ShardCut \in Nat
    /\ MaxKvNum \in Nat /\ Batch <= MaxKvNum
    /\ Samples \subseteq [1 .. Batch -> Keys]

VARIABLES cpc,      \* client -> where clientThreadLoop is
          routed,   \* client -> the thread ids each server told it to use
          req_i,    \* client -> the slot it looks at
          req,      \* client -> slot -> the request under way
          sent,     \* client -> requests sent so far
          mem,      \* client -> its receive buffers, one after the other
          inbox,    \* server -> DSM thread id -> requests received
          reply,    \* client -> answers to GET_SERVER_THREADIDS
          serving,  \* server -> serving_thread_id
          buf,      \* server -> polling thread -> its RDMA buffer
          posted,   \* server -> polling thread -> writes handed to the NIC
          broken,   \* server -> polling threads whose queue pair has failed
          sglist,   \* use_sglist
          starved   \* history: a request had no key for some server

clientVars == <<cpc, routed, req_i, req, sent>>
serverVars == <<inbox, serving, buf, posted, broken, sglist>>
rpcVars == <<clientVars, serverVars, mem, reply, starved>>
setUpVars == <<servers, main, loadVars, keeperVars, startVars>>
vars == <<setUpVars, rpcVars>>

Slots == 1 .. AsyncReqNum
NoRequest == [type |-> "none", keys |-> <<>>, polls |-> <<>>, spoiled |-> FALSE]

(* GetReceiveBuffer: buffers are taken one after the other, slot by slot,  *)
(* and in a slot server by server.  Base is the cell before the first.     *)
BufferLen == IF servers = 1 THEN Batch ELSE MaxKvNum
Base(i, s) == ((i - 1) * servers + s) * BufferLen
Memory == 0 .. AsyncReqNum * servers * BufferLen

RpcInit ==
    /\ req_i = [c \in Clients |-> 1]
    /\ req = [c \in Clients |-> [i \in Slots |-> NoRequest]]
    /\ sent = [c \in Clients |-> 0]
    /\ mem = [c \in Clients |-> [a \in Memory |-> Blank]]
    /\ inbox = [s \in Servers |-> [id \in 0 .. ThreadCount |-> <<>>]]
    /\ reply = [c \in Clients |-> <<>>]
    /\ buf = [s \in Servers |-> [i \in PollingThreads |-> [n \in 1 .. MaxKvNum |-> Blank]]]
    /\ posted = [s \in Servers |-> [i \in PollingThreads |-> <<>>]]
    /\ broken = [s \in Servers |-> {}]
    /\ starved = FALSE

---------------------------------------------------------------------------
(* The client's start.                                                     *)

(* A message to an id that nobody has registered finds no receive buffer.  *)
Delivered(s, id, m) ==
    IF id < appID[s] THEN [inbox EXCEPT ![s][id] = Append(@, m)] ELSE inbox

(* InitThread: GetServerThreadIDs asks thread 0 of the next server.        *)
AskThreadIds(c) ==
    LET s == Len(routed[c]) IN
    /\ cpc[c] = "connect"
    /\ At(Client, "threads")
    /\ inbox' = Delivered(s, 0, [type |-> "ids", client |-> c])
    /\ cpc' = [cpc EXCEPT ![c] = "ask"]
    /\ UNCHANGED <<routed, req_i, req, sent, mem, reply, serving, buf, posted, broken,
                   sglist, starved>>

TakeThreadIds(c) ==
    /\ cpc[c] = "ask"
    /\ reply[c] # <<>>
    /\ routed' = [routed EXCEPT ![c] = Append(@, Head(reply[c]))]
    /\ reply' = [reply EXCEPT ![c] = Tail(@)]
    /\ cpc' = [cpc EXCEPT ![c] = IF Len(routed[c]) + 1 < servers THEN "connect" ELSE "ready"]
    /\ UNCHANGED <<req_i, req, sent, mem, serverVars, starved>>

(* Run: once every thread is ready, the client goes to its second barrier. *)
ThreadsReady ==
    /\ At(Client, "threads")
    /\ \A c \in Clients : cpc[c] = "ready"
    /\ Goto(Client, "barrier")
    /\ meeting' = [meeting EXCEPT ![Client] = "clients start"]
    /\ UNCHANGED <<servers, loadVars, memcached, node, seen, clientsSeen, peers, linked,
                   startVars, rpcVars>>

(* start_flag_ lets a thread go.                                           *)
SeeStartFlag(c) ==
    /\ cpc[c] = "ready"
    /\ At(Client, "started")
    /\ cpc' = [cpc EXCEPT ![c] = "run"]
    /\ UNCHANGED <<routed, req_i, req, sent, serverVars, mem, reply, starved>>

---------------------------------------------------------------------------
(* Requests.                                                               *)

(* The keys that go to server s; the wrapper cuts them at 500.             *)
Part(keys, s) ==
    LET mine == SelectSeq(keys, LAMBDA k : KeyPartition(k) = s) IN
    IF servers = 1 THEN keys ELSE SubSeq(mine, 1, Min({ShardCut, Len(mine)}))

NextSlot(c) == req_i' = [req_i EXCEPT ![c] = (@ % AsyncReqNum) + 1]

Sending(c, i) == req[c][i].type = "get" /\ Len(req[c][i].polls) < servers
Running(c, i) == req[c][i].type # "none" /\ ~ Sending(c, i)

MayBegin(c) ==
    /\ cpc[c] = "run"
    /\ req[c][req_i[c]].type = "none"
    /\ sent[c] < MaxRequests

BeginGet(c) ==
    /\ MayBegin(c)
    /\ \E keys \in Samples :
        req' = [req EXCEPT ![c][req_i[c]] = [NoRequest EXCEPT !.type = "get", !.keys = keys]]
    /\ sent' = [sent EXCEPT ![c] = @ + 1]
    /\ UNCHANGED <<cpc, routed, req_i, serverVars, mem, reply, starved>>

(* Faulty variants: the word polled lies behind the answer, or in the cell *)
(* before the last; a PUT polls like a GET.                                *)
PollAfterLast(i, s, n) == Base(i, s) + n + 1
PollBeforeLast(i, s, n) == Base(i, s) + IF n > 1 THEN n - 1 ELSE n
PollOfPutLast(i) == Base(i, 0) + Batch

(* The last word of the answer of n cells to a GET, and the first of the   *)
(* answer to a PUT.                                                        *)
PollOfGet(i, s, n) == Base(i, s) + n
PollOfPut(i) == Base(i, 0) + 1

(* WqRPCParameterClient::GetParameter for the next server.  round_robin is *)
(* a static without a lock: either of the two ids may be chosen.           *)
SendGet(c) ==
    LET i == req_i[c]
        s == Len(req[c][i].polls)
        part == Part(req[c][i].keys, s)
        poll == PollOfGet(i, s, Len(part)) IN
    /\ cpc[c] = "run"
    /\ Sending(c, i)
    /\ mem' = [mem EXCEPT ![c][poll] = FinishMagic]
    /\ \E id \in ToSet(routed[c][s + 1]) :
        inbox' = Delivered(s, id, [type |-> "get", client |-> c, slot |-> i,
                                   keys |-> part, addr |-> Base(i, s)])
    /\ req' = [req EXCEPT ![c][i].polls = Append(@, poll)]
    /\ IF s + 1 = servers THEN NextSlot(c) ELSE UNCHANGED req_i
    /\ starved' = (starved \/ part = <<>>)
    /\ UNCHANGED <<cpc, routed, sent, reply, serving, buf, posted, broken, sglist>>

(* WqRPCParameterClient::FakePutParameter polls the first word.            *)
SendPut(c) ==
    LET i == req_i[c] IN
    /\ MayBegin(c)
    /\ servers = 1
    /\ \E keys \in Samples, id \in ToSet(routed[c][1]) :
        /\ req' = [req EXCEPT ![c][i] = [NoRequest EXCEPT
                      !.type = "put", !.keys = keys, !.polls = <<PollOfPut(i)>>]]
        /\ inbox' = Delivered(0, id, [type |-> "put", client |-> c, slot |-> i,
                                      keys |-> keys, addr |-> Base(i, 0)])
    /\ mem' = [mem EXCEPT ![c][PollOfPut(i)] = FinishMagic]
    /\ sent' = [sent EXCEPT ![c] = @ + 1]
    /\ NextSlot(c)
    /\ UNCHANGED <<cpc, routed, reply, serving, buf, posted, broken, sglist, starved>>

(* The wrapper has no FakePutParameter: the base class aborts.             *)
AbortPut(c) ==
    /\ MayBegin(c)
    /\ servers > 1
    /\ cpc' = [x \in Clients |-> "aborted"]
    /\ UNCHANGED <<routed, req_i, req, sent, serverVars, mem, reply, starved>>

(* QueryRPCFinished.                                                       *)
Finished(c, i) ==
    Running(c, i) /\ \A a \in ToSet(req[c][i].polls) : mem[c][a] # FinishMagic

(* A look at the slot: a finished request is checked and revoked, the slot *)
(* of an idle client that may not send any more is left alone.             *)
Visit(c) ==
    LET i == req_i[c] IN
    /\ cpc[c] = "run"
    /\ Running(c, i) \/ (req[c][i].type = "none" /\ sent[c] >= MaxRequests)
    /\ req' = IF Finished(c, i) THEN [req EXCEPT ![c][i] = NoRequest] ELSE req
    /\ NextSlot(c)
    /\ UNCHANGED <<cpc, routed, sent, serverVars, mem, reply, starved>>

(* What the wrapper's callback gathers for the j-th key.                   *)
Answer(c, i, j) ==
    LET keys == req[c][i].keys
        s == KeyPartition(keys[j])
        n == Len(SelectSeq(SubSeq(keys, 1, j), LAMBDA k : KeyPartition(k) = s)) IN
    mem[c][Base(i, s) + n]

---------------------------------------------------------------------------
(* The polling threads.                                                    *)

NextMessage(s, i) == Head(inbox[s][dsmId[s][i]])

Receives(s, i, type) ==
    /\ Registered(s, i)
    /\ inbox[s][dsmId[s][i]] # <<>>
    /\ NextMessage(s, i).type = type
    /\ inbox' = [inbox EXCEPT ![s][dsmId[s][i]] = Tail(@)]

(* The two ids told to a client that asks when n have been handed out.     *)
ServingIds(n) == <<n % ThreadCount, (n + 1) % ThreadCount>>

(* The answer goes to the client's node, if the server has connected to it.*)
RpcGetServerServingThreadIDs(s, i) ==
    /\ Receives(s, i, "ids")
    /\ reply' = IF linked[s][Client] = "none" THEN reply
                ELSE [reply EXCEPT ![NextMessage(s, i).client] = Append(@, ServingIds(serving[s]))]
    /\ serving' = [serving EXCEPT ![s] = @ + 2]
    /\ UNCHANGED <<stored, buf, posted, broken, sglist, mem, clientVars, starved>>

(* The answer is put into the thread's one RDMA buffer, over what is there *)
(* (the requests whose answers have not left it are recorded as spoiled),  *)
(* and a write of its length is handed to the NIC, with the key of the     *)
(* memory region that the buffer is taken to be in.                        *)
PostAnswer(s, i, cells, lkey) ==
    LET m == NextMessage(s, i)
        w == [client |-> m.client, slot |-> m.slot, addr |-> m.addr,
              len |-> Len(cells), lkey |-> lkey, done |-> 0]
        hit(c, x) == cells # <<>> /\ \E v \in ToSet(posted[s][i]) : v.client = c /\ v.slot = x IN
    /\ buf' = [buf EXCEPT ![s][i] = [n \in 1 .. MaxKvNum |->
                    IF n <= Len(cells) THEN cells[n] ELSE @[n]]]
    /\ posted' = [posted EXCEPT ![s][i] = Append(@, w)]
    /\ req' = [c \in Clients |-> [x \in Slots |->
                    [req[c][x] EXCEPT !.spoiled = @ \/ hit(c, x)]]]
    /\ UNCHANGED <<cpc, routed, req_i, sent, serving, broken, sglist, mem, reply, starved>>

(* BatchGet: the value of a key that is not stored has no bytes.           *)
BatchGet(s, keys) == SelectSeq(keys, LAMBDA k : k \in stored[s])

(* With use_sglist the answer is sent by write_from_pm_vec, with the key   *)
(* of the engine's memory, else by write, with the key of the buffer's.    *)
RpcPsGet(s, i) ==
    /\ Receives(s, i, "get")
    /\ PostAnswer(s, i, BatchGet(s, NextMessage(s, i).keys), IF sglist THEN "global" ELSE "cache")
    /\ UNCHANGED stored

RpcPsPut(s, i) ==
    /\ Receives(s, i, "put")
    /\ stored' = [stored EXCEPT ![s] = @ \cup ToSet(NextMessage(s, i).keys)]
    /\ PostAnswer(s, i, <<Ack>>, "cache")

(* A write can be carried out if the queue pair works and was connected    *)
(* with the client's queue pair numbers, and if the buffer lies in the     *)
(* region of the key (a write of nothing reads no buffer).                 *)
Writable(s, i, w) ==
    /\ i \notin broken[s]
    /\ linked[s][Client] = "full"
    /\ w.lkey = "cache" \/ w.len = 0

(* The NIC writes the oldest answer, cell by cell in the order of the      *)
(* addresses, as the buffer is when it reads it.                           *)
NicWrite(s, i) ==
    LET w == Head(posted[s][i])
        d == w.done + 1 IN
    /\ posted[s][i] # <<>>
    /\ Writable(s, i, w)
    /\ posted' = [posted EXCEPT ![s][i] =
                    IF d >= w.len THEN Tail(@) ELSE [@ EXCEPT ![1].done = d]]
    /\ mem' = IF d <= w.len THEN [mem EXCEPT ![w.client][w.addr + d] = buf[s][i][d]]
              ELSE mem
    /\ UNCHANGED <<stored, clientVars, inbox, serving, buf, broken, sglist, reply, starved>>

(* A write that cannot is completed with an error, which nobody looks at,  *)
(* and leaves the queue pair in the error state.                           *)
NicFail(s, i) ==
    /\ posted[s][i] # <<>>
    /\ ~ Writable(s, i, Head(posted[s][i]))
    /\ posted' = [posted EXCEPT ![s][i] = Tail(@)]
    /\ broken' = [broken EXCEPT ![s] = @ \cup {i}]
    /\ UNCHANGED <<stored, clientVars, inbox, serving, buf, sglist, mem, reply, starved>>

---------------------------------------------------------------------------
(* The cluster.                                                            *)

ClientStep(c) ==
    /\ \/ AskThreadIds(c) \/ TakeThreadIds(c) \/ SeeStartFlag(c)
       \/ BeginGet(c) \/ SendGet(c) \/ SendPut(c) \/ AbortPut(c) \/ Visit(c)
    /\ UNCHANGED setUpVars

Serve(s, i) ==
    /\ \/ RpcGetServerServingThreadIDs(s, i) \/ RpcPsGet(s, i) \/ RpcPsPut(s, i)
    /\ UNCHANGED <<servers, main, flags, cursor, warmCount, report, keeperVars, startVars>>

Nic(s, i) == (NicWrite(s, i) \/ NicFail(s, i)) /\ UNCHANGED setUpVars

Prepare ==
    /\ \/ Load /\ UNCHANGED <<keeperVars, startVars>>
       \/ Keeper /\ UNCHANGED startVars
       \/ Startup
    /\ UNCHANGED rpcVars

StartingInit ==
    /\ LoadInit /\ KeeperInit /\ StartInit /\ RpcInit
    /\ cpc = [c \in Clients |-> "connect"]
    /\ routed = [c \in Clients |-> <<>>]
    /\ serving = [s \in Servers |-> 0]
    /\ sglist = FALSE

(* A cluster that has loaded its keys and started, whose client has its    *)
(* routes and uses the library without the second barrier of the benchmark *)
(* (where it would stay, see StartFlagRaised).  main may have registered   *)
(* before the last polling thread, but not as thread 0, which has answered *)
(* the client; a server may have connected with the bare data of the       *)
(* client.                                                                 *)
ServingInit ==
    /\ servers \in Deployments
    /\ flags = {"preload"}
    /\ main = [p \in Processes |-> IF p = Client THEN "started" ELSE "serve"]
    /\ cursor = [s \in Servers |-> [i \in Loaders |-> Limit(i, WarmThreads)]]
    /\ stored = [s \in Servers |-> WarmKeys(s)]
    /\ warmCount = [s \in Servers |-> Cardinality(WarmKeys(s))]
    /\ report = [s \in Servers |-> TRUE]
    /\ serverNum = servers /\ clientNum = ExpectedClients /\ open = TRUE
    /\ meta = [a \in Nodes |-> [b \in Nodes |-> IF a = b THEN "none" ELSE "full"]]
    /\ count = [b \in Barriers |-> IF b = "DSM-init" THEN Parties(b) ELSE NoKey]
    /\ node = [p \in Processes |-> p]
    /\ seen = [p \in Processes |-> servers]
    /\ clientsSeen = [p \in Processes |-> ExpectedClients]
    /\ peers = [p \in Processes |-> <<>>]
    /\ \E data \in [Servers -> {"bare", "full"}] :
        linked = [p \in Processes |-> [a \in Nodes |->
                    IF a = p THEN "none"
                    ELSE IF a = Client THEN data[p] ELSE "full"]]
    /\ meeting = [p \in Processes |-> "DSM-init"]
    /\ ready = [s \in Servers |-> TRUE]
    /\ mainId \in [Servers -> 1 .. ThreadCount]
    /\ dsmId = [s \in Servers |-> [i \in PollingThreads |->
                    IF i < mainId[s] THEN i ELSE i + 1]]
    /\ appID = [s \in Servers |-> ThreadCount + 1]
    /\ RpcInit
    /\ cpc = [c \in Clients |-> "ready"]
    /\ \E turn \in [Servers -> Bijection(Clients, 0 .. Cardinality(Clients) - 1)] :
        routed = [c \in Clients |-> [n \in 1 .. servers |-> ServingIds(2 * turn[n - 1][c])]]
    /\ serving = [s \in Servers |-> 2 * Cardinality(Clients)]
    /\ sglist \in BOOLEAN

Init == StartingInit \/ ServingInit

SetUp == Prepare \/ ThreadsReady

ServerSide == \E s \in Servers, i \in PollingThreads : Serve(s, i) \/ Nic(s, i)

Next == SetUp \/ ServerSide \/ \E c \in Clients : ClientStep(c)

(* The loops of the threads have no blocking wait, so each of them keeps   *)
(* running, and the NIC keeps writing.  It is enough that some server      *)
(* thread or NIC runs as long as one has something to do.                  *)
Fairness ==
    /\ WF_vars(SetUp)
    /\ WF_vars(ServerSide)
    /\ \A c \in Clients : WF_vars(ClientStep(c))

Spec == Init /\ [][Next]_vars /\ Fairness

---------------------------------------------------------------------------
(* Properties.                                                             *)

TypeOK ==
    /\ servers \in Deployments
    /\ stored \in [Servers -> SUBSET Keys]
    /\ dsmId \in [Servers -> [PollingThreads -> {NoId} \cup 0 .. ThreadCount]]
    /\ \A c \in Clients : mem[c] \in [Memory -> Keys \cup {FinishMagic, Ack, Blank}]
    /\ \A c \in Clients, i \in Slots : ToSet(req[c][i].polls) \subseteq Memory

(* A server that goes on to serve after a preload has every key that was   *)
(* to be loaded and that KeyPartition sends to it: the threads' ranges     *)
(* leave no key out, whatever the division (load_db.h:28-31, 56-57).       *)
WarmKeysServed ==
    \A s \in Servers :
        ("preload" \in flags /\ main[s] \notin {"count", "load"}) => WarmKeys(s) \subseteq stored[s]

(* After a preload CheckDBLoad says "All warmed KVs inserted" of a server  *)
(* only when they are, although it counts with other ranges than the       *)
(* loader (load_db.h:109-112, 161-167).                                    *)
ReportsTruth ==
    \A s \in Servers : ("preload" \in flags /\ main[s] \notin {"count", "load"}) =>
        (report[s] <=> WarmKeys(s) \subseteq stored[s])

(* When the client's threads ask for routes, every process has the node id *)
(* that it should have, the client has connected with the data of every    *)
(* server, every server has connected to the client, so that it can answer *)
(* it, and has begun to register its threads: the servers leave out the    *)
(* barrier of the constructor, and the client counts itself twice while    *)
(* they look (Keeper.cpp:128-211, 214-322, DSMKeeper.cpp:179-326).         *)
ClientMeetsServers ==
    main[Client] \in {"threads", "started"} =>
        /\ \A p \in Processes : node[p] = p
        /\ \A s \in Servers : linked[Client][s] # "none" /\ linked[s][Client] # "none"
        /\ \A s \in Servers : ready[s] /\ mainId[s] # NoId

(* A GET that the client takes as finished has the value of every key it   *)
(* asked for in that key's place, unless the server reused its buffer for  *)
(* another answer before the NIC had read this one: the word polled is the *)
(* last one written, and no other request touches the slot's buffers       *)
(* (petps_client.cc:91-95, allshards_ps_client.h:47-96).                   *)
AnswersOwnKeys ==
    \A c \in Clients, i \in Slots :
        (req[c][i].type = "get" /\ Finished(c, i) /\ ~ req[c][i].spoiled) =>
            \A j \in 1 .. Batch : Answer(c, i, j) = req[c][i].keys[j]

(* The check of the client, CheckEmbDebug, which makes no exception.       *)
ClientCheckPasses ==
    \A c \in Clients, i \in Slots :
        (req[c][i].type = "get" /\ Finished(c, i)) =>
            \A j \in 1 .. Batch : Answer(c, i, j) = req[c][i].keys[j]

(* What can go wrong in a start, as only the time that passes between the  *)
(* steps of different processes prevents it: a process has ended (as the   *)
(* flags ask for, by a failed check of its id, or as a client that came    *)
(* before the last server), a server has read serverNum before the last    *)
(* one entered, or main has registered before a polling thread.            *)
MainFirst(s) == mainId[s] # NoId /\ mainId[s] < ThreadCount

Misstart ==
    \/ \E p \in Processes : main[p] \in {"exited", "aborted", "crashed"}
    \/ \E p \in Processes : seen[p] # Missing /\ seen[p] < servers
    \/ \E s \in Servers : MainFirst(s)

(* Else the cluster comes up: nobody waits for data that nobody leaves,    *)
(* and every client thread is told its routes by every server              *)
(* (Keeper.cpp:214-322, DSMKeeper.cpp:41-73, 179-326, petps_client.cc:39). *)
ClusterStarts == <>(Misstart \/ \A c \in Clients : cpc[c] \in {"ready", "run", "aborted"})

(* Once all threads of the client are ready, start_flag_ is raised         *)
(* (benchmark_client_common.h:159-163).                                    *)
StartFlagRaised == (\A c \in Clients : cpc[c] = "ready") ~> main[Client] = "started"

(* A request under way that gets its answer: a PUT or a GET of loaded keys,*)
(* with use_sglist off, servers that have the client's full data, main the *)
(* last thread to register everywhere, and no request so far that left a   *)
(* server without a key.  (The word polled for such a server is the last   *)
(* of another buffer, and is never written.)                               *)
Answerable(c, i) ==
    /\ Running(c, i)
    /\ req[c][i].type = "get" => ToSet(req[c][i].keys) \subseteq 1 .. WarmCapacity
    /\ ~ starved /\ ~ sglist
    /\ \A s \in Servers : linked[s][Client] = "full" /\ ~ MainFirst(s)

(* Every such request is finished in the end, however the requests of the  *)
(* slots interleave and answers are overwritten (petps_client.cc:91-173,   *)
(* petps_server.cc:163-305).                                               *)
RequestsFinish ==
    \A c \in Clients, i \in Slots :
        Answerable(c, i) ~> (req[c][i].type = "none" \/ starved \/ cpc[c] = "aborted")
===========================================================================
