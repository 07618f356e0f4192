----------------------------- MODULE DSMKeeper -----------------------------
(***************************************************************************)
(* How the processes of a cluster find each other (Keeper, DSMKeeper and   *)
(* the constructor of DSM): through memcached, which holds two counters,   *)
(* the connection data that each node leaves for each other one, and one   *)
(* counter per barrier.  A node id is what the counters said when the      *)
(* process entered; it should be the process's GlobalID().                 *)
(*                                                                         *)
(* One client process is expected, as everywhere in the code               *)
(* (expectedClientNR).  memcached has just been restarted: its keys are    *)
(* missing, or the script has set the two counters to "0".                 *)
(***************************************************************************)
EXTENDS LoadDB, Sequences

VARIABLES serverNum,   \* memcached: serverNum, or NoKey
          clientNum,   \* memcached: clientNum, or NoKey
          open,        \* memcached: xmh-consistent-dsm is at least 1
          meta,        \* memcached: node -> node -> the data left for it
          count,       \* memcached: barrier -> its counter, or NoKey
          node,        \* process -> myNodeID
          seen,        \* process -> the serverNum it read
          clientsSeen, \* process -> the clientNum it read
          peers,       \* process -> the nodes it has still to connect to
          linked,      \* process -> node -> the data it connected with
          meeting      \* process -> the barrier it is in or will be in

memcached == <<serverNum, clientNum, open, meta, count>>
keeperVars == <<memcached, node, seen, clientsSeen, peers, linked, meeting>>

NoKey == -1
Missing == -1                \* a number not read or not given yet
ExpectedClients == 1
Nodes == 0 .. servers
Barriers == {"DSM-init", "clients start"}

(* What a counter says to a reader that takes a missing one for 0.         *)
Number(key) == IF key = NoKey THEN 0 ELSE key

KeeperInit ==
    /\ \E n \in {NoKey, 0} : serverNum = n /\ clientNum = n
    /\ open = FALSE
    /\ meta = [a \in Nodes |-> [b \in Nodes |-> "none"]]
    /\ count = [b \in Barriers |-> NoKey]
    /\ node = [p \in Processes |-> Missing]
    /\ seen = [p \in Processes |-> Missing]
    /\ clientsSeen = [p \in Processes |-> Missing]
    /\ peers = [p \in Processes |-> <<>>]
    /\ linked = [p \in Processes |-> [a \in Nodes |-> "none"]]
    /\ meeting = [p \in Processes |-> "DSM-init"]

At(p, label) == main[p] = label
Goto(p, label) == main' = [main EXCEPT ![p] = label]

---------------------------------------------------------------------------
(* serverEnter, for a server.                                              *)

(* The counter is set to 0 if it is not there, in two operations.          *)
EnterServer(s) ==
    /\ At(s, "enter")
    /\ Goto(s, IF serverNum = NoKey THEN "zero" ELSE "incr")
    /\ UNCHANGED keeperVars

ZeroServerNum(s) ==
    /\ At(s, "zero")
    /\ serverNum' = 0
    /\ Goto(s, "incr")
    /\ UNCHANGED <<clientNum, open, meta, count, node, seen, clientsSeen, peers, linked, meeting>>

CountServer(s) ==
    /\ At(s, "incr")
    /\ serverNum' = serverNum + 1
    /\ node' = [node EXCEPT ![s] = serverNum]
    /\ Goto(s, "announce")
    /\ UNCHANGED <<clientNum, open, meta, count, seen, clientsSeen, peers, linked, meeting>>

Announce(s) ==
    /\ At(s, "announce")
    /\ open' = TRUE
    /\ Goto(s, "store")
    /\ UNCHANGED <<serverNum, clientNum, meta, count, node, seen, clientsSeen, peers, linked, meeting>>

---------------------------------------------------------------------------
(* serverEnter, for the client.                                            *)

EnterClient ==
    /\ At(Client, "enter")
    /\ node' = [node EXCEPT ![Client] = Number(serverNum)]
    /\ Goto(Client, "reserve")
    /\ UNCHANGED <<memcached, seen, clientsSeen, peers, linked, meeting>>

(* Only the client writes clientNum.                                       *)
ReserveClient ==
    /\ At(Client, "reserve")
    /\ clientNum' = Number(clientNum) + 1
    /\ node' = [node EXCEPT ![Client] = @ + Number(clientNum)]
    /\ Goto(Client, "await")
    /\ UNCHANGED <<serverNum, open, meta, count, seen, clientsSeen, peers, linked, meeting>>

(* It waits for a server, and counts itself again from 0.                  *)
ZeroClientNum ==
    /\ At(Client, "await")
    /\ open
    /\ clientNum' = 0
    /\ Goto(Client, "incr")
    /\ UNCHANGED <<serverNum, open, meta, count, node, seen, clientsSeen, peers, linked, meeting>>

(* The constructor of DSM ends the process if its id is that of a server.  *)
CountClient ==
    /\ At(Client, "incr")
    /\ clientNum' = clientNum + 1
    /\ Goto(Client, IF node[Client] < servers THEN "exited" ELSE "store")
    /\ UNCHANGED <<serverNum, open, meta, count, node, seen, clientsSeen, peers, linked, meeting>>

---------------------------------------------------------------------------
(* DSMKeeper::run.                                                         *)

(* A node other than the first leaves its data for every server before it  *)
(* has filled in its queue pairs.                                          *)
StoreMeta(p) ==
    LET me == node[p] IN
    /\ At(p, "store")
    /\ meta' = IF me = 0 THEN meta
               ELSE [meta EXCEPT ![me] = [b \in Nodes |-> IF b \in Servers THEN "bare" ELSE @[b]]]
    /\ Goto(p, "read")
    /\ UNCHANGED <<serverNum, clientNum, open, count, node, seen, clientsSeen, peers, linked, meeting>>

(* serverConnect reads the two counters once.  The client takes the branch *)
(* of a server as well, its id being below maxServer = machineNR.          *)
ReadServerNum(p) ==
    /\ At(p, "read")
    /\ seen' = [seen EXCEPT ![p] = Number(serverNum)]
    /\ Goto(p, "readClients")
    /\ UNCHANGED <<memcached, node, clientsSeen, peers, linked, meeting>>

(* The ids from a up to, not including, b, but for the process's own.      *)
Others(p, a, b) ==
    SelectSeq([i \in 1 .. b - a |-> a + i - 1], LAMBDA n : n # node[p])

ReadClientNum(p) ==
    LET clients == Number(clientNum) IN
    /\ At(p, "readClients")
    /\ clientsSeen' = [clientsSeen EXCEPT ![p] = clients]
    /\ peers' = [peers EXCEPT ![p] = Others(p, 0, seen[p])
                                     \o Others(p, servers, servers + clients)]
    /\ Goto(p, "connect")
    /\ UNCHANGED <<memcached, node, seen, linked, meeting>>

(* connectNode: leave the data for the peer, then wait for what it left.   *)
PutMeta(p) ==
    /\ At(p, "connect")
    /\ peers[p] # <<>>
    /\ meta' = [meta EXCEPT ![node[p]][Head(peers[p])] = "full"]
    /\ Goto(p, "get")
    /\ UNCHANGED <<serverNum, clientNum, open, count, node, seen, clientsSeen, peers, linked, meeting>>

GetMeta(p) ==
    LET n == Head(peers[p]) IN
    /\ At(p, "get")
    /\ meta[n][node[p]] # "none"
    /\ linked' = [linked EXCEPT ![p][n] = meta[n][node[p]]]
    /\ peers' = [peers EXCEPT ![p] = Tail(@)]
    /\ Goto(p, "connect")
    /\ UNCHANGED <<memcached, node, seen, clientsSeen, meeting>>

(* One turn of the loop that waits for late clients and finds one.         *)
PollClients(p) ==
    /\ At(p, "connect")
    /\ peers[p] = <<>>
    /\ clientsSeen[p] < ExpectedClients
    /\ Number(clientNum) > clientsSeen[p]
    /\ peers' = [peers EXCEPT ![p] =
                    Others(p, servers + clientsSeen[p], servers + clientNum)]
    /\ clientsSeen' = [clientsSeen EXCEPT ![p] = clientNum]
    /\ UNCHANGED <<main, memcached, node, seen, linked, meeting>>

(* A faulty variant: nobody waits for late clients.                        *)
AllClientsSeenAtOnce(p) == TRUE

AllClientsSeen(p) == clientsSeen[p] >= ExpectedClients

(* The constructor ends: the client goes to the barrier in it; a server    *)
(* skips that and checks its id.                                           *)
Constructed(p) ==
    /\ At(p, "connect")
    /\ peers[p] = <<>>
    /\ AllClientsSeen(p)
    /\ Goto(p, IF p = Client THEN "barrier" ELSE IF node[p] = p THEN "start" ELSE "aborted")
    /\ UNCHANGED keeperVars

---------------------------------------------------------------------------
(* DSMKeeper::barrier.                                                     *)

(* A faulty variant: the barrier does not wait for the client.             *)
ServersOnly(b) == IF b = "DSM-init" THEN servers ELSE ExpectedClients

(* What a barrier waits for: machineNR, or NumClients().                   *)
Parties(b) == IF b = "DSM-init" THEN servers + ExpectedClients ELSE ExpectedClients

Counted(p, n) ==
    /\ count' = [count EXCEPT ![meeting[p]] = n]
    /\ UNCHANGED <<serverNum, clientNum, open, meta, node, seen, clientsSeen, peers, linked, meeting>>

(* Node 0 sets the counter to 0 and then adds itself.                      *)
BarrierSet(p) ==
    /\ At(p, "barrier")
    /\ node[p] = 0
    /\ Counted(p, 0)
    /\ Goto(p, "first")

BarrierFirst(p) ==
    /\ At(p, "first")
    /\ Counted(p, count[meeting[p]] + 1)
    /\ Goto(p, "wait")

(* Any other node waits for that before it adds itself.                    *)
BarrierJoin(p) ==
    /\ At(p, "barrier")
    /\ node[p] # 0
    /\ count[meeting[p]] >= 1
    /\ Counted(p, count[meeting[p]] + 1)
    /\ Goto(p, "wait")

(* Everybody leaves when the counter has the value asked for.  A server    *)
(* then only prints its throughput; the client checks its id and starts    *)
(* its threads, and after its second barrier raises start_flag_.           *)
BarrierPass(p) ==
    /\ At(p, "wait")
    /\ count[meeting[p]] = Parties(meeting[p])
    /\ Goto(p, IF p # Client THEN "serve"
               ELSE IF meeting[p] = "clients start" THEN "started"
               ELSE IF node[p] = p THEN "threads" ELSE "aborted")
    /\ UNCHANGED keeperVars

Barrier(p) == BarrierSet(p) \/ BarrierFirst(p) \/ BarrierJoin(p) \/ BarrierPass(p)

---------------------------------------------------------------------------

Keeper ==
    /\ \/ \E s \in Servers :
            EnterServer(s) \/ ZeroServerNum(s) \/ CountServer(s) \/ Announce(s)
       \/ EnterClient \/ ReserveClient \/ ZeroClientNum \/ CountClient
       \/ \E p \in Processes :
            \/ StoreMeta(p) \/ ReadServerNum(p) \/ ReadClientNum(p)
            \/ PutMeta(p) \/ GetMeta(p) \/ PollClients(p) \/ Constructed(p)
            \/ Barrier(p)
    /\ UNCHANGED <<servers, loadVars>>
===========================================================================
