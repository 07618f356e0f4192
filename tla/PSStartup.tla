----------------------------- MODULE PSStartup -----------------------------
(***************************************************************************)
(* How a parameter server starts to serve (petps_server.cc) once the       *)
(* processes are connected: main starts the polling threads, raises        *)
(* barrier_ready_, sleeps, registers itself with the DSM and enters the    *)
(* DSM-init barrier, where it meets the other servers and the client.      *)
(*                                                                         *)
(* DSM::registerThread hands out ids in the order of the calls, and        *)
(* requests are addressed to these ids, not to the threads' own numbers.   *)
(* Nothing but the length of the sleep, thread_count_ + 2 seconds, keeps   *)
(* main from registering before a polling thread.                          *)
(***************************************************************************)
EXTENDS DSMKeeper

CONSTANT ThreadNum    \* deployment -> thread_num of every server

ASSUME StartupAssumption == ThreadNum \in [Deployments -> Nat \ {0}]

VARIABLES ready,    \* server -> barrier_ready_
          dsmId,    \* server -> polling thread -> its DSM thread id
          appID,    \* server -> the next id of registerThread
          mainId    \* server -> the DSM thread id of its main thread

startVars == <<ready, dsmId, appID, mainId>>

ThreadCount == ThreadNum[servers]
PollingThreads == 0 .. ThreadCount - 1
NoId == -1

StartInit ==
    /\ ready = [s \in Servers |-> FALSE]
    /\ dsmId = [s \in Servers |-> [i \in PollingThreads |-> NoId]]
    /\ appID = [s \in Servers |-> 0]
    /\ mainId = [s \in Servers |-> NoId]

Registered(s, i) == dsmId[s][i] # NoId

(* Start: the polling threads spin on barrier_ready_ until main, in        *)
(* WaitForBarrier, sets it and goes to sleep.                              *)
RaiseReady(s) ==
    /\ At(s, "start")
    /\ ready' = [ready EXCEPT ![s] = TRUE]
    /\ Goto(s, "sleep")
    /\ UNCHANGED <<dsmId, appID, mainId>>

(* PollingThread leaves its spin loop and registers.                       *)
RegisterPolling(s, i) ==
    /\ ready[s]
    /\ ~ Registered(s, i)
    /\ dsmId' = [dsmId EXCEPT ![s][i] = appID[s]]
    /\ appID' = [appID EXCEPT ![s] = @ + 1]
    /\ UNCHANGED <<main, ready, mainId>>

(* main wakes up, takes the next id and goes to the barrier.               *)
RegisterMain(s) ==
    /\ At(s, "sleep")
    /\ mainId' = [mainId EXCEPT ![s] = appID[s]]
    /\ appID' = [appID EXCEPT ![s] = @ + 1]
    /\ Goto(s, "barrier")
    /\ UNCHANGED <<ready, dsmId>>

Startup ==
    /\ \E s \in Servers :
        \/ RaiseReady(s)
        \/ \E i \in PollingThreads : RegisterPolling(s, i)
        \/ RegisterMain(s)
    /\ UNCHANGED <<servers, loadVars, keeperVars>>
===========================================================================
