------------------------------- MODULE LoadDB -------------------------------
(***************************************************************************)
(* What the main thread of a parameter server does before it serves:       *)
(* LoadDBHelper::PreLoadDB fills the engine with the warm keys of its own  *)
(* shard from several threads, CheckDBLoad counts them.  The flags preload,*)
(* exit and check_all_inserted say which of the two run and whether the    *)
(* process ends then; all servers are started with the same ones.          *)
(*                                                                         *)
(* The engine is the set of keys stored in it.  A key stands for its value *)
(* as well: the loader fills the embedding of a key with the key.          *)
(***************************************************************************)
EXTENDS Integers, FiniteSetsExt

CONSTANTS Keys,          \* 1 .. key_space_m * 1024 * 1024
          Hash,          \* GetHash
          Deployments,   \* the numbers of servers a cluster is started with
          WarmCapacity,  \* key_space * warmup_ratio
          WarmThreads,   \* warmup_thread_num
          CheckThreads   \* 36 in the code

ASSUME LoadAssumption ==
    /\ Keys \subseteq Nat \ {0}
    /\ Hash \in [Keys -> Nat]
    /\ Deployments \subseteq Nat \ {0}
    /\ WarmCapacity \in Nat /\ 1 .. WarmCapacity \subseteq Keys
    /\ {WarmThreads, CheckThreads} \subseteq Nat \ {0}

VARIABLES servers,    \* NumServers()
          flags,      \* those of "preload", "exit" and "check" that are set
          main,       \* process -> where main() is
          stored,     \* server -> the keys in its engine
          cursor,     \* server -> loader thread -> its j
          warmCount,  \* server -> warmup_kv_count_in_this_ps_
          report      \* server -> CheckDBLoad found all warm keys

loadVars == <<flags, stored, cursor, warmCount, report>>

(* The servers, and behind them the one client process, by GlobalID().     *)
Servers == 0 .. servers - 1
Client == servers
Processes == Servers \cup {Client}
KeyPartition(k) == Hash[k] % servers
WarmKeys(s) == {k \in 1 .. WarmCapacity : KeyPartition(k) = s}

---------------------------------------------------------------------------
(* The range of keys of thread i of n: from First up to, not including,    *)
(* Limit.                                                                  *)

(* A faulty variant: the keys left over by the division have no thread.    *)
FloorPerThread(n) == WarmCapacity \div n

KvPerThread(n) == (WarmCapacity + n - 1) \div n

First(i, n) == 1 + i * KvPerThread(n)
Limit(i, n) == Min({WarmCapacity + 1, 1 + (i + 1) * KvPerThread(n)})

Loaders == 0 .. WarmThreads - 1

(* What follows the load, or takes its place.                             *)
AfterLoad == IF "check" \in flags THEN "check" ELSE "enter"

(* Without preload the engine has what an earlier process stored, or       *)
(* nothing, and the count is whatever the memory of the helper holds.      *)
(* (exit is looked at after a preload only.)                               *)
LoadInit ==
    /\ servers \in Deployments
    /\ flags \in {f \in SUBSET {"preload", "exit", "check"} : "exit" \in f => "preload" \in f}
    /\ main = [p \in Processes |-> IF p = Client THEN "enter"
                   ELSE IF "preload" \in flags THEN "count" ELSE AfterLoad]
    /\ cursor = [s \in Servers |-> [i \in Loaders |-> First(i, WarmThreads)]]
    /\ IF "preload" \in flags
       THEN stored = [s \in Servers |-> {}]
       ELSE stored \in {[s \in Servers |-> {}], [s \in Servers |-> WarmKeys(s)]}
    /\ IF flags = {"check"}
       THEN warmCount \in [Servers -> 0 .. WarmCapacity + 1]
       ELSE warmCount = [s \in Servers |-> 0]
    /\ report = [s \in Servers |-> FALSE]

(* PreLoadDB counts the keys that it is going to insert and starts the     *)
(* loader threads.                                                         *)
CountKeys(s) ==
    /\ main[s] = "count"
    /\ warmCount' = [warmCount EXCEPT ![s] = Cardinality(WarmKeys(s))]
    /\ main' = [main EXCEPT ![s] = "load"]
    /\ UNCHANGED <<servers, flags, stored, cursor, report>>

(* One turn of the loop of loader i, which runs until its range is done.   *)
LoadKey(s, i) ==
    LET j == cursor[s][i] IN
    /\ "preload" \in flags /\ main[s] # "count"
    /\ j < Limit(i, WarmThreads)
    /\ stored' = [stored EXCEPT ![s] = @ \cup {k \in {j} : KeyPartition(k) = s}]
    /\ cursor' = [cursor EXCEPT ![s][i] = j + 1]
    /\ UNCHANGED <<servers, flags, main, warmCount, report>>

(* CheckDBLoad: what its threads count together.                           *)
CheckedKeys(s) ==
    {k \in WarmKeys(s) \cap stored[s] :
        \E i \in 0 .. CheckThreads - 1 :
            First(i, CheckThreads) <= k /\ k < Limit(i, CheckThreads)}

(* The report of CheckDBLoad.  Its error message divides by the count.     *)
Report(s, next) ==
    LET found == Cardinality(CheckedKeys(s)) IN
    /\ report' = [report EXCEPT ![s] = found = warmCount[s]]
    /\ main' = [main EXCEPT ![s] =
                   IF found # 0 /\ warmCount[s] = 0 THEN "crashed" ELSE next]
    /\ UNCHANGED <<servers, flags, stored, cursor, warmCount>>

AfterPreload == IF "exit" \in flags THEN "exited" ELSE AfterLoad

(* A faulty variant: the loader threads are not joined before the check.   *)
CheckWithoutJoin(s) == main[s] = "load" /\ Report(s, AfterPreload)

(* The loader threads are joined, then CheckDBLoad reports.                *)
CheckDBLoad(s) ==
    /\ main[s] = "load"
    /\ \A i \in Loaders : cursor[s][i] >= Limit(i, WarmThreads)
    /\ Report(s, AfterPreload)

(* check_all_inserted: CheckDBLoad runs, once more or alone, and main      *)
(* returns.                                                                *)
CheckAllInserted(s) == main[s] = "check" /\ Report(s, "exited")

Load == \E s \in Servers :
    \/ CountKeys(s)
    \/ \E i \in Loaders : LoadKey(s, i)
    \/ CheckDBLoad(s)
    \/ CheckAllInserted(s)
===========================================================================
