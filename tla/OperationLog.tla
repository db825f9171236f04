---------------------------- MODULE OperationLog ----------------------------
(***************************************************************************)
(* The stored operations and those who wait for them: the log keeps the    *)
(* newest and never drops one that is pending (storage.py: save_operation),*)
(* a request for a scan joins a pending one (service.py: start_scan), the  *)
(* results of scans live in the process only, and the tools ask again and  *)
(* again until an operation has ended (api_client.py: wait_for_operation;  *)
(* config_cli.py).  What operations do is in Administration and Register.  *)
(*                                                                         *)
(* Operations are numbered in the order of created_at, which the clock of  *)
(* the host is taken to respect.  Scans hold the adapter lock one after    *)
(* the other, in the order they were requested.                            *)
(***************************************************************************)
EXTENDS Naturals, Sequences, FiniteSets

CONSTANTS
  Kept,          \* 100: operations in the log, and scans with results
  Watchers,      \* people with a tool, and other clients
  NoOperation,
  MaxOps,        \* bound: operations
  MaxBoots       \* bound: restarts

ASSUME LogAssumption ==
  /\ Kept \in Nat \ {0} /\ MaxOps \in Nat /\ MaxBoots \in Nat
  /\ NoOperation \notin 1..MaxOps

VARIABLES
  oplog,      \* the operations table
  issued,     \* the number of the newest operation
  results,    \* _scan_results, oldest first
  booted,     \* history: restarts so far
  ended,      \* history: how each operation ended
  watch       \* what each watcher waits for or has been told

logVars == <<oplog, issued, results, booted, ended, watch>>

OpIds == 1..MaxOps
NotWatching == [at |-> "idle", op |-> NoOperation, boot |-> 0]

LogInit ==
  /\ oplog = <<>>
  /\ issued = 0
  /\ results = <<>>
  /\ booted = 0
  /\ ended = [o \in OpIds |-> "pending"]
  /\ watch = [w \in Watchers |-> NotWatching]

Stored == DOMAIN oplog
PendingOps == {o \in Stored : oplog[o].status = "pending"}
Newest(log) == {o \in DOMAIN log : Cardinality({n \in DOMAIN log : n > o}) < Kept}

\* save_operation writes one operation and prunes the log.
\* Fault: what is pruned may be pending.
PrunableFault(log, o) == TRUE
Prunable(log, o) == log[o].status # "pending"

Pruned(log) ==
  [o \in {o \in DOMAIN log : ~Prunable(log, o) \/ o \in Newest(log)} |-> log[o]]

Put(o, kind, status) ==
  oplog' = Pruned([n \in Stored \cup {o} |->
                     IF n = o THEN [kind |-> kind, status |-> status] ELSE oplog[n]])

Waits(w, o) == watch' = [watch EXCEPT ![w] = [at |-> "waiting", op |-> o, boot |-> booted]]
Told(w, what) == watch' = [watch EXCEPT ![w].at = what]

\* _new_operation, for somebody who waits for it.
Issue(w, kind) ==
  /\ issued < MaxOps
  /\ issued' = issued + 1
  /\ Put(issued', kind, "pending")
  /\ Waits(w, issued')
  /\ UNCHANGED <<results, booted, ended>>

StartConnection(w) ==
  /\ watch[w].at = "idle"
  /\ Issue(w, "connection")

\* start_scan looks for a pending scan among the operations that the API lists.
JoinableScans == {o \in Newest(oplog) \cap PendingOps : oplog[o].kind = "scan"}

StartLogScan(w) ==
  /\ watch[w].at = "idle"
  /\ IF JoinableScans = {} THEN Issue(w, "scan")
     ELSE /\ \E o \in JoinableScans : Waits(w, o)
          /\ UNCHANGED <<oplog, issued, results, booted, ended>>

EndsAs(o, status) ==
  /\ Put(o, oplog[o].kind, status)
  /\ ended' = [ended EXCEPT ![o] = status]

\* Fault: the limit is checked before the new results are stored.
LimitedFault(s) == IF Len(s) >= Kept THEN Tail(s) ELSE s
Limited(s) == IF Len(s) > Kept THEN Tail(s) ELSE s

\* _execute_scan: the results are stored before the operation has succeeded.
ScanSucceeds(o) ==
  /\ o \in PendingOps /\ oplog[o].kind = "scan"
  /\ \A n \in PendingOps : oplog[n].kind = "scan" => o <= n
  /\ results' = Limited(Append(results, o))
  /\ EndsAs(o, "succeeded")
  /\ UNCHANGED <<issued, booted, watch>>

\* Any operation may fail; a connection may succeed.
OtherwiseEnds(o) ==
  /\ o \in PendingOps
  /\ \/ EndsAs(o, "failed")
     \/ oplog[o].kind = "connection" /\ EndsAs(o, "succeeded")
  /\ UNCHANGED <<issued, results, booted, watch>>

\* A new process: interrupt_operations does not prune, and the results are gone.
NewProcess ==
  /\ booted < MaxBoots
  /\ booted' = booted + 1
  /\ oplog' = [o \in Stored |->
                 IF o \in PendingOps THEN [oplog[o] EXCEPT !.status = "failed"] ELSE oplog[o]]
  /\ ended' = [o \in OpIds |-> IF o \in PendingOps THEN "failed" ELSE ended[o]]
  /\ results' = <<>>
  /\ UNCHANGED <<issued, watch>>

(***************************************************************************)
(* Watchers                                                                *)
(***************************************************************************)
\* wait_for_operation asks once more; an unknown operation is an error.
AskOperation(w) ==
  /\ watch[w].at = "waiting"
  /\ watch[w].op \notin PendingOps
  /\ Told(w, IF watch[w].op \notin Stored THEN "missing"
             ELSE IF oplog[watch[w].op].status = "failed" THEN "failed"
             ELSE IF oplog[watch[w].op].kind = "scan" THEN "scanned" ELSE "succeeded")
  /\ UNCHANGED <<oplog, issued, results, booted, ended>>

\* The attempts are used up, or the service cannot be reached.
WaitsNoMore(w) ==
  /\ watch[w].at \in {"waiting", "scanned"}
  /\ Told(w, "unknown")
  /\ UNCHANGED <<oplog, issued, results, booted, ended>>

\* scan_result: an operation without results has found nothing.
AskResults(w) ==
  /\ watch[w].at = "scanned"
  /\ Told(w, IF watch[w].op \notin Stored THEN "missing"
             ELSE IF \E i \in DOMAIN results : results[i] = watch[w].op THEN "succeeded" ELSE "empty")
  /\ UNCHANGED <<oplog, issued, results, booted, ended>>

LeavesTool(w) ==
  /\ watch[w].at \in {"missing", "failed", "succeeded", "empty", "unknown"}
  /\ watch' = [watch EXCEPT ![w] = NotWatching]
  /\ UNCHANGED <<oplog, issued, results, booted, ended>>

Watches(w) ==
  \/ StartConnection(w) \/ StartLogScan(w)
  \/ AskOperation(w) \/ WaitsNoMore(w) \/ AskResults(w) \/ LeavesTool(w)

LogNext ==
  \/ NewProcess
  \/ \E o \in OpIds : ScanSucceeds(o) \/ OtherwiseEnds(o)
  \/ \E w \in Watchers : Watches(w)

LogSpec == LogInit /\ [][LogNext]_logVars

(***************************************************************************)
(* Properties                                                              *)
(***************************************************************************)
\* Every variable keeps its type.
LogTypeOK ==
  /\ Stored \subseteq OpIds
  /\ \A o \in Stored : oplog[o] \in [kind : {"scan", "connection"},
                                     status : {"pending", "succeeded", "failed"}]
  /\ issued \in 0..MaxOps /\ booted \in 0..MaxBoots
  /\ results \in Seq(OpIds) /\ Len(results) <= Kept
  /\ ended \in [OpIds -> {"pending", "succeeded", "failed"}]
  /\ watch \in [Watchers -> [at : {"idle", "waiting", "scanned", "missing", "failed", "succeeded",
                                   "empty", "unknown"},
                            op : OpIds \cup {NoOperation}, boot : 0..MaxBoots]]

\* What a watcher is told is what happened: "failed" and "succeeded" are true, also of a scan
\* that somebody else had asked for, and that the operation is unknown or a scan found nothing
\* is said only of one with as many newer operations as the log keeps, or after a restart.
TruthTold ==
  \A w \in Watchers :
    LET o == watch[w].op
        overtaken == issued >= o + Kept
    IN /\ watch[w].at \in {"failed", "succeeded"} => ended[o] = watch[w].at
       /\ watch[w].at = "missing" => ended[o] # "pending" /\ overtaken
       /\ watch[w].at = "empty" => overtaken \/ booted > watch[w].boot
=============================================================================
