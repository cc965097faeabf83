--------------------------- MODULE SeparationPool ---------------------------
(***************************************************************************)
(* The persistent worker pool of the separation pass                       *)
(* (crates/mmd-engine/src/sim/pool.rs).                                    *)
(*                                                                         *)
(* A ticking thread (a Caller: one clone of the Simulation, every clone    *)
(* holding the same Arc<SeparationPool>) publishes a job descriptor, meets *)
(* the workers at the barrier `gate', runs chunk 0 itself, meets them      *)
(* again at `done', and turns a chunk's panic back into one of its own.    *)
(* The last clone to go away shuts the pool down and joins its workers.    *)
(*                                                                         *)
(* Every atomic access is a step of its own; what lies between two of them *)
(* in one thread is local and is folded into the step before.  The chunk's *)
(* arithmetic is left out: a chunk either completes or panics.             *)
(***************************************************************************)
EXTENDS Naturals, FiniteSets

CONSTANTS
  Workers,    \* the spawned threads, participants 1 .. T - 1
  Callers,    \* the clones of the Simulation that share the pool
  Nobody,     \* the owner of the null job the cell starts with
  MaxTicks    \* bound: the jobs published in a behaviour

ASSUME PoolAssumption ==
  /\ IsFiniteSet(Workers) /\ Workers # {}
  /\ Callers # {} /\ Callers \cap Workers = {}
  /\ Nobody \notin Callers
  /\ MaxTicks \in Nat

VARIABLES
  pc,         \* where each thread stands
  gate,       \* the threads parked at the barrier `gate'
  done,       \* the threads parked at the barrier `done'
  job,        \* whose buffers the job cell points into
  publish,    \* Shared::publish
  completed,  \* Shared::completed
  poisoned,   \* Shared::poisoned
  shutdown,   \* Shared::shutdown
  inUse,      \* Shared::in_use
  seen,       \* each worker's `seen': the epoch it last ran
  mine,       \* each worker's copy of the job: the caller whose buffers it writes
  raised,     \* each caller's `outcome': its own chunk panicked
  broken,     \* history: the callers a chunk of whose current tick panicked
  result      \* how each caller's last call of `run' ended

shared == <<gate, done, job, publish, completed, poisoned, shutdown, inUse>>
vars == <<pc, shared, seen, mine, raised, broken, result>>

Participants == Cardinality(Workers) + 1

CallerPc == {"idle", "write", "publish", "gate", "gateWait", "poison", "done",
             "doneWait", "settle", "drop", "dropGate", "dropWait", "gone"}
WorkerPc == {"gate", "gateWait", "copy", "chunk", "poison", "report", "done",
             "doneWait", "exited"}
Results  == {"none", "ok", "own panic", "worker panic", "rejected"}

\* One type invariant for the module: every shared flag, counter and program
\* counter stays in its range, and a barrier never holds a full house (the
\* last arrival opens it).
TypeOK ==
  /\ pc \in [Workers \cup Callers -> CallerPc \cup WorkerPc]
  /\ gate \subseteq Workers \cup Callers /\ Cardinality(gate) < Participants
  /\ done \subseteq Workers \cup Callers /\ Cardinality(done) < Participants
  /\ job \in Callers \cup {Nobody}
  /\ publish \in 0 .. MaxTicks
  /\ completed \in 0 .. MaxTicks * Cardinality(Workers)
  /\ poisoned \in BOOLEAN /\ shutdown \in BOOLEAN /\ inUse \in BOOLEAN
  /\ seen \in [Workers -> 0 .. MaxTicks]
  /\ mine \in [Workers -> Callers \cup {Nobody}]
  /\ raised \in [Callers -> BOOLEAN]
  /\ broken \subseteq Callers
  /\ result \in [Callers -> Results]

Init ==
  /\ pc = [t \in Workers \cup Callers |-> IF t \in Workers THEN "gate" ELSE "idle"]
  /\ gate = {} /\ done = {}
  /\ job = Nobody
  /\ publish = 0 /\ completed = 0
  /\ poisoned = FALSE /\ shutdown = FALSE /\ inUse = FALSE
  /\ seen = [w \in Workers |-> 0]
  /\ mine = [w \in Workers |-> Nobody]
  /\ raised = [c \in Callers |-> FALSE]
  /\ broken = {}
  /\ result = [c \in Callers |-> "none"]

Goto(t, from, to) == pc[t] = from /\ pc' = [pc EXCEPT ![t] = to]

\* Mutant of Arrive: the last arrival does not open the barrier.
ArriveAndStay(barrier, t) == barrier \cup {t}

\* std::sync::Barrier::wait up to the point where the thread parks: the last of
\* the Participants arrivals empties the barrier, which releases everyone in it.
Arrive(barrier, t) ==
  IF Cardinality(barrier) + 1 = Participants THEN {} ELSE barrier \cup {t}

-----------------------------------------------------------------------------
(* SeparationPool::run, on the ticking thread c.                           *)

\* Mutant of Enter: no test of `in_use'.
EnterUnguarded(c) ==
  /\ publish < MaxTicks
  /\ Goto(c, "idle", "write")
  /\ inUse' = TRUE
  /\ broken' = broken \ {c}
  /\ raised' = [raised EXCEPT ![c] = FALSE]
  /\ UNCHANGED <<gate, done, job, publish, completed, poisoned, shutdown,
                 seen, mine, result>>

\* `in_use.swap(true)' found it free.
Enter(c) ==
  /\ ~inUse
  /\ publish < MaxTicks
  /\ Goto(c, "idle", "write")
  /\ inUse' = TRUE
  /\ broken' = broken \ {c}
  /\ raised' = [raised EXCEPT ![c] = FALSE]
  /\ UNCHANGED <<gate, done, job, publish, completed, poisoned, shutdown,
                 seen, mine, result>>

\* `in_use.swap(true)' found it taken: the assertion panics before any barrier.
Reject(c) ==
  /\ inUse
  /\ pc[c] = "idle"
  /\ result' = [result EXCEPT ![c] = "rejected"]
  /\ UNCHANGED <<pc, shared, seen, mine, raised, broken>>

\* The plain, unsynchronised store of the descriptor into the cell.
WriteJob(c) ==
  /\ Goto(c, "write", "publish")
  /\ job' = c
  /\ UNCHANGED <<gate, done, publish, completed, poisoned, shutdown, inUse,
                 seen, mine, raised, broken, result>>

Publish(c) ==
  /\ Goto(c, "publish", "gate")
  /\ publish' = publish + 1
  /\ UNCHANGED <<gate, done, job, completed, poisoned, shutdown, inUse,
                 seen, mine, raised, broken, result>>

CallerAtGate(c) ==
  /\ Goto(c, "gate", "gateWait")
  /\ gate' = Arrive(gate, c)
  /\ UNCHANGED <<done, job, publish, completed, poisoned, shutdown, inUse,
                 seen, mine, raised, broken, result>>

\* Chunk 0 under catch_unwind.
CallerChunk(c) ==
  /\ c \notin gate
  /\ \E panic \in BOOLEAN :
       /\ Goto(c, "gateWait", IF panic THEN "poison" ELSE "done")
       /\ raised' = [raised EXCEPT ![c] = panic]
       /\ broken' = IF panic THEN broken \cup {c} ELSE broken
  /\ UNCHANGED <<shared, seen, mine, result>>

CallerPoison(c) ==
  /\ Goto(c, "poison", "done")
  /\ poisoned' = TRUE
  /\ UNCHANGED <<gate, done, job, publish, completed, shutdown, inUse,
                 seen, mine, raised, broken, result>>

\* Mutant of CallerAtDone: a caller that does not wait for the workers.
CallerSkipsDone(c) ==
  /\ Goto(c, "done", "settle")
  /\ inUse' = FALSE
  /\ UNCHANGED <<gate, done, job, publish, completed, poisoned, shutdown,
                 seen, mine, raised, broken, result>>

CallerAtDone(c) ==
  /\ Goto(c, "done", "doneWait")
  /\ done' = Arrive(done, c)
  /\ UNCHANGED <<gate, job, publish, completed, poisoned, shutdown, inUse,
                 seen, mine, raised, broken, result>>

\* Past `done': the pool is handed back before the panics are looked at.
CallerLeaves(c) ==
  /\ c \notin done
  /\ Goto(c, "doneWait", "settle")
  /\ inUse' = FALSE
  /\ UNCHANGED <<gate, done, job, publish, completed, poisoned, shutdown,
                 seen, mine, raised, broken, result>>

\* Mutant of Settle: the own-panic arm leaves the flag up for the next tick.
SettleLeavingPoison(c) ==
  /\ Goto(c, "settle", "idle")
  /\ poisoned' = (raised[c] /\ poisoned)
  /\ result' = [result EXCEPT ![c] = CASE raised[c] -> "own panic"
                                       [] ~raised[c] /\ poisoned -> "worker panic"
                                       [] OTHER -> "ok"]
  /\ UNCHANGED <<gate, done, job, publish, completed, shutdown, inUse,
                 seen, mine, raised, broken>>

\* Re-raise: this thread's own panic verbatim, else a worker's if `poisoned'
\* was set; both arms clear the flag.
Settle(c) ==
  /\ Goto(c, "settle", "idle")
  /\ poisoned' = FALSE
  /\ result' = [result EXCEPT ![c] = CASE raised[c] -> "own panic"
                                       [] ~raised[c] /\ poisoned -> "worker panic"
                                       [] OTHER -> "ok"]
  /\ UNCHANGED <<gate, done, job, publish, completed, shutdown, inUse,
                 seen, mine, raised, broken>>
-----------------------------------------------------------------------------
(* Dropping the last Arc: SeparationPool::drop.                            *)

\* A clone of the Simulation goes away; the last one drops the pool.
Release(c) ==
  /\ Goto(c, "idle", IF \A d \in Callers \ {c} : pc[d] = "gone"
                     THEN "drop" ELSE "gone")
  /\ UNCHANGED <<shared, seen, mine, raised, broken, result>>

Shutdown(c) ==
  /\ Goto(c, "drop", "dropGate")
  /\ shutdown' = TRUE
  /\ UNCHANGED <<gate, done, job, publish, completed, poisoned, inUse,
                 seen, mine, raised, broken, result>>

DropAtGate(c) ==
  /\ Goto(c, "dropGate", "dropWait")
  /\ gate' = Arrive(gate, c)
  /\ UNCHANGED <<done, job, publish, completed, poisoned, shutdown, inUse,
                 seen, mine, raised, broken, result>>

Join(c) ==
  /\ c \notin gate
  /\ \A w \in Workers : pc[w] = "exited"
  /\ Goto(c, "dropWait", "gone")
  /\ UNCHANGED <<shared, seen, mine, raised, broken, result>>
-----------------------------------------------------------------------------
(* worker(shared, w)                                                       *)

WorkerAtGate(w) ==
  /\ Goto(w, "gate", "gateWait")
  /\ gate' = Arrive(gate, w)
  /\ UNCHANGED <<done, job, publish, completed, poisoned, shutdown, inUse,
                 seen, mine, raised, broken, result>>

\* Mutant of SeeJob: any epoch but the first reads as a new job.
SeeAnyJob(w) ==
  /\ w \notin gate
  /\ publish > 0
  /\ Goto(w, "gateWait", "copy")
  /\ seen' = [seen EXCEPT ![w] = publish]
  /\ UNCHANGED <<shared, mine, raised, broken, result>>

\* The wait loop leaves by its first arm: the epoch has moved past `seen'.
SeeJob(w) ==
  /\ w \notin gate
  /\ publish # seen[w]
  /\ Goto(w, "gateWait", "copy")
  /\ seen' = [seen EXCEPT ![w] = publish]
  /\ UNCHANGED <<shared, mine, raised, broken, result>>

\* The wait loop leaves by its second arm.  The load of `publish' before it may
\* have been stale: nothing is assumed of the epoch here.
SeeShutdown(w) ==
  /\ w \notin gate
  /\ shutdown
  /\ Goto(w, "gateWait", "exited")
  /\ UNCHANGED <<shared, seen, mine, raised, broken, result>>

CopyJob(w) ==
  /\ Goto(w, "copy", "chunk")
  /\ mine' = [mine EXCEPT ![w] = job]
  /\ UNCHANGED <<shared, seen, raised, broken, result>>

\* Mutant of WorkerChunk: a panic unwinds out of the worker's loop.
WorkerUnwinds(w) ==
  /\ \E panic \in BOOLEAN :
       /\ Goto(w, "chunk", IF panic THEN "exited" ELSE "report")
       /\ broken' = IF panic THEN broken \cup {mine[w]} ELSE broken
  /\ UNCHANGED <<shared, seen, mine, raised, result>>

WorkerChunk(w) ==
  /\ \E panic \in BOOLEAN :
       /\ Goto(w, "chunk", IF panic THEN "poison" ELSE "report")
       /\ broken' = IF panic THEN broken \cup {mine[w]} ELSE broken
  /\ UNCHANGED <<shared, seen, mine, raised, result>>

WorkerPoison(w) ==
  /\ Goto(w, "poison", "report")
  /\ poisoned' = TRUE
  /\ UNCHANGED <<gate, done, job, publish, completed, shutdown, inUse,
                 seen, mine, raised, broken, result>>

\* Mutant of Report: the worker forgets to count itself.
ReportNothing(w) ==
  /\ Goto(w, "report", "done")
  /\ UNCHANGED <<shared, seen, mine, raised, broken, result>>

Report(w) ==
  /\ Goto(w, "report", "done")
  /\ completed' = completed + 1
  /\ UNCHANGED <<gate, done, job, publish, poisoned, shutdown, inUse,
                 seen, mine, raised, broken, result>>

WorkerAtDone(w) ==
  /\ Goto(w, "done", "doneWait")
  /\ done' = Arrive(done, w)
  /\ UNCHANGED <<gate, job, publish, completed, poisoned, shutdown, inUse,
                 seen, mine, raised, broken, result>>

WorkerLeaves(w) ==
  /\ w \notin done
  /\ Goto(w, "doneWait", "gate")
  /\ UNCHANGED <<shared, seen, mine, raised, broken, result>>
-----------------------------------------------------------------------------
\* What thread c does once inside `run' or `drop': it never chooses to stop.
CallerStep(c) ==
  \/ WriteJob(c) \/ Publish(c) \/ CallerAtGate(c) \/ CallerChunk(c)
  \/ CallerPoison(c) \/ CallerAtDone(c) \/ CallerLeaves(c) \/ Settle(c)
  \/ Shutdown(c) \/ DropAtGate(c) \/ Join(c)

WorkerStep(w) ==
  \/ WorkerAtGate(w) \/ SeeJob(w) \/ SeeShutdown(w) \/ CopyJob(w)
  \/ WorkerChunk(w) \/ WorkerPoison(w) \/ Report(w) \/ WorkerAtDone(w)
  \/ WorkerLeaves(w)

\* Every clone is gone and every worker has been joined.
Finished ==
  /\ \A c \in Callers : pc[c] = "gone"
  /\ \A w \in Workers : pc[w] = "exited"
  /\ UNCHANGED vars

Next ==
  \/ \E c \in Callers : Enter(c) \/ Reject(c) \/ Release(c) \/ CallerStep(c)
  \/ \E w \in Workers : WorkerStep(w)
  \/ Finished

\* A runnable thread is eventually scheduled, and an atomic store is eventually
\* visible to a thread that keeps loading it.  Whether a caller ticks again, or
\* ever goes away, is its own business.
Fairness ==
  /\ \A c \in Callers : WF_vars(CallerStep(c))
  /\ \A w \in Workers : WF_vars(WorkerStep(w))

Spec == Init /\ [][Next]_vars
FairSpec == Spec /\ Fairness
-----------------------------------------------------------------------------
\* The caller has published a job and has not yet passed `done' (or is writing
\* the job it will publish).
InsideTick(c) ==
  \/ pc[c] \in {"gate", "gateWait", "poison", "done"}
  \/ pc[c] = "doneWait" /\ c \in done

\* The job cell is plain memory: while a ticking thread writes it, no worker is
\* reading it and no other thread is writing it.
CellExclusive ==
  \A c \in Callers : pc[c] = "write" =>
    /\ \A w \in Workers : pc[w] # "copy"
    /\ \A d \in Callers \ {c} : pc[d] \notin {"write", "publish"}

\* A worker dereferences the job's raw pointers only while the thread that owns
\* the buffers is inside `run', so they can be neither freed nor written.
ChunkInsideItsTick ==
  \A w \in Workers :
    /\ pc[w] = "copy" => job \in Callers /\ InsideTick(job)
    /\ pc[w] = "chunk" => mine[w] = job /\ InsideTick(mine[w])

\* A caller that has passed `done' reads results every worker has reported:
\* each has run this epoch exactly once (the debug_assert in `run', made exact).
AllReported ==
  \A c \in Callers : (pc[c] = "doneWait" /\ c \notin done) =>
    /\ completed = publish * Cardinality(Workers)
    /\ \A w \in Workers : seen[w] = publish /\ mine[w] = c

\* A tick one of whose chunks was abandoned does not return as if it had
\* completed: the panic reaches the thread that ran the tick.
PanicReachesItsCaller ==
  \A c \in Callers : (pc[c] = "idle" /\ result[c] = "ok") => c \notin broken

\* No other clone has ticked so far.
Alone(c) == \A d \in Callers \ {c} : pc[d] \in {"idle", "gone"} /\ result[d] = "none"

\* What holds of the promise: as long as no other clone has ticked, a tick that
\* returns as completed was, and one that blames a worker is not blaming it for
\* an earlier tick's panic.
LoneTicksAreToldTheTruth ==
  \A c \in Callers : Alone(c) /\ pc[c] = "idle" =>
    /\ result[c] = "ok" => c \notin broken
    /\ result[c] = "worker panic" => c \in broken

\* A panic anywhere never wedges the rendezvous: every tick comes back.
RunReturns == \A c \in Callers : pc[c] = "write" ~> pc[c] = "idle"

\* Dropping the pool, before its first tick or after any, joins every worker.
DropReturns ==
  \A c \in Callers : pc[c] = "drop" ~> (pc[c] = "gone" /\ \A w \in Workers : pc[w] = "exited")
=============================================================================
