------------------------ MODULE SeparationPool_proofs ------------------------
(***************************************************************************)
(* The worker pool, for any number of workers, clones and ticks: the job   *)
(* cell is never raced on, no worker outlives the tick it works for, and a *)
(* clone that ticks alone is told the truth about its panics.              *)
(***************************************************************************)
EXTENDS SeparationPool, FiniteSetTheorems, TLAPS

Threads == Workers \cup Callers

\* TypeOK without what follows from the rest: the bounds of the barriers and
\* of the counters.
Types ==
  /\ pc \in [Threads -> CallerPc \cup WorkerPc]
  /\ \A w \in Workers : pc[w] \in WorkerPc
  /\ \A c \in Callers : pc[c] \in CallerPc
  /\ job \in Callers \cup {Nobody}
  /\ publish \in 0 .. MaxTicks /\ completed \in Nat
  /\ poisoned \in BOOLEAN /\ shutdown \in BOOLEAN /\ inUse \in BOOLEAN
  /\ seen \in [Workers -> 0 .. MaxTicks]
  /\ mine \in [Workers -> Callers \cup {Nobody}]
  /\ raised \in [Callers -> BOOLEAN]
  /\ broken \subseteq Callers
  /\ result \in [Callers -> Results]

\* A caller that has the pool, and one that takes it down.
Holding(c) == pc[c] \in {"write", "publish", "gate", "gateWait", "poison", "done", "doneWait"}
Dropping(c) == pc[c] \in {"drop", "dropGate", "dropWait"}

\* `in_use' is the one caller that has the pool; who drops it is the last.
Turns ==
  /\ \A c \in Callers : Holding(c) => inUse
  /\ inUse => \E c \in Callers : Holding(c)
  /\ \A c, d \in Callers : Holding(c) /\ Holding(d) => c = d
  /\ \A c, d \in Callers : Dropping(c) /\ c # d => pc[d] = "gone"
  /\ shutdown => \A c \in Callers : pc[c] \in {"dropGate", "dropWait", "gone"}
  /\ \A c \in Callers : pc[c] \in {"write", "publish"} => publish < MaxTicks

\* Who is parked at a barrier; the party is never complete.
Parked ==
  /\ gate \subseteq {t \in Threads : pc[t] \in {"gateWait", "dropWait"}}
  /\ done \subseteq {t \in Threads : pc[t] = "doneWait"}
  /\ \A c \in Callers : ~(Workers \cup {c} \subseteq gate) /\ ~(Workers \cup {c} \subseteq done)

\* A caller between `gate' and `done': a tick is running.
Running(c) ==
  \/ pc[c] \in {"poison", "done"}
  \/ pc[c] = "gateWait" /\ c \notin gate
  \/ pc[c] = "doneWait" /\ c \in done

\* The last clone has met the workers at `gate', or it is gone as well.
Closing == \A c \in Callers : pc[c] = "gone" \/ (pc[c] = "dropWait" /\ c \notin gate)

\* A job has been published that no worker can have seen yet.
Announced(c) == pc[c] = "gate" \/ (pc[c] = "gateWait" /\ c \in gate)

\* A worker inside the tick of c, and one between two ticks.
Working(w, c) ==
  /\ \/ pc[w] = "gateWait" /\ w \notin gate /\ publish = seen[w] + 1
     \/ /\ \/ pc[w] \in {"copy", "chunk", "poison", "report", "done"}
           \/ pc[w] = "doneWait" /\ w \in done
        /\ publish = seen[w]
  /\ pc[w] \in {"chunk", "poison", "report", "done", "doneWait"} => mine[w] = c

Resting(w) ==
  pc[w] = "gate" \/ (pc[w] = "gateWait" /\ w \in gate) \/ (pc[w] = "doneWait" /\ w \notin done)

\* Everybody is on the same side of the barriers, and the epochs say which.
Stages ==
  /\ \A c \in Callers : Running(c) => job = c /\ \A w \in Workers : Working(w, c)
  /\ Closing => \A w \in Workers :
       publish = seen[w] /\ (pc[w] = "exited" \/ (pc[w] = "gateWait" /\ w \notin gate))
  /\ ~Closing /\ (\A c \in Callers : ~Running(c)) => \A w \in Workers : Resting(w)
  /\ \A c \in Callers : Announced(c) =>
       job = c /\ \A w \in Workers : publish = seen[w] + 1
  /\ (\A c \in Callers : ~Running(c) /\ ~Announced(c)) => \A w \in Workers : publish = seen[w]
  /\ \A c \in Callers : pc[c] = "publish" => job = c
  /\ \A c \in Callers : pc[c] = "doneWait" /\ c \notin done => \A w \in Workers : mine[w] = c

\* The workers that have counted themselves in the tick that runs.
Reported == {w \in Workers : pc[w] \in {"done", "doneWait"}}

Counts ==
  /\ \A c \in Callers : Running(c) =>
       completed + Cardinality(Workers) = publish * Cardinality(Workers) + Cardinality(Reported)
  /\ \A c \in Callers : Announced(c) =>
       completed + Cardinality(Workers) = publish * Cardinality(Workers)
  /\ (\A c \in Callers : ~Running(c) /\ ~Announced(c)) =>
       completed = publish * Cardinality(Workers)

\* A caller from its entry into `run' to the end of it.
InTick(c) == Holding(c) \/ pc[c] = "settle"

\* A clone that has never ticked, which `Alone' asks of all the others; unlike
\* `Alone', it stays so while they are dropped.
Fresh(d) == result[d] = "none" /\ ~InTick(d)
Only(c) == \A d \in Callers \ {c} : Fresh(d)

\* A thread has caught a chunk's panic and has not yet set `poisoned'.
Catching == \E t \in Threads : pc[t] = "poison"

\* The flag is up, or about to be, for the panics of c's own tick.
Told(c) ==
  /\ InTick(c) => /\ c \in broken <=> poisoned \/ Catching
                  /\ raised[c] => c \in broken
  /\ ~InTick(c) => /\ ~poisoned /\ ~Catching
                   /\ result[c] = "ok" => c \notin broken
                   /\ result[c] = "worker panic" => c \in broken

Blame == \A c \in Callers : Only(c) => Told(c)

PoolInv == Types /\ Turns /\ Parked /\ Stages /\ Counts /\ Blame

-----------------------------------------------------------------------------
LEMMA FiniteWorkers == Cardinality(Workers) \in Nat /\ Cardinality(Workers) > 0
<1>1. IsFiniteSet(Workers) /\ Workers # {}
  BY PoolAssumption
<1> QED
  BY <1>1, FS_CardinalityType, FS_EmptySet

\* The barrier of the workers and one caller: the arrival that completes the
\* party opens it, and no other does.
LEMMA Rendezvous ==
  ASSUME NEW c \in Callers, NEW barrier, barrier \subseteq Workers \cup {c},
         NEW t \in Workers \cup {c}, t \notin barrier
  PROVE  /\ barrier \cup {t} = Workers \cup {c} => Arrive(barrier, t) = {}
         /\ barrier \cup {t} # Workers \cup {c} => Arrive(barrier, t) = barrier \cup {t}
         /\ Cardinality(barrier) \in Nat /\ Cardinality(barrier) < Participants
<1> DEFINE party == Workers \cup {c}
<1>1. IsFiniteSet(party) /\ Cardinality(party) = Participants /\ Participants \in Nat
  <2>1. c \notin Workers
    BY PoolAssumption
  <2> QED
    BY <2>1, FS_AddElement, PoolAssumption, FiniteWorkers DEF Participants
<1>2. barrier \cup {t} \in SUBSET party
  OBVIOUS
<1>3. IsFiniteSet(barrier)
  BY <1>1, FS_Subset
<1>4. Cardinality(barrier \cup {t}) = Cardinality(barrier) + 1 /\ Cardinality(barrier) \in Nat
  BY <1>3, FS_AddElement, FS_CardinalityType
<1>5. Cardinality(barrier \cup {t}) <= Participants
      /\ (Cardinality(barrier \cup {t}) = Participants => barrier \cup {t} = party)
  BY <1>1, <1>2, FS_Subset
<1> HIDE DEF party
<1>6. Cardinality(barrier) + 1 = Participants <=> barrier \cup {t} = party
  BY <1>1, <1>4, <1>5
<1> QED
  BY <1>1, <1>4, <1>5, <1>6 DEF Arrive, party
LEMMA Apart ==
  Workers \cap Callers = {} /\ Nobody \notin Callers /\ Callers # {} /\ MaxTicks \in Nat
BY PoolAssumption

\* A worker between the barriers works for the caller that is there too.
LEMMA AtWork ==
  ASSUME Stages, NEW w \in Workers, pc[w] \in {"copy", "chunk", "poison", "report", "done"}
  PROVE  /\ \E c \in Callers : Running(c) /\ Working(w, c)
         /\ pc[w] # "copy" => mine[w] \in Callers
BY DEF Stages, Working, Resting

LEMMA TypesNext == Types /\ Turns /\ Stages /\ [Next]_vars => Types'
<1> SUFFICES ASSUME Types, Turns, Stages, [Next]_vars PROVE Types'
  OBVIOUS
<1>1. ASSUME NEW c \in Callers, Publish(c) PROVE Types'
  <2>1. publish < MaxTicks
    BY <1>1 DEF Publish, Goto, Turns
  <2>2. publish + 1 \in 0 .. MaxTicks
    BY <2>1, Apart DEF Types
  <2> QED
    BY <1>1, <2>2, Apart DEF Publish, Goto, Types, Threads, CallerPc, WorkerPc, Results
<1>2. ASSUME NEW c \in Callers, CallerChunk(c) PROVE Types'
  <2>1. PICK panic \in BOOLEAN :
          /\ pc' = [pc EXCEPT ![c] = IF panic THEN "poison" ELSE "done"]
          /\ raised' = [raised EXCEPT ![c] = panic]
          /\ broken' = IF panic THEN broken \cup {c} ELSE broken
    BY <1>2 DEF CallerChunk, Goto
  <2>2. raised' \in [Callers -> BOOLEAN] /\ broken' \subseteq Callers
    BY <2>1 DEF Types
  <2> QED
    BY <1>2, <2>1, <2>2, Apart DEF CallerChunk, shared, Types, Threads, CallerPc, WorkerPc, Results
<1>3. ASSUME NEW w \in Workers, WorkerChunk(w) PROVE Types'
  <2>1. PICK panic \in BOOLEAN :
          /\ pc[w] = "chunk"
          /\ pc' = [pc EXCEPT ![w] = IF panic THEN "poison" ELSE "report"]
          /\ broken' = IF panic THEN broken \cup {mine[w]} ELSE broken
    BY <1>3 DEF WorkerChunk, Goto
  <2>2. mine[w] \in Callers
    BY <2>1, AtWork
  <2> QED
    BY <1>3, <2>1, <2>2, Apart DEF WorkerChunk, shared, Types, Threads, CallerPc, WorkerPc, Results
<1>4. ASSUME NEW w \in Workers, Report(w) PROVE Types'
  <2>1. completed + 1 \in Nat
    BY DEF Types
  <2> QED
    BY <1>4, <2>1, Apart DEF Report, Goto, Types, Threads, CallerPc, WorkerPc, Results
<1> USE Apart DEF Goto, Types, Threads, CallerPc, WorkerPc, Results
<1>5. ASSUME NEW c \in Callers, Enter(c) PROVE Types'
  BY <1>5 DEF Enter
<1>6. ASSUME NEW c \in Callers, Reject(c) PROVE Types'
  BY <1>6 DEF Reject, shared
<1>7. ASSUME NEW c \in Callers, Release(c) PROVE Types'
  BY <1>7 DEF Release, shared
<1>8. ASSUME NEW c \in Callers, WriteJob(c) PROVE Types'
  BY <1>8 DEF WriteJob
<1>9. ASSUME NEW c \in Callers, CallerAtGate(c) PROVE Types'
  BY <1>9 DEF CallerAtGate
<1>10. ASSUME NEW c \in Callers, CallerPoison(c) PROVE Types'
  BY <1>10 DEF CallerPoison
<1>11. ASSUME NEW c \in Callers, CallerAtDone(c) PROVE Types'
  BY <1>11 DEF CallerAtDone
<1>12. ASSUME NEW c \in Callers, CallerLeaves(c) PROVE Types'
  BY <1>12 DEF CallerLeaves
<1>13. ASSUME NEW c \in Callers, Settle(c) PROVE Types'
  BY <1>13 DEF Settle
<1>14. ASSUME NEW c \in Callers, Shutdown(c) PROVE Types'
  BY <1>14 DEF Shutdown
<1>15. ASSUME NEW c \in Callers, DropAtGate(c) PROVE Types'
  BY <1>15 DEF DropAtGate
<1>16. ASSUME NEW c \in Callers, Join(c) PROVE Types'
  BY <1>16 DEF Join, shared
<1>17. ASSUME NEW w \in Workers, WorkerAtGate(w) PROVE Types'
  BY <1>17 DEF WorkerAtGate
<1>18. ASSUME NEW w \in Workers, SeeJob(w) PROVE Types'
  BY <1>18 DEF SeeJob, shared
<1>19. ASSUME NEW w \in Workers, SeeShutdown(w) PROVE Types'
  BY <1>19 DEF SeeShutdown, shared
<1>20. ASSUME NEW w \in Workers, CopyJob(w) PROVE Types'
  BY <1>20 DEF CopyJob, shared
<1>21. ASSUME NEW w \in Workers, WorkerPoison(w) PROVE Types'
  BY <1>21 DEF WorkerPoison
<1>22. ASSUME NEW w \in Workers, WorkerAtDone(w) PROVE Types'
  BY <1>22 DEF WorkerAtDone
<1>23. ASSUME NEW w \in Workers, WorkerLeaves(w) PROVE Types'
  BY <1>23 DEF WorkerLeaves, shared
<1>24. CASE UNCHANGED vars
  BY <1>24 DEF vars, shared
<1> QED
  BY <1>1, <1>2, <1>3, <1>4, <1>5, <1>6, <1>7, <1>8, <1>9, <1>10, <1>11, <1>12, <1>13, <1>14,
     <1>15, <1>16, <1>17, <1>18, <1>19, <1>20, <1>21, <1>22, <1>23, <1>24
  DEF Next, CallerStep, WorkerStep, Finished

LEMMA TurnsNext == Types /\ Turns /\ [Next]_vars => Turns'
<1> SUFFICES ASSUME Types, Turns, [Next]_vars PROVE Turns'
  OBVIOUS
<1> USE Apart DEF Goto, Types, Threads, Turns, Holding, Dropping
<1>1. ASSUME NEW c \in Callers, Enter(c) PROVE Turns'
  BY <1>1 DEF Enter
<1>2. ASSUME NEW c \in Callers, Reject(c) PROVE Turns'
  BY <1>2 DEF Reject, shared
<1>3. ASSUME NEW c \in Callers, Release(c) PROVE Turns'
  BY <1>3 DEF Release, shared
<1>4. ASSUME NEW c \in Callers, WriteJob(c) PROVE Turns'
  BY <1>4 DEF WriteJob
<1>5. ASSUME NEW c \in Callers, Publish(c) PROVE Turns'
  BY <1>5 DEF Publish
<1>6. ASSUME NEW c \in Callers, CallerAtGate(c) PROVE Turns'
  BY <1>6 DEF CallerAtGate
<1>7. ASSUME NEW c \in Callers, CallerChunk(c) PROVE Turns'
  BY <1>7 DEF CallerChunk, shared
<1>8. ASSUME NEW c \in Callers, CallerPoison(c) PROVE Turns'
  BY <1>8 DEF CallerPoison
<1>9. ASSUME NEW c \in Callers, CallerAtDone(c) PROVE Turns'
  BY <1>9 DEF CallerAtDone
<1>10. ASSUME NEW c \in Callers, CallerLeaves(c) PROVE Turns'
  BY <1>10 DEF CallerLeaves
<1>11. ASSUME NEW c \in Callers, Settle(c) PROVE Turns'
  BY <1>11 DEF Settle
<1>12. ASSUME NEW c \in Callers, Shutdown(c) PROVE Turns'
  BY <1>12 DEF Shutdown
<1>13. ASSUME NEW c \in Callers, DropAtGate(c) PROVE Turns'
  BY <1>13 DEF DropAtGate
<1>14. ASSUME NEW c \in Callers, Join(c) PROVE Turns'
  BY <1>14 DEF Join, shared
<1>15. ASSUME NEW w \in Workers, WorkerAtGate(w) PROVE Turns'
  BY <1>15 DEF WorkerAtGate
<1>16. ASSUME NEW w \in Workers, SeeJob(w) PROVE Turns'
  BY <1>16 DEF SeeJob, shared
<1>17. ASSUME NEW w \in Workers, SeeShutdown(w) PROVE Turns'
  BY <1>17 DEF SeeShutdown, shared
<1>18. ASSUME NEW w \in Workers, CopyJob(w) PROVE Turns'
  BY <1>18 DEF CopyJob, shared
<1>19. ASSUME NEW w \in Workers, WorkerChunk(w) PROVE Turns'
  BY <1>19 DEF WorkerChunk, shared
<1>20. ASSUME NEW w \in Workers, WorkerPoison(w) PROVE Turns'
  BY <1>20 DEF WorkerPoison
<1>21. ASSUME NEW w \in Workers, Report(w) PROVE Turns'
  BY <1>21 DEF Report
<1>22. ASSUME NEW w \in Workers, WorkerAtDone(w) PROVE Turns'
  BY <1>22 DEF WorkerAtDone
<1>23. ASSUME NEW w \in Workers, WorkerLeaves(w) PROVE Turns'
  BY <1>23 DEF WorkerLeaves, shared
<1>24. CASE UNCHANGED vars
  BY <1>24 DEF vars, shared
<1> QED
  BY <1>1, <1>2, <1>3, <1>4, <1>5, <1>6, <1>7, <1>8, <1>9, <1>10, <1>11, <1>12, <1>13, <1>14,
     <1>15, <1>16, <1>17, <1>18, <1>19, <1>20, <1>21, <1>22, <1>23, <1>24
  DEF Next, CallerStep, WorkerStep, Finished

\* The only caller that may be at a barrier.
LEMMA GateParty ==
  ASSUME Turns, Parked, NEW t \in Threads, pc[t] \in {"gate", "dropGate"}
  PROVE  \E c \in Callers :
           /\ t \in Workers \cup {c} /\ gate \subseteq Workers \cup {c}
           /\ \A d \in Callers : pc[d] \in {"gate", "gateWait", "dropGate", "dropWait"} => d = c
<1>1. \A c, d \in Callers : /\ pc[c] \in {"gate", "gateWait", "dropGate", "dropWait"}
                          /\ pc[d] \in {"gate", "gateWait", "dropGate", "dropWait"}
                          => c = d
  BY DEF Turns, Holding, Dropping
<1>2. CASE \E c \in Callers : pc[c] \in {"gate", "gateWait", "dropGate", "dropWait"}
  BY <1>1, <1>2 DEF Parked, Threads
<1>3. CASE \A c \in Callers : pc[c] \notin {"gate", "gateWait", "dropGate", "dropWait"}
  BY <1>3, Apart DEF Parked, Threads
<1> QED
  BY <1>2, <1>3

LEMMA DoneParty ==
  ASSUME Turns, Parked, NEW t \in Threads, pc[t] = "done"
  PROVE  \E c \in Callers :
           /\ t \in Workers \cup {c} /\ done \subseteq Workers \cup {c}
           /\ \A d \in Callers : pc[d] \in {"done", "doneWait"} => d = c
<1>1. \A c, d \in Callers :
        pc[c] \in {"done", "doneWait"} /\ pc[d] \in {"done", "doneWait"} => c = d
  BY DEF Turns, Holding
<1>2. CASE \E c \in Callers : pc[c] \in {"done", "doneWait"}
  BY <1>1, <1>2 DEF Parked, Threads
<1>3. CASE \A c \in Callers : pc[c] \notin {"done", "doneWait"}
  BY <1>3, Apart DEF Parked, Threads
<1> QED
  BY <1>2, <1>3

\* An arrival at `gate' opens it for the whole party, or parks.
LEMMA ArriveAtGate ==
  ASSUME Turns, Parked, NEW t \in Threads, pc[t] \in {"gate", "dropGate"},
         gate' = Arrive(gate, t)
  PROVE  \/ /\ gate' = {}
            /\ \E c \in Callers : gate \cup {t} = Workers \cup {c}
         \/ /\ gate' = gate \cup {t}
            /\ \A c \in Callers : ~(Workers \cup {c} \subseteq gate')
<1>1. PICK c \in Callers :
        /\ t \in Workers \cup {c} /\ gate \subseteq Workers \cup {c}
        /\ \A d \in Callers : pc[d] \in {"gate", "gateWait", "dropGate", "dropWait"} => d = c
  BY GateParty
<1>2. t \notin gate
  BY DEF Parked
<1>3. /\ gate \cup {t} = Workers \cup {c} => gate' = {}
      /\ gate \cup {t} # Workers \cup {c} => gate' = gate \cup {t}
  BY <1>1, <1>2, Rendezvous
<1>4. ASSUME gate \cup {t} # Workers \cup {c}, NEW d \in Callers
      PROVE  ~(Workers \cup {d} \subseteq gate \cup {t})
  BY <1>1, <1>4, Apart
<1> QED
  BY <1>3, <1>4

LEMMA ArriveAtDone ==
  ASSUME Turns, Parked, NEW t \in Threads, pc[t] = "done", done' = Arrive(done, t)
  PROVE  \/ /\ done' = {}
            /\ \E c \in Callers : done \cup {t} = Workers \cup {c}
         \/ /\ done' = done \cup {t}
            /\ \A c \in Callers : ~(Workers \cup {c} \subseteq done')
<1>1. PICK c \in Callers :
        /\ t \in Workers \cup {c} /\ done \subseteq Workers \cup {c}
        /\ \A d \in Callers : pc[d] \in {"done", "doneWait"} => d = c
  BY DoneParty
<1>2. t \notin done
  BY DEF Parked
<1>3. /\ done \cup {t} = Workers \cup {c} => done' = {}
      /\ done \cup {t} # Workers \cup {c} => done' = done \cup {t}
  BY <1>1, <1>2, Rendezvous
<1>4. ASSUME done \cup {t} # Workers \cup {c}, NEW d \in Callers
      PROVE  ~(Workers \cup {d} \subseteq done \cup {t})
  BY <1>1, <1>4, Apart
<1> QED
  BY <1>3, <1>4

LEMMA ParkedNext == Types /\ Turns /\ Parked /\ [Next]_vars => Parked'
<1> SUFFICES ASSUME Types, Turns, Parked, [Next]_vars PROVE Parked'
  OBVIOUS
<1>1. ASSUME NEW c \in Callers, CallerAtGate(c) PROVE Parked'
  <2>1. pc' = [pc EXCEPT ![c] = "gateWait"] /\ pc[c] = "gate" /\ gate' = Arrive(gate, c)
    BY <1>1 DEF CallerAtGate, Goto
  <2>2. gate' = {} \/ (/\ gate' = gate \cup {c}
                     /\ \A d \in Callers : ~(Workers \cup {d} \subseteq gate'))
    BY <2>1, ArriveAtGate DEF Threads
  <2> QED
    BY <1>1, <2>1, <2>2, Apart DEF CallerAtGate, Types, Threads, Parked
<1>2. ASSUME NEW c \in Callers, CallerAtDone(c) PROVE Parked'
  <2>1. pc' = [pc EXCEPT ![c] = "doneWait"] /\ pc[c] = "done" /\ done' = Arrive(done, c)
    BY <1>2 DEF CallerAtDone, Goto
  <2>2. done' = {} \/ (/\ done' = done \cup {c}
                     /\ \A d \in Callers : ~(Workers \cup {d} \subseteq done'))
    BY <2>1, ArriveAtDone DEF Threads
  <2> QED
    BY <1>2, <2>1, <2>2, Apart DEF CallerAtDone, Types, Threads, Parked
<1>3. ASSUME NEW c \in Callers, DropAtGate(c) PROVE Parked'
  <2>1. pc' = [pc EXCEPT ![c] = "dropWait"] /\ pc[c] = "dropGate" /\ gate' = Arrive(gate, c)
    BY <1>3 DEF DropAtGate, Goto
  <2>2. gate' = {} \/ (/\ gate' = gate \cup {c}
                     /\ \A d \in Callers : ~(Workers \cup {d} \subseteq gate'))
    BY <2>1, ArriveAtGate DEF Threads
  <2> QED
    BY <1>3, <2>1, <2>2, Apart DEF DropAtGate, Types, Threads, Parked
<1>4. ASSUME NEW w \in Workers, WorkerAtGate(w) PROVE Parked'
  <2>1. pc' = [pc EXCEPT ![w] = "gateWait"] /\ pc[w] = "gate" /\ gate' = Arrive(gate, w)
    BY <1>4 DEF WorkerAtGate, Goto
  <2>2. gate' = {} \/ (/\ gate' = gate \cup {w}
                     /\ \A d \in Callers : ~(Workers \cup {d} \subseteq gate'))
    BY <2>1, ArriveAtGate DEF Threads
  <2> QED
    BY <1>4, <2>1, <2>2, Apart DEF WorkerAtGate, Types, Threads, Parked
<1>5. ASSUME NEW w \in Workers, WorkerAtDone(w) PROVE Parked'
  <2>1. pc' = [pc EXCEPT ![w] = "doneWait"] /\ pc[w] = "done" /\ done' = Arrive(done, w)
    BY <1>5 DEF WorkerAtDone, Goto
  <2>2. done' = {} \/ (/\ done' = done \cup {w}
                     /\ \A d \in Callers : ~(Workers \cup {d} \subseteq done'))
    BY <2>1, ArriveAtDone DEF Threads
  <2> QED
    BY <1>5, <2>1, <2>2, Apart DEF WorkerAtDone, Types, Threads, Parked
<1> USE Apart DEF Goto, Types, Threads, Parked
<1>6. ASSUME NEW c \in Callers, Enter(c) PROVE Parked'
  BY <1>6 DEF Enter
<1>7. ASSUME NEW c \in Callers, Reject(c) PROVE Parked'
  BY <1>7 DEF Reject, shared
<1>8. ASSUME NEW c \in Callers, Release(c) PROVE Parked'
  BY <1>8 DEF Release, shared
<1>9. ASSUME NEW c \in Callers, WriteJob(c) PROVE Parked'
  BY <1>9 DEF WriteJob
<1>10. ASSUME NEW c \in Callers, Publish(c) PROVE Parked'
  BY <1>10 DEF Publish
<1>11. ASSUME NEW c \in Callers, CallerChunk(c) PROVE Parked'
  BY <1>11 DEF CallerChunk, shared
<1>12. ASSUME NEW c \in Callers, CallerPoison(c) PROVE Parked'
  BY <1>12 DEF CallerPoison
<1>13. ASSUME NEW c \in Callers, CallerLeaves(c) PROVE Parked'
  BY <1>13 DEF CallerLeaves
<1>14. ASSUME NEW c \in Callers, Settle(c) PROVE Parked'
  BY <1>14 DEF Settle
<1>15. ASSUME NEW c \in Callers, Shutdown(c) PROVE Parked'
  BY <1>15 DEF Shutdown
<1>16. ASSUME NEW c \in Callers, Join(c) PROVE Parked'
  BY <1>16 DEF Join, shared
<1>17. ASSUME NEW w \in Workers, SeeJob(w) PROVE Parked'
  BY <1>17 DEF SeeJob, shared
<1>18. ASSUME NEW w \in Workers, SeeShutdown(w) PROVE Parked'
  BY <1>18 DEF SeeShutdown, shared
<1>19. ASSUME NEW w \in Workers, CopyJob(w) PROVE Parked'
  BY <1>19 DEF CopyJob, shared
<1>20. ASSUME NEW w \in Workers, WorkerChunk(w) PROVE Parked'
  BY <1>20 DEF WorkerChunk, shared
<1>21. ASSUME NEW w \in Workers, WorkerPoison(w) PROVE Parked'
  BY <1>21 DEF WorkerPoison
<1>22. ASSUME NEW w \in Workers, Report(w) PROVE Parked'
  BY <1>22 DEF Report
<1>23. ASSUME NEW w \in Workers, WorkerLeaves(w) PROVE Parked'
  BY <1>23 DEF WorkerLeaves, shared
<1>24. CASE UNCHANGED vars
  BY <1>24 DEF vars, shared
<1> QED
  BY <1>1, <1>2, <1>3, <1>4, <1>5, <1>6, <1>7, <1>8, <1>9, <1>10, <1>11, <1>12, <1>13, <1>14,
     <1>15, <1>16, <1>17, <1>18, <1>19, <1>20, <1>21, <1>22, <1>23, <1>24
  DEF Next, CallerStep, WorkerStep, Finished

LEMMA StagesNext == Types /\ Turns /\ Parked /\ Stages /\ [Next]_vars => Stages'
<1> SUFFICES ASSUME Types, Turns, Parked, Stages, [Next]_vars PROVE Stages'
  OBVIOUS
<1>1. ASSUME NEW c \in Callers, CallerAtGate(c) PROVE Stages'
  <2>1. /\ pc' = [pc EXCEPT ![c] = "gateWait"] /\ pc[c] = "gate" /\ gate' = Arrive(gate, c)
        /\ UNCHANGED <<done, job, publish, seen, mine>>
    BY <1>1 DEF CallerAtGate, Goto
  <2>2. \/ gate' = {} /\ \E d \in Callers : gate \cup {c} = Workers \cup {d}
        \/ gate' = gate \cup {c}
    BY <2>1, ArriveAtGate DEF Threads
  <2>3. CASE gate' = {} /\ \E d \in Callers : gate \cup {c} = Workers \cup {d}
    <3>1. PICK d \in Callers : gate \cup {c} = Workers \cup {d}
      BY <2>3
    <3>2. /\ \A t \in Workers \cup {d} : t = c \/ t \in gate
          /\ \A t \in Workers : pc'[t] = "gateWait"
      BY <2>1, <3>1, Apart DEF Parked, Types, Threads, WorkerPc
    <3>3. pc'[d] \in {"gateWait", "dropWait", "doneWait"}
      BY <2>1, <3>1, <3>2, Apart DEF Parked, Types, Threads
    <3> QED
      BY <2>1, <2>3, <3>1, <3>2, <3>3, Apart DEF Types, Threads, Turns, Holding, Dropping, Parked,
         Stages, Running, Closing, Announced, Working, Resting
  <2>4. CASE gate' = gate \cup {c}
    BY <2>1, <2>4, Apart DEF Types, Threads, Turns, Holding, Dropping, Parked, Stages, Running,
       Closing, Announced, Working, Resting
  <2> QED
    BY <2>2, <2>3, <2>4
<1>2. ASSUME NEW c \in Callers, CallerAtDone(c) PROVE Stages'
  <2>1. /\ pc' = [pc EXCEPT ![c] = "doneWait"] /\ pc[c] = "done" /\ done' = Arrive(done, c)
        /\ UNCHANGED <<gate, job, publish, seen, mine>>
    BY <1>2 DEF CallerAtDone, Goto
  <2>2. \/ done' = {} /\ \E d \in Callers : done \cup {c} = Workers \cup {d}
        \/ done' = done \cup {c}
    BY <2>1, ArriveAtDone DEF Threads
  <2>3. CASE done' = {} /\ \E d \in Callers : done \cup {c} = Workers \cup {d}
    <3>1. PICK d \in Callers : done \cup {c} = Workers \cup {d}
      BY <2>3
    <3>2. /\ \A t \in Workers \cup {d} : t = c \/ t \in done
          /\ \A t \in Workers : pc'[t] = "doneWait"
      BY <2>1, <3>1, Apart DEF Parked, Types, Threads, WorkerPc
    <3>3. pc'[d] \in {"gateWait", "dropWait", "doneWait"}
      BY <2>1, <3>1, <3>2, Apart DEF Parked, Types, Threads
    <3> QED
      BY <2>1, <2>3, <3>1, <3>2, <3>3, Apart DEF Types, Threads, Turns, Holding, Dropping, Parked,
         Stages, Running, Closing, Announced, Working, Resting
  <2>4. CASE done' = done \cup {c}
    BY <2>1, <2>4, Apart DEF Types, Threads, Turns, Holding, Dropping, Parked, Stages, Running,
       Closing, Announced, Working, Resting
  <2> QED
    BY <2>2, <2>3, <2>4
<1>3. ASSUME NEW c \in Callers, Settle(c) PROVE Stages'
  <2>1. /\ pc' = [pc EXCEPT ![c] = "idle"] /\ pc[c] = "settle"
        /\ UNCHANGED <<gate, done, job, publish, seen, mine>>
    BY <1>3 DEF Settle, Goto
  <2> QED
    BY <2>1, Apart DEF Types, Threads, Turns, Holding, Dropping, Parked, Stages, Running,
       Closing, Announced, Working, Resting
<1>4. ASSUME NEW c \in Callers, DropAtGate(c) PROVE Stages'
  <2>1. /\ pc' = [pc EXCEPT ![c] = "dropWait"] /\ pc[c] = "dropGate" /\ gate' = Arrive(gate, c)
        /\ UNCHANGED <<done, job, publish, seen, mine>>
    BY <1>4 DEF DropAtGate, Goto
  <2>2. \/ gate' = {} /\ \E d \in Callers : gate \cup {c} = Workers \cup {d}
        \/ gate' = gate \cup {c}
    BY <2>1, ArriveAtGate DEF Threads
  <2>3. CASE gate' = {} /\ \E d \in Callers : gate \cup {c} = Workers \cup {d}
    <3>1. PICK d \in Callers : gate \cup {c} = Workers \cup {d}
      BY <2>3
    <3>2. /\ \A t \in Workers \cup {d} : t = c \/ t \in gate
          /\ \A t \in Workers : pc'[t] = "gateWait"
      BY <2>1, <3>1, Apart DEF Parked, Types, Threads, WorkerPc
    <3>3. pc'[d] \in {"gateWait", "dropWait", "doneWait"}
      BY <2>1, <3>1, <3>2, Apart DEF Parked, Types, Threads
    <3> QED
      BY <2>1, <2>3, <3>1, <3>2, <3>3, Apart DEF Types, Threads, Turns, Holding, Dropping, Parked,
         Stages, Running, Closing, Announced, Working, Resting
  <2>4. CASE gate' = gate \cup {c}
    BY <2>1, <2>4, Apart DEF Types, Threads, Turns, Holding, Dropping, Parked, Stages, Running,
       Closing, Announced, Working, Resting
  <2> QED
    BY <2>2, <2>3, <2>4
<1>5. ASSUME NEW w \in Workers, WorkerAtGate(w) PROVE Stages'
  <2>1. /\ pc' = [pc EXCEPT ![w] = "gateWait"] /\ pc[w] = "gate" /\ gate' = Arrive(gate, w)
        /\ UNCHANGED <<done, job, publish, seen, mine>>
    BY <1>5 DEF WorkerAtGate, Goto
  <2>2. \/ gate' = {} /\ \E d \in Callers : gate \cup {w} = Workers \cup {d}
        \/ gate' = gate \cup {w}
    BY <2>1, ArriveAtGate DEF Threads
  <2>3. CASE gate' = {} /\ \E d \in Callers : gate \cup {w} = Workers \cup {d}
    <3>1. PICK d \in Callers : gate \cup {w} = Workers \cup {d}
      BY <2>3
    <3>2. /\ \A t \in Workers \cup {d} : t = w \/ t \in gate
          /\ \A t \in Workers : pc'[t] = "gateWait"
      BY <2>1, <3>1, Apart DEF Parked, Types, Threads, WorkerPc
    <3>3. pc'[d] \in {"gateWait", "dropWait", "doneWait"}
      BY <2>1, <3>1, <3>2, Apart DEF Parked, Types, Threads
    <3> QED
      BY <2>1, <2>3, <3>1, <3>2, <3>3, Apart DEF Types, Threads, Turns, Holding, Dropping, Parked,
         Stages, Running, Closing, Announced, Working, Resting
  <2>4. CASE gate' = gate \cup {w}
    BY <2>1, <2>4, Apart DEF Types, Threads, Turns, Holding, Dropping, Parked, Stages, Running,
       Closing, Announced, Working, Resting
  <2> QED
    BY <2>2, <2>3, <2>4
<1>6. ASSUME NEW w \in Workers, WorkerAtDone(w) PROVE Stages'
  <2>1. /\ pc' = [pc EXCEPT ![w] = "doneWait"] /\ pc[w] = "done" /\ done' = Arrive(done, w)
        /\ UNCHANGED <<gate, job, publish, seen, mine>>
    BY <1>6 DEF WorkerAtDone, Goto
  <2>2. \/ done' = {} /\ \E d \in Callers : done \cup {w} = Workers \cup {d}
        \/ done' = done \cup {w}
    BY <2>1, ArriveAtDone DEF Threads
  <2>3. CASE done' = {} /\ \E d \in Callers : done \cup {w} = Workers \cup {d}
    <3>1. PICK d \in Callers : done \cup {w} = Workers \cup {d}
      BY <2>3
    <3>2. /\ \A t \in Workers \cup {d} : t = w \/ t \in done
          /\ \A t \in Workers : pc'[t] = "doneWait"
      BY <2>1, <3>1, Apart DEF Parked, Types, Threads, WorkerPc
    <3>3. pc'[d] \in {"gateWait", "dropWait", "doneWait"}
      BY <2>1, <3>1, <3>2, Apart DEF Parked, Types, Threads
    <3> QED
      BY <2>1, <2>3, <3>1, <3>2, <3>3, Apart DEF Types, Threads, Turns, Holding, Dropping, Parked,
         Stages, Running, Closing, Announced, Working, Resting
  <2>4. CASE done' = done \cup {w}
    BY <2>1, <2>4, Apart DEF Types, Threads, Turns, Holding, Dropping, Parked, Stages, Running,
       Closing, Announced, Working, Resting
  <2> QED
    BY <2>2, <2>3, <2>4
<1> USE Apart DEF Goto, Types, Threads, Turns, Holding, Dropping, Parked, Stages, Running,
     Closing, Announced, Working, Resting
<1>7. ASSUME NEW c \in Callers, Enter(c) PROVE Stages'
  BY <1>7 DEF Enter
<1>8. ASSUME NEW c \in Callers, Reject(c) PROVE Stages'
  BY <1>8 DEF Reject, shared
<1>9. ASSUME NEW c \in Callers, Release(c) PROVE Stages'
  BY <1>9 DEF Release, shared
<1>10. ASSUME NEW c \in Callers, WriteJob(c) PROVE Stages'
  BY <1>10 DEF WriteJob
<1>11. ASSUME NEW c \in Callers, Publish(c) PROVE Stages'
  BY <1>11 DEF Publish
<1>12. ASSUME NEW c \in Callers, CallerChunk(c) PROVE Stages'
  BY <1>12 DEF CallerChunk, shared
<1>13. ASSUME NEW c \in Callers, CallerPoison(c) PROVE Stages'
  BY <1>13 DEF CallerPoison
<1>14. ASSUME NEW c \in Callers, CallerLeaves(c) PROVE Stages'
  BY <1>14 DEF CallerLeaves
<1>15. ASSUME NEW c \in Callers, Shutdown(c) PROVE Stages'
  BY <1>15 DEF Shutdown
<1>16. ASSUME NEW c \in Callers, Join(c) PROVE Stages'
  BY <1>16 DEF Join, shared
<1>17. ASSUME NEW w \in Workers, SeeJob(w) PROVE Stages'
  BY <1>17 DEF SeeJob, shared
<1>18. ASSUME NEW w \in Workers, SeeShutdown(w) PROVE Stages'
  BY <1>18 DEF SeeShutdown, shared
<1>19. ASSUME NEW w \in Workers, CopyJob(w) PROVE Stages'
  BY <1>19 DEF CopyJob, shared
<1>20. ASSUME NEW w \in Workers, WorkerChunk(w) PROVE Stages'
  BY <1>20 DEF WorkerChunk, shared
<1>21. ASSUME NEW w \in Workers, WorkerPoison(w) PROVE Stages'
  BY <1>21 DEF WorkerPoison
<1>22. ASSUME NEW w \in Workers, Report(w) PROVE Stages'
  BY <1>22 DEF Report
<1>23. ASSUME NEW w \in Workers, WorkerLeaves(w) PROVE Stages'
  BY <1>23 DEF WorkerLeaves, shared
<1>24. CASE UNCHANGED vars
  BY <1>24 DEF vars, shared
<1> QED
  BY <1>1, <1>2, <1>3, <1>4, <1>5, <1>6, <1>7, <1>8, <1>9, <1>10, <1>11, <1>12, <1>13, <1>14,
     <1>15, <1>16, <1>17, <1>18, <1>19, <1>20, <1>21, <1>22, <1>23, <1>24
  DEF Next, CallerStep, WorkerStep, Finished

LEMMA CountsNext == Types /\ Turns /\ Parked /\ Stages /\ Counts /\ [Next]_vars => Counts'
<1> SUFFICES ASSUME Types, Turns, Parked, Stages, Counts, [Next]_vars PROVE Counts'
  OBVIOUS
<1>1. ASSUME NEW c \in Callers, CallerAtGate(c) PROVE Counts'
  <2>1. /\ pc' = [pc EXCEPT ![c] = "gateWait"] /\ pc[c] = "gate" /\ gate' = Arrive(gate, c)
        /\ UNCHANGED <<done, job, publish, seen, mine>>
    BY <1>1 DEF CallerAtGate, Goto
  <2>2. \/ gate' = {} /\ \E d \in Callers : gate \cup {c} = Workers \cup {d}
        \/ gate' = gate \cup {c}
    BY <2>1, ArriveAtGate DEF Threads
  <2>3. CASE gate' = {} /\ \E d \in Callers : gate \cup {c} = Workers \cup {d}
    <3>1. PICK d \in Callers : gate \cup {c} = Workers \cup {d}
      BY <2>3
    <3>2. /\ \A t \in Workers \cup {d} : t = c \/ t \in gate
          /\ \A t \in Workers : pc'[t] = "gateWait"
      BY <2>1, <3>1, Apart DEF Parked, Types, Threads, WorkerPc
    <3>3. pc'[d] \in {"gateWait", "dropWait", "doneWait"}
      BY <2>1, <3>1, <3>2, Apart DEF Parked, Types, Threads
    <3>4. Reported' = {}
      BY <3>2 DEF Reported
    <3>5. Cardinality(Reported') = 0
      BY <3>4, FS_EmptySet
    <3>6. completed' = completed
      BY <1>1 DEF CallerAtGate
    <3> QED
      BY <2>1, <2>3, <3>1, <3>2, <3>3, <3>5, <3>6, Apart, FiniteWorkers DEF Types, Threads, Turns,
         Holding, Dropping, Parked, Counts, Running, Announced
  <2>4. CASE gate' = gate \cup {c}
    <3>1. Reported' = Reported /\ completed' = completed
      BY <1>1, <2>1, Apart DEF CallerAtGate, Reported, Types, Threads
    <3> QED
      BY <2>1, <2>4, <3>1, Apart, FiniteWorkers DEF Types, Threads, Turns, Holding, Dropping,
         Parked, Counts, Running, Announced
  <2> QED
    BY <2>2, <2>3, <2>4
<1>2. ASSUME NEW c \in Callers, CallerAtDone(c) PROVE Counts'
  <2>1. /\ pc' = [pc EXCEPT ![c] = "doneWait"] /\ pc[c] = "done" /\ done' = Arrive(done, c)
        /\ UNCHANGED <<gate, job, publish, seen, mine>>
    BY <1>2 DEF CallerAtDone, Goto
  <2>2. \/ done' = {} /\ \E d \in Callers : done \cup {c} = Workers \cup {d}
        \/ done' = done \cup {c}
    BY <2>1, ArriveAtDone DEF Threads
  <2>3. CASE done' = {} /\ \E d \in Callers : done \cup {c} = Workers \cup {d}
    <3>1. PICK d \in Callers : done \cup {c} = Workers \cup {d}
      BY <2>3
    <3>2. /\ \A t \in Workers \cup {d} : t = c \/ t \in done
          /\ \A t \in Workers : pc'[t] = "doneWait"
      BY <2>1, <3>1, Apart DEF Parked, Types, Threads, WorkerPc
    <3>3. pc'[d] \in {"gateWait", "dropWait", "doneWait"}
      BY <2>1, <3>1, <3>2, Apart DEF Parked, Types, Threads
    <3>4. Reported' = Workers
      BY <3>2 DEF Reported
    <3>5. Cardinality(Reported') = Cardinality(Workers)
      BY <3>4, FS_EmptySet
    <3>6. completed' = completed
      BY <1>2 DEF CallerAtDone
    <3> QED
      BY <2>1, <2>3, <3>1, <3>2, <3>3, <3>5, <3>6, Apart, FiniteWorkers DEF Types, Threads, Turns,
         Holding, Dropping, Parked, Counts, Running, Announced, Reported
  <2>4. CASE done' = done \cup {c}
    <3>1. Reported' = Reported /\ completed' = completed
      BY <1>2, <2>1, Apart DEF CallerAtDone, Reported, Types, Threads
    <3> QED
      BY <2>1, <2>4, <3>1, Apart, FiniteWorkers DEF Types, Threads, Turns, Holding, Dropping,
         Parked, Counts, Running, Announced
  <2> QED
    BY <2>2, <2>3, <2>4
<1>3. ASSUME NEW c \in Callers, Settle(c) PROVE Counts'
  <2>1. /\ pc' = [pc EXCEPT ![c] = "idle"] /\ pc[c] = "settle"
        /\ UNCHANGED <<gate, done, publish, completed>>
    BY <1>3 DEF Settle, Goto
  <2>2. Reported' = Reported
    BY <2>1, Apart DEF Reported, Types, Threads
  <2> QED
    BY <2>1, <2>2, Apart DEF Types, Threads, Turns, Holding, Dropping, Parked, Counts, Running,
       Announced
<1>4. ASSUME NEW c \in Callers, DropAtGate(c) PROVE Counts'
  <2>1. /\ pc' = [pc EXCEPT ![c] = "dropWait"] /\ pc[c] = "dropGate" /\ gate' = Arrive(gate, c)
        /\ UNCHANGED <<done, job, publish, seen, mine>>
    BY <1>4 DEF DropAtGate, Goto
  <2>2. \/ gate' = {} /\ \E d \in Callers : gate \cup {c} = Workers \cup {d}
        \/ gate' = gate \cup {c}
    BY <2>1, ArriveAtGate DEF Threads
  <2>3. CASE gate' = {} /\ \E d \in Callers : gate \cup {c} = Workers \cup {d}
    <3>1. PICK d \in Callers : gate \cup {c} = Workers \cup {d}
      BY <2>3
    <3>2. /\ \A t \in Workers \cup {d} : t = c \/ t \in gate
          /\ \A t \in Workers : pc'[t] = "gateWait"
      BY <2>1, <3>1, Apart DEF Parked, Types, Threads, WorkerPc
    <3>3. pc'[d] \in {"gateWait", "dropWait", "doneWait"}
      BY <2>1, <3>1, <3>2, Apart DEF Parked, Types, Threads
    <3>4. Reported' = {}
      BY <3>2 DEF Reported
    <3>5. Cardinality(Reported') = 0
      BY <3>4, FS_EmptySet
    <3>6. completed' = completed
      BY <1>4 DEF DropAtGate
    <3> QED
      BY <2>1, <2>3, <3>1, <3>2, <3>3, <3>5, <3>6, Apart, FiniteWorkers DEF Types, Threads, Turns,
         Holding, Dropping, Parked, Counts, Running, Announced
  <2>4. CASE gate' = gate \cup {c}
    <3>1. Reported' = Reported /\ completed' = completed
      BY <1>4, <2>1, Apart DEF DropAtGate, Reported, Types, Threads
    <3> QED
      BY <2>1, <2>4, <3>1, Apart, FiniteWorkers DEF Types, Threads, Turns, Holding, Dropping,
         Parked, Counts, Running, Announced
  <2> QED
    BY <2>2, <2>3, <2>4
<1>5. ASSUME NEW w \in Workers, WorkerAtGate(w) PROVE Counts'
  <2>1. /\ pc' = [pc EXCEPT ![w] = "gateWait"] /\ pc[w] = "gate" /\ gate' = Arrive(gate, w)
        /\ UNCHANGED <<done, job, publish, seen, mine>>
    BY <1>5 DEF WorkerAtGate, Goto
  <2>2. \/ gate' = {} /\ \E d \in Callers : gate \cup {w} = Workers \cup {d}
        \/ gate' = gate \cup {w}
    BY <2>1, ArriveAtGate DEF Threads
  <2>3. CASE gate' = {} /\ \E d \in Callers : gate \cup {w} = Workers \cup {d}
    <3>1. PICK d \in Callers : gate \cup {w} = Workers \cup {d}
      BY <2>3
    <3>2. /\ \A t \in Workers \cup {d} : t = w \/ t \in gate
          /\ \A t \in Workers : pc'[t] = "gateWait"
      BY <2>1, <3>1, Apart DEF Parked, Types, Threads, WorkerPc
    <3>3. pc'[d] \in {"gateWait", "dropWait", "doneWait"}
      BY <2>1, <3>1, <3>2, Apart DEF Parked, Types, Threads
    <3>4. Reported' = {}
      BY <3>2 DEF Reported
    <3>5. Cardinality(Reported') = 0
      BY <3>4, FS_EmptySet
    <3>6. completed' = completed
      BY <1>5 DEF WorkerAtGate
    <3> QED
      BY <2>1, <2>3, <3>1, <3>2, <3>3, <3>5, <3>6, Apart, FiniteWorkers DEF Types, Threads, Turns,
         Holding, Dropping, Parked, Counts, Running, Announced
  <2>4. CASE gate' = gate \cup {w}
    <3>1. Reported' = Reported /\ completed' = completed
      BY <1>5, <2>1, Apart DEF WorkerAtGate, Reported, Types, Threads
    <3> QED
      BY <2>1, <2>4, <3>1, Apart, FiniteWorkers DEF Types, Threads, Turns, Holding, Dropping,
         Parked, Counts, Running, Announced
  <2> QED
    BY <2>2, <2>3, <2>4
<1>6. ASSUME NEW w \in Workers, Report(w) PROVE Counts'
  <2>1. /\ pc' = [pc EXCEPT ![w] = "done"] /\ pc[w] = "report" /\ completed' = completed + 1
        /\ UNCHANGED <<gate, done, publish>>
    BY <1>6 DEF Report, Goto
  <2>2. Reported' = Reported \cup {w} /\ w \notin Reported
    BY <2>1, Apart DEF Reported, Types, Threads
  <2>3. IsFiniteSet(Reported) /\ Reported \subseteq Workers
    BY FS_Subset, PoolAssumption DEF Reported
  <2>4. Cardinality(Reported') = Cardinality(Reported) + 1 /\ Cardinality(Reported) \in Nat
    BY <2>2, <2>3, FS_AddElement, FS_CardinalityType
  <2>5. PICK c \in Callers : Running(c) /\ Working(w, c)
    BY <2>1, AtWork
  <2> QED
    BY <2>1, <2>4, <2>5, Apart, FiniteWorkers DEF Types, Threads, Turns, Holding, Dropping,
       Parked, Counts, Running, Announced
<1>7. ASSUME NEW w \in Workers, WorkerAtDone(w) PROVE Counts'
  <2>1. /\ pc' = [pc EXCEPT ![w] = "doneWait"] /\ pc[w] = "done" /\ done' = Arrive(done, w)
        /\ UNCHANGED <<gate, job, publish, seen, mine>>
    BY <1>7 DEF WorkerAtDone, Goto
  <2>2. \/ done' = {} /\ \E d \in Callers : done \cup {w} = Workers \cup {d}
        \/ done' = done \cup {w}
    BY <2>1, ArriveAtDone DEF Threads
  <2>3. CASE done' = {} /\ \E d \in Callers : done \cup {w} = Workers \cup {d}
    <3>1. PICK d \in Callers : done \cup {w} = Workers \cup {d}
      BY <2>3
    <3>2. /\ \A t \in Workers \cup {d} : t = w \/ t \in done
          /\ \A t \in Workers : pc'[t] = "doneWait"
      BY <2>1, <3>1, Apart DEF Parked, Types, Threads, WorkerPc
    <3>3. pc'[d] \in {"gateWait", "dropWait", "doneWait"}
      BY <2>1, <3>1, <3>2, Apart DEF Parked, Types, Threads
    <3>4. Reported' = Workers
      BY <3>2 DEF Reported
    <3>5. Cardinality(Reported') = Cardinality(Workers)
      BY <3>4, FS_EmptySet
    <3>6. completed' = completed
      BY <1>7 DEF WorkerAtDone
    <3> QED
      BY <2>1, <2>3, <3>1, <3>2, <3>3, <3>5, <3>6, Apart, FiniteWorkers DEF Types, Threads, Turns,
         Holding, Dropping, Parked, Counts, Running, Announced, Reported
  <2>4. CASE done' = done \cup {w}
    <3>1. Reported' = Reported /\ completed' = completed
      BY <1>7, <2>1, Apart DEF WorkerAtDone, Reported, Types, Threads
    <3> QED
      BY <2>1, <2>4, <3>1, Apart, FiniteWorkers DEF Types, Threads, Turns, Holding, Dropping,
         Parked, Counts, Running, Announced
  <2> QED
    BY <2>2, <2>3, <2>4
<1> USE Apart, FiniteWorkers DEF Goto, Types, Threads, Turns, Holding, Dropping, Parked,
     Counts, Running, Announced, Stages, Closing, Working, Resting, Reported
<1>8. ASSUME NEW c \in Callers, Enter(c) PROVE Counts'
  BY <1>8 DEF Enter
<1>9. ASSUME NEW c \in Callers, Reject(c) PROVE Counts'
  BY <1>9 DEF Reject, shared
<1>10. ASSUME NEW c \in Callers, Release(c) PROVE Counts'
  BY <1>10 DEF Release, shared
<1>11. ASSUME NEW c \in Callers, WriteJob(c) PROVE Counts'
  BY <1>11 DEF WriteJob
<1>12. ASSUME NEW c \in Callers, Publish(c) PROVE Counts'
  BY <1>12 DEF Publish
<1>13. ASSUME NEW c \in Callers, CallerChunk(c) PROVE Counts'
  BY <1>13 DEF CallerChunk, shared
<1>14. ASSUME NEW c \in Callers, CallerPoison(c) PROVE Counts'
  BY <1>14 DEF CallerPoison
<1>15. ASSUME NEW c \in Callers, CallerLeaves(c) PROVE Counts'
  BY <1>15 DEF CallerLeaves
<1>16. ASSUME NEW c \in Callers, Shutdown(c) PROVE Counts'
  BY <1>16 DEF Shutdown
<1>17. ASSUME NEW c \in Callers, Join(c) PROVE Counts'
  BY <1>17 DEF Join, shared
<1>18. ASSUME NEW w \in Workers, SeeJob(w) PROVE Counts'
  BY <1>18 DEF SeeJob, shared
<1>19. ASSUME NEW w \in Workers, SeeShutdown(w) PROVE Counts'
  BY <1>19 DEF SeeShutdown, shared
<1>20. ASSUME NEW w \in Workers, CopyJob(w) PROVE Counts'
  BY <1>20 DEF CopyJob, shared
<1>21. ASSUME NEW w \in Workers, WorkerChunk(w) PROVE Counts'
  BY <1>21 DEF WorkerChunk, shared
<1>22. ASSUME NEW w \in Workers, WorkerPoison(w) PROVE Counts'
  BY <1>22 DEF WorkerPoison
<1>23. ASSUME NEW w \in Workers, WorkerLeaves(w) PROVE Counts'
  BY <1>23 DEF WorkerLeaves, shared
<1>24. CASE UNCHANGED vars
  BY <1>24 DEF vars, shared
<1> QED
  BY <1>1, <1>2, <1>3, <1>4, <1>5, <1>6, <1>7, <1>8, <1>9, <1>10, <1>11, <1>12, <1>13, <1>14,
     <1>15, <1>16, <1>17, <1>18, <1>19, <1>20, <1>21, <1>22, <1>23, <1>24
  DEF Next, CallerStep, WorkerStep, Finished

\* Panics are caught inside a tick.
LEMMA NobodyCatches ==
  ASSUME Stages, \A c \in Callers : ~Running(c) PROVE ~Catching
BY AtWork, Apart DEF Catching, Running, Threads

\* Whoever has never ticked now had not before.
LEMMA FreshBefore ==
  ASSUME Types, NEW d \in Callers, [Next]_vars, Fresh(d)' PROVE Fresh(d)
<1> USE Apart DEF Goto, Types, Threads, Fresh, InTick, Holding
<1>1. ASSUME NEW c \in Callers, Enter(c) PROVE Fresh(d)
  BY <1>1 DEF Enter
<1>2. ASSUME NEW c \in Callers, Reject(c) PROVE Fresh(d)
  BY <1>2 DEF Reject, shared
<1>3. ASSUME NEW c \in Callers, Release(c) PROVE Fresh(d)
  BY <1>3 DEF Release, shared
<1>4. ASSUME NEW c \in Callers, WriteJob(c) PROVE Fresh(d)
  BY <1>4 DEF WriteJob
<1>5. ASSUME NEW c \in Callers, Publish(c) PROVE Fresh(d)
  BY <1>5 DEF Publish
<1>6. ASSUME NEW c \in Callers, CallerAtGate(c) PROVE Fresh(d)
  BY <1>6 DEF CallerAtGate
<1>7. ASSUME NEW c \in Callers, CallerChunk(c) PROVE Fresh(d)
  BY <1>7 DEF CallerChunk, shared
<1>8. ASSUME NEW c \in Callers, CallerPoison(c) PROVE Fresh(d)
  BY <1>8 DEF CallerPoison
<1>9. ASSUME NEW c \in Callers, CallerAtDone(c) PROVE Fresh(d)
  BY <1>9 DEF CallerAtDone
<1>10. ASSUME NEW c \in Callers, CallerLeaves(c) PROVE Fresh(d)
  BY <1>10 DEF CallerLeaves
<1>11. ASSUME NEW c \in Callers, Settle(c) PROVE Fresh(d)
  BY <1>11 DEF Settle
<1>12. ASSUME NEW c \in Callers, Shutdown(c) PROVE Fresh(d)
  BY <1>12 DEF Shutdown
<1>13. ASSUME NEW c \in Callers, DropAtGate(c) PROVE Fresh(d)
  BY <1>13 DEF DropAtGate
<1>14. ASSUME NEW c \in Callers, Join(c) PROVE Fresh(d)
  BY <1>14 DEF Join, shared
<1>15. ASSUME NEW w \in Workers, WorkerAtGate(w) PROVE Fresh(d)
  BY <1>15 DEF WorkerAtGate
<1>16. ASSUME NEW w \in Workers, SeeJob(w) PROVE Fresh(d)
  BY <1>16 DEF SeeJob, shared
<1>17. ASSUME NEW w \in Workers, SeeShutdown(w) PROVE Fresh(d)
  BY <1>17 DEF SeeShutdown, shared
<1>18. ASSUME NEW w \in Workers, CopyJob(w) PROVE Fresh(d)
  BY <1>18 DEF CopyJob, shared
<1>19. ASSUME NEW w \in Workers, WorkerChunk(w) PROVE Fresh(d)
  BY <1>19 DEF WorkerChunk, shared
<1>20. ASSUME NEW w \in Workers, WorkerPoison(w) PROVE Fresh(d)
  BY <1>20 DEF WorkerPoison
<1>21. ASSUME NEW w \in Workers, Report(w) PROVE Fresh(d)
  BY <1>21 DEF Report
<1>22. ASSUME NEW w \in Workers, WorkerAtDone(w) PROVE Fresh(d)
  BY <1>22 DEF WorkerAtDone
<1>23. ASSUME NEW w \in Workers, WorkerLeaves(w) PROVE Fresh(d)
  BY <1>23 DEF WorkerLeaves, shared
<1>24. CASE UNCHANGED vars
  BY <1>24 DEF vars, shared
<1> QED
  BY <1>1, <1>2, <1>3, <1>4, <1>5, <1>6, <1>7, <1>8, <1>9, <1>10, <1>11, <1>12, <1>13, <1>14,
     <1>15, <1>16, <1>17, <1>18, <1>19, <1>20, <1>21, <1>22, <1>23, <1>24
  DEF Next, CallerStep, WorkerStep, Finished

LEMMA BlameNext == Types /\ Turns /\ Stages /\ Blame /\ [Next]_vars => Blame'
<1> SUFFICES ASSUME Types, Turns, Stages, Blame, [Next]_vars, NEW b \in Callers, Only(b)'
             PROVE  Told(b)'
  BY DEF Blame
<1>a. Only(b) /\ Told(b)
  BY FreshBefore DEF Only, Blame
<1>b. \A d \in Callers : InTick(d) \/ InTick(d)' => d = b
  BY <1>a DEF Only, Fresh
<1>1. ASSUME NEW c \in Callers, CallerChunk(c) PROVE Told(b)'
  <2>1. PICK panic \in BOOLEAN :
          /\ pc' = [pc EXCEPT ![c] = IF panic THEN "poison" ELSE "done"] /\ pc[c] = "gateWait"
          /\ raised' = [raised EXCEPT ![c] = panic]
          /\ broken' = IF panic THEN broken \cup {c} ELSE broken
    BY <1>1 DEF CallerChunk, Goto
  <2>2. UNCHANGED <<poisoned, result>>
    BY <1>1 DEF CallerChunk, shared
  <2>3. c = b /\ InTick(b) /\ InTick(b)'
    BY <1>b, <2>1, Apart DEF InTick, Holding, Types, Threads
  <2>4. CASE panic
    <3>1. Catching' /\ b \in broken'
      BY <2>1, <2>3, <2>4 DEF Catching, Types, Threads
    <3> QED
      BY <2>3, <3>1 DEF Told
  <2>5. CASE ~panic
    <3>1. Catching' <=> Catching
      BY <2>1, <2>5 DEF Catching, Types, Threads
    <3>2. ~raised'[b] /\ broken' = broken
      BY <2>1, <2>3, <2>5 DEF Types
    <3> QED
      BY <1>a, <2>2, <2>3, <3>1, <3>2 DEF Told
  <2> QED
    BY <2>4, <2>5
<1>2. ASSUME NEW c \in Callers, Settle(c) PROVE Told(b)'
  <2>1. /\ pc[c] = "settle" /\ pc' = [pc EXCEPT ![c] = "idle"]
        /\ ~poisoned' /\ broken' = broken
        /\ result' = [result EXCEPT ![c] = CASE raised[c] -> "own panic"
                                             [] ~raised[c] /\ poisoned -> "worker panic"
                                             [] OTHER -> "ok"]
    BY <1>2 DEF Settle, Goto
  <2>2. c = b /\ InTick(b) /\ ~InTick(b)'
    BY <1>b, <2>1, Apart DEF InTick, Holding, Types, Threads
  <2>3. ~Catching /\ ~Catching'
    <3>1. \A d \in Callers : ~Running(d)
      BY <1>b, <2>1, <2>2 DEF Running, InTick, Holding
    <3>2. ~Catching
      BY <3>1, NobodyCatches
    <3> QED
      BY <2>1, <3>2 DEF Catching, Types, Threads
  <2>4. b \in broken <=> poisoned
    BY <1>a, <2>2, <2>3 DEF Told
  <2>5. result'[b] = "ok" => ~poisoned
    BY <2>1, <2>2 DEF Types
  <2>6. result'[b] = "worker panic" => poisoned
    BY <2>1, <2>2 DEF Types
  <2> QED
    BY <2>1, <2>2, <2>3, <2>4, <2>5, <2>6 DEF Told
<1>3. ASSUME NEW w \in Workers, WorkerChunk(w) PROVE Told(b)'
  <2>1. PICK panic \in BOOLEAN :
          /\ pc' = [pc EXCEPT ![w] = IF panic THEN "poison" ELSE "report"] /\ pc[w] = "chunk"
          /\ broken' = IF panic THEN broken \cup {mine[w]} ELSE broken
    BY <1>3 DEF WorkerChunk, Goto
  <2>2. UNCHANGED <<poisoned, result, raised>> /\ \A d \in Callers : pc'[d] = pc[d]
    BY <1>3, <2>1, Apart DEF WorkerChunk, shared, Types, Threads
  <2>3. mine[w] = b /\ InTick(b) /\ InTick(b)'
    <3>1. PICK d \in Callers : Running(d) /\ mine[w] = d
      BY <2>1, AtWork DEF Working
    <3>2. InTick(d) /\ InTick(d)'
      BY <2>2, <3>1 DEF Running, InTick, Holding
    <3> QED
      BY <1>b, <3>1, <3>2
  <2>4. CASE panic
    <3>1. Catching' /\ b \in broken'
      BY <2>1, <2>3, <2>4 DEF Catching, Types, Threads
    <3> QED
      BY <2>3, <3>1 DEF Told
  <2>5. CASE ~panic
    <3>1. (Catching' <=> Catching) /\ broken' = broken
      BY <2>1, <2>5 DEF Catching, Types, Threads
    <3> QED
      BY <1>a, <2>2, <2>3, <3>1 DEF Told
  <2> QED
    BY <2>4, <2>5
<1> USE <1>a, <1>b, Apart DEF Goto, Told, Catching, InTick, Holding, Types, Threads, Only,
     Fresh
<1>4. ASSUME NEW c \in Callers, Enter(c) PROVE Told(b)'
  BY <1>4 DEF Enter
<1>5. ASSUME NEW c \in Callers, Reject(c) PROVE Told(b)'
  BY <1>5 DEF Reject, shared
<1>6. ASSUME NEW c \in Callers, Release(c) PROVE Told(b)'
  BY <1>6 DEF Release, shared
<1>7. ASSUME NEW c \in Callers, WriteJob(c) PROVE Told(b)'
  BY <1>7 DEF WriteJob
<1>8. ASSUME NEW c \in Callers, Publish(c) PROVE Told(b)'
  BY <1>8 DEF Publish
<1>9. ASSUME NEW c \in Callers, CallerAtGate(c) PROVE Told(b)'
  BY <1>9 DEF CallerAtGate
<1>10. ASSUME NEW c \in Callers, CallerPoison(c) PROVE Told(b)'
  BY <1>10 DEF CallerPoison
<1>11. ASSUME NEW c \in Callers, CallerAtDone(c) PROVE Told(b)'
  BY <1>11 DEF CallerAtDone
<1>12. ASSUME NEW c \in Callers, CallerLeaves(c) PROVE Told(b)'
  BY <1>12 DEF CallerLeaves
<1>13. ASSUME NEW c \in Callers, Shutdown(c) PROVE Told(b)'
  BY <1>13 DEF Shutdown
<1>14. ASSUME NEW c \in Callers, DropAtGate(c) PROVE Told(b)'
  BY <1>14 DEF DropAtGate
<1>15. ASSUME NEW c \in Callers, Join(c) PROVE Told(b)'
  BY <1>15 DEF Join, shared
<1>16. ASSUME NEW w \in Workers, WorkerAtGate(w) PROVE Told(b)'
  BY <1>16 DEF WorkerAtGate
<1>17. ASSUME NEW w \in Workers, SeeJob(w) PROVE Told(b)'
  BY <1>17 DEF SeeJob, shared
<1>18. ASSUME NEW w \in Workers, SeeShutdown(w) PROVE Told(b)'
  BY <1>18 DEF SeeShutdown, shared
<1>19. ASSUME NEW w \in Workers, CopyJob(w) PROVE Told(b)'
  BY <1>19 DEF CopyJob, shared
<1>20. ASSUME NEW w \in Workers, WorkerPoison(w) PROVE Told(b)'
  BY <1>20 DEF WorkerPoison
<1>21. ASSUME NEW w \in Workers, Report(w) PROVE Told(b)'
  BY <1>21 DEF Report
<1>22. ASSUME NEW w \in Workers, WorkerAtDone(w) PROVE Told(b)'
  BY <1>22 DEF WorkerAtDone
<1>23. ASSUME NEW w \in Workers, WorkerLeaves(w) PROVE Told(b)'
  BY <1>23 DEF WorkerLeaves, shared
<1>24. CASE UNCHANGED vars
  BY <1>24 DEF vars, shared
<1> QED
  BY <1>1, <1>2, <1>3, <1>4, <1>5, <1>6, <1>7, <1>8, <1>9, <1>10, <1>11, <1>12, <1>13, <1>14,
     <1>15, <1>16, <1>17, <1>18, <1>19, <1>20, <1>21, <1>22, <1>23, <1>24
  DEF Next, CallerStep, WorkerStep, Finished

LEMMA PoolInit == Init => PoolInv
<1> SUFFICES ASSUME Init PROVE PoolInv
  OBVIOUS
<1>1. /\ \A w \in Workers : pc[w] = "gate"
      /\ \A c \in Callers : pc[c] = "idle"
  BY Apart DEF Init
<1>2. Types
  <2>1. pc \in [Threads -> CallerPc \cup WorkerPc]
    BY DEF Init, Threads, CallerPc, WorkerPc
  <2>2. /\ \A w \in Workers : pc[w] \in WorkerPc
        /\ \A c \in Callers : pc[c] \in CallerPc
    BY <1>1 DEF CallerPc, WorkerPc
  <2>3. /\ seen \in [Workers -> 0 .. MaxTicks] /\ mine \in [Workers -> Callers \cup {Nobody}]
        /\ raised \in [Callers -> BOOLEAN] /\ result \in [Callers -> Results]
    BY Apart DEF Init, Results
  <2>4. job \in Callers \cup {Nobody} /\ publish \in 0 .. MaxTicks /\ completed \in Nat
    BY Apart DEF Init
  <2>5. /\ poisoned \in BOOLEAN /\ shutdown \in BOOLEAN /\ inUse \in BOOLEAN
        /\ broken \subseteq Callers
    BY DEF Init
  <2> QED
    BY <2>1, <2>2, <2>3, <2>4, <2>5 DEF Types
<1>3. Turns
  BY <1>1 DEF Init, Turns, Holding, Dropping
<1>4. Parked
  BY DEF Init, Parked
<1>5. Stages
  BY <1>1, Apart DEF Init, Stages, Running, Closing, Announced, Resting
<1>6. Counts
  <2>1. publish * Cardinality(Workers) = 0 /\ completed = 0
    BY FiniteWorkers DEF Init
  <2> QED
    BY <1>1, <2>1 DEF Counts, Running, Announced
<1>7. Blame
  <2>1. ~Catching
    BY <1>1 DEF Catching, Threads
  <2> QED
    BY <1>1, <2>1 DEF Init, Blame, Told, InTick, Holding
<1> QED
  BY <1>2, <1>3, <1>4, <1>5, <1>6, <1>7 DEF PoolInv

LEMMA PoolNext == PoolInv /\ [Next]_vars => PoolInv'
BY TypesNext, TurnsNext, ParkedNext, StagesNext, CountsNext, BlameNext DEF PoolInv

\* The threads of the pool are in step at every moment of every behaviour.
THEOREM PoolInvariant == Spec => []PoolInv
BY PoolInit, PoolNext, PTL DEF Spec
-----------------------------------------------------------------------------
\* The bounds that Types leaves out.
LEMMA BarriersNeverFull ==
  ASSUME PoolInv PROVE Cardinality(gate) < Participants /\ Cardinality(done) < Participants
<1>1. ASSUME NEW barrier, NEW c \in Callers, barrier \subseteq Workers \cup {c},
             ~(Workers \cup {c} \subseteq barrier)
      PROVE  Cardinality(barrier) < Participants
  <2>1. PICK t \in Workers \cup {c} : t \notin barrier
    BY <1>1
  <2> QED
    BY <1>1, <2>1, Rendezvous
<1>2. \E c \in Callers : gate \subseteq Workers \cup {c}
  <2>1. \A c, d \in Callers : c \in gate /\ d \in gate => c = d
    BY DEF PoolInv, Turns, Parked, Holding, Dropping
  <2> QED
    BY <2>1, Apart DEF PoolInv, Parked, Threads
<1>3. \E c \in Callers : done \subseteq Workers \cup {c}
  <2>1. \A c, d \in Callers : c \in done /\ d \in done => c = d
    BY DEF PoolInv, Turns, Parked, Holding
  <2> QED
    BY <2>1, Apart DEF PoolInv, Parked, Threads
<1> QED
  BY <1>1, <1>2, <1>3 DEF PoolInv, Parked

LEMMA ReportsBounded == ASSUME PoolInv PROVE completed \in 0 .. MaxTicks * Cardinality(Workers)
<1> DEFINE n == Cardinality(Workers)
<1>1. n \in Nat /\ MaxTicks \in Nat /\ publish \in Nat /\ publish <= MaxTicks /\ completed \in Nat
  BY FiniteWorkers, Apart DEF PoolInv, Types
<1>2. Cardinality(Reported) \in Nat /\ Cardinality(Reported) <= n
  BY FS_Subset, FS_CardinalityType, PoolAssumption DEF Reported
<1>3. completed <= publish * n
  <2> HIDE DEF n
  <2>1. publish * n \in Nat
    BY <1>1
  <2>2. \/ completed + n = publish * n + Cardinality(Reported)
        \/ completed + n = publish * n
        \/ completed = publish * n
    BY DEF PoolInv, Counts, n
  <2> QED
    BY <1>1, <1>2, <2>1, <2>2
<1>4. publish * n <= MaxTicks * n
  <2> HIDE DEF n
  <2>1. PICK k \in Nat : MaxTicks = publish + k
    <3>1. MaxTicks - publish \in Nat /\ MaxTicks = publish + (MaxTicks - publish)
      BY <1>1
    <3> QED
      BY <3>1
  <2>2. (publish + k) * n = publish * n + k * n /\ k * n \in Nat /\ publish * n \in Nat
    BY <1>1, <2>1
  <2> QED
    BY <2>1, <2>2
<1> HIDE DEF n
<1>5. publish * n \in Nat /\ MaxTicks * n \in Nat
  BY <1>1
<1>6. completed \in 0 .. MaxTicks * n
  BY <1>1, <1>3, <1>4, <1>5
<1> QED
  BY <1>6 DEF n

\* Every flag, counter and program counter of the pool stays in its range.
THEOREM TypeCorrect == Spec => []TypeOK
<1>1. PoolInv => TypeOK
  <2> SUFFICES ASSUME PoolInv PROVE TypeOK
    OBVIOUS
  <2>1. gate \subseteq Threads /\ done \subseteq Threads
    BY DEF PoolInv, Parked
  <2> QED
    BY <2>1, BarriersNeverFull, ReportsBounded DEF PoolInv, Types, TypeOK, Threads
<1> QED
  BY <1>1, PoolInvariant, PTL

\* No worker reads the job cell, and no other thread writes it, while a ticking
\* thread does: the SAFETY comment on Shared::job.
THEOREM CellIsExclusive == Spec => []CellExclusive
<1>1. PoolInv => CellExclusive
  <2> SUFFICES ASSUME PoolInv, NEW c \in Callers, pc[c] = "write"
               PROVE  /\ \A w \in Workers : pc[w] # "copy"
                      /\ \A d \in Callers \ {c} : pc[d] \notin {"write", "publish"}
    BY DEF CellExclusive
  <2>1. \A d \in Callers : Holding(d) => d = c
    BY DEF PoolInv, Turns, Holding
  <2>2. \A d \in Callers : ~Running(d)
    BY <2>1 DEF Running, Holding
  <2>3. \A w \in Workers : pc[w] # "copy"
    BY <2>2, AtWork DEF PoolInv
  <2> QED
    BY <2>1, <2>3 DEF Holding
<1> QED
  BY <1>1, PoolInvariant, PTL

\* A worker dereferences the job's pointers only while their owner is in `run'.
THEOREM ChunksStayInTheirTick == Spec => []ChunkInsideItsTick
<1>1. PoolInv => ChunkInsideItsTick
  <2> SUFFICES ASSUME PoolInv, NEW w \in Workers, pc[w] \in {"copy", "chunk"}
               PROVE  /\ pc[w] = "copy" => job \in Callers /\ InsideTick(job)
                      /\ pc[w] = "chunk" => mine[w] = job /\ InsideTick(mine[w])
    BY DEF ChunkInsideItsTick
  <2>1. PICK c \in Callers : Running(c) /\ Working(w, c)
    BY AtWork DEF PoolInv
  <2>2. job = c /\ InsideTick(c)
    BY <2>1 DEF PoolInv, Stages, Running, InsideTick
  <2>3. pc[w] = "chunk" => mine[w] = c
    BY <2>1 DEF Working
  <2> QED
    BY <2>2, <2>3
<1> QED
  BY <1>1, PoolInvariant, PTL

\* Past `done', every worker has run this epoch, for this caller, exactly once.
THEOREM EveryWorkerReports == Spec => []AllReported
<1>1. PoolInv => AllReported
  <2> SUFFICES ASSUME PoolInv, NEW c \in Callers, pc[c] = "doneWait", c \notin done
               PROVE  /\ completed = publish * Cardinality(Workers)
                      /\ \A w \in Workers : seen[w] = publish /\ mine[w] = c
    BY DEF AllReported
  <2>1. \A d \in Callers : Holding(d) => d = c
    BY DEF PoolInv, Turns, Holding
  <2>2. \A d \in Callers : ~Running(d) /\ ~Announced(d)
    BY <2>1 DEF Running, Announced, Holding
  <2> QED
    BY <2>2 DEF PoolInv, Stages, Counts
<1> QED
  BY <1>1, PoolInvariant, PTL

\* A clone that ticks alone never mistakes an abandoned tick for a complete one,
\* nor is it ever blamed for a panic of an earlier tick.
THEOREM LoneTicksAreTrue == Spec => []LoneTicksAreToldTheTruth
<1>1. PoolInv => LoneTicksAreToldTheTruth
  <2> SUFFICES ASSUME PoolInv, NEW c \in Callers, Alone(c), pc[c] = "idle"
               PROVE  /\ result[c] = "ok" => c \notin broken
                      /\ result[c] = "worker panic" => c \in broken
    BY DEF LoneTicksAreToldTheTruth
  <2>1. Only(c)
    BY DEF Alone, Only, Fresh, InTick, Holding
  <2> QED
    BY <2>1 DEF PoolInv, Blame, Told, InTick, Holding
<1> QED
  BY <1>1, PoolInvariant, PTL
=============================================================================
