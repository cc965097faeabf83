------------------------------ MODULE MergeGate ------------------------------
(***************************************************************************)
(* The lab's merge gate (tools/mmd-lab/src/gate.rs, {ubuntu,windows,       *)
(* macos}_gate.rs, verify.rs): a candidate is run on a host that is ready, *)
(* the host is to be restored at once, and one run of every lane together  *)
(* decide whether the owner may merge.                                     *)
(*                                                                         *)
(* One host, of any kind, is followed through restores and runs; what the  *)
(* other two lanes collected is an input.  Evidence is the set of what is  *)
(* wrong with it.  The agents, the samples and the pictures are left out.  *)
(***************************************************************************)
EXTENDS Recovery, Naturals, FiniteSets, Sequences

CONSTANTS MaxDefects   \* how much can be wrong at once with one evidence

ASSUME DefectsAssumption == MaxDefects \in Nat

\* Lanes that ran different archives are not a defect of their own: one of
\* them ran another than the expected one.
Defects == {"other hash", "unverified", "no samples", "undrained", "overrun", "allocates", "noisy",
            "slow", "forged", "other host", "stale schema", "no scale"}
Evidence == {e \in SUBSET Defects : Cardinality(e) <= MaxDefects}

Verdicts == {"pass", "inconclusive", "fail", "error"}

Runs == [verdict : Verdicts, golden : BOOLEAN, reset : BOOLEAN, evidence : SUBSET Defects]

VARIABLES
  lanes,      \* what has been collected of every lane
  tainted,    \* a candidate's traces were on the host when its run began
  refused,    \* the host is as a run left it whose restore was not started
  decision    \* what the gate decided

gate == <<lanes, tainted, refused, decision>>
vars == <<host, gate>>

\* The three lanes and the host's markers have the shapes the code gives them;
\* in particular a host in quarantine has no marker left that a provision could
\* be let through by.
TypeOK ==
  /\ TypeOKHost
  /\ lanes \in [Kinds -> Seq(Runs)] /\ tainted \in BOOLEAN /\ refused \in BOOLEAN
  /\ decision \in {"none", "merge", "blocked"}

Nothing == [k \in Kinds |-> <<>>]

Init ==
  /\ InitHost
  /\ lanes = Nothing /\ tainted = FALSE /\ refused = FALSE /\ decision = "none"
-----------------------------------------------------------------------------
Rank(v) == CASE v = "pass" -> 0 [] v = "inconclusive" -> 1 [] v = "fail" -> 2 [] v = "error" -> 3

\* `worse', folded.
Worst(S) == CHOOSE v \in S : \A w \in S : Rank(w) <= Rank(v)

When(bad, v) == IF bad THEN v ELSE "pass"

\* verify_host and absolute_gate: the first thing that is wrong decides.  A
\* claim that the recomputed figures do not bear out spoils a pass, and leaves
\* any other verdict as it is.
HostVerdict(e) ==
  IF e \cap {"other hash", "unverified"} # {} THEN "fail"
  ELSE IF e \cap {"no samples", "undrained", "overrun"} # {} THEN "error"
  ELSE IF "allocates" \in e THEN "fail"
  ELSE IF "noisy" \in e THEN "inconclusive"
  ELSE When(e \cap {"slow", "forged"} # {}, "fail")

\* The lane's own verdict on a run.
LaneVerdict(e, golden, reset) ==
  Worst({When("other host" \in e, "fail"), HostVerdict(e), When(~golden, "fail"),
         When(~reset, "error")})

LaneRun(e, golden, reset) ==
  [verdict |-> LaneVerdict(e, golden, reset), golden |-> golden, reset |-> reset, evidence |-> e]

\* A lane that stops before the candidate runs.  What evidence there is all
\* the same is collected for the gate.
StoppedRun(v, reset, e) == [verdict |-> v, golden |-> FALSE, reset |-> reset, evidence |-> e]

Collected == lanes[kind] # <<>>

Collect(run) == lanes' = [lanes EXCEPT ![kind] = <<run>>] /\ tainted' = used /\ UNCHANGED decision

\* Attestation refuses, or the protocol is not at its end: no dispatch.
Refuse(attested, e) ==
  /\ ~Collected /\ ~(attested /\ phase = "ready")
  /\ Collect(StoppedRun("fail", FALSE, e))
  /\ UNCHANGED <<host, refused>>

\* Mutant of Unreset: a Mac stays ready as well.
UnresetAll == UNCHANGED <<kind, phase, markers, names, network, passed>>

\* The restore could not be started: a Mac is quarantined, a PC stays ready.
Unreset ==
  IF kind = "macos" THEN Quarantine /\ Disregarded
  ELSE UNCHANGED <<kind, phase, markers, names, network, passed>>

\* What a dispatch does to the host: it is to be restored at once.
Afterwards(reset) ==
  /\ used' = TRUE /\ refused' = ~reset
  /\ IF reset THEN Restart("boot") ELSE Unreset

\* An archive that does not arrive whole is not run, but the host is restored.
FailToDeliver(reset, e) ==
  /\ ~Collected /\ phase = "ready"
  /\ Collect(StoppedRun(IF reset THEN "fail" ELSE "error", reset, e \cup {"other hash"}))
  /\ Afterwards(reset)

\* run_ubuntu_gate, run_windows_gate, run_macos_gate.  None of them asks
\* whether the host that is ready has been restored since the last run.
RunCandidate(golden, reset, e) ==
  /\ ~Collected /\ phase = "ready"
  /\ Collect(LaneRun(e, golden, reset))
  /\ Afterwards(reset)

\* The protocol, between the runs.
RecoverHost ==
  /\ ~Collected /\ Recover
  /\ refused' = (refused /\ phase' = phase)
  /\ UNCHANGED <<lanes, tainted, decision>>
-----------------------------------------------------------------------------
\* What the aggregate makes of one run: the lane's verdict and its own
\* recomputation, whichever is worse, and what only the aggregate looks at.
Folded(r) ==
  Worst({r.verdict, HostVerdict(r.evidence), When(~r.golden, "fail"), When(~r.reset, "error"),
         When(r.evidence \cap {"stale schema", "no scale"} # {}, "fail")})

\* A lane that is missing, and one that ran twice.
LaneOverall(rs) ==
  IF rs = <<>> THEN "fail" ELSE Worst({Folded(rs[1]), When(Len(rs) > 1, "error")})

Clean == LaneRun({}, TRUE, TRUE)

\* A lane whose set-up fails is missing from the aggregate.
OtherLanes ==
  {<<>>, <<Clean, Clean>>, <<LaneRun({}, FALSE, TRUE)>>, <<LaneRun({}, TRUE, FALSE)>>}
    \cup {<<LaneRun({d}, TRUE, TRUE)>> : d \in Defects}

\* aggregate_merge_gate, with the other lanes clean but for one of them.
Aggregate(other, rs) ==
  /\ Collected /\ decision = "none" /\ other # kind
  /\ lanes' = [k \in Kinds |-> CASE k = kind -> lanes[k] [] k = other -> rs [] OTHER -> <<Clean>>]
  /\ decision' = IF \A k \in Kinds : LaneOverall(lanes'[k]) = "pass" THEN "merge" ELSE "blocked"
  /\ UNCHANGED <<host, tainted, refused>>

NewRound ==
  /\ decision # "none"
  /\ lanes' = Nothing /\ decision' = "none" /\ tainted' = FALSE
  /\ UNCHANGED <<host, refused>>

Next ==
  \/ RecoverHost
  \/ \E e \in Evidence, ok, reset \in BOOLEAN :
       \/ Refuse(ok, e) \/ FailToDeliver(reset, e) \/ RunCandidate(ok, reset, e)
  \/ \E other \in Kinds, rs \in OtherLanes \cup {<<Clean>>} : Aggregate(other, rs)
  \/ NewRound

Spec == Init /\ [][Next]_vars
-----------------------------------------------------------------------------
\* A host that the protocol declares ready has had its disk rewritten and
\* checked, has an identity, stands on the candidate network and passed both
\* checks, whatever came between and however often the restore began anew.
\* The one way to be ready with a candidate's traces is a PC whose restore
\* after a run was not started.
ReadyIsRestored ==
  phase = "ready" =>
    /\ Restored /\ network = "candidate" /\ passed = {"attestation", "canary"}
    /\ used => refused /\ kind # "macos"

\* The owner is told to merge only when every lane ran exactly once, nothing
\* is wrong with any evidence, every picture is the golden one and every
\* restore was started.  A Mac's run began on a host without a candidate's
\* traces; a PC's need not have.
MergeIsEarned ==
  decision = "merge" =>
    /\ \A k \in Kinds : Len(lanes[k]) = 1 /\ lanes[k][1].evidence = {}
                        /\ lanes[k][1].golden /\ lanes[k][1].reset
    /\ tainted => kind # "macos"
=============================================================================
