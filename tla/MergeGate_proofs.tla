--------------------------- MODULE MergeGate_proofs ---------------------------
(***************************************************************************)
(* What a ready host and a decision to merge rest on, for any identities   *)
(* and however much is wrong with the evidence at once.  The first half is *)
(* about the protocol of Recovery alone, step by step; the second about    *)
(* the runs and the fold of their verdicts.                                *)
(***************************************************************************)
EXTENDS MergeGate, SequenceTheorems, TLAPS

Rewritten ==
  {"enrolling", "rotating", "to provisioning", "to candidate", "attesting", "canary", "ready"}
Named == Rewritten \ {"enrolling", "rotating"}

\* What every phase may count on.
PhaseInv ==
  /\ image <=> phase \in Rewritten
  /\ enrolled => image /\ kind = "macos"
  /\ kind = "macos" /\ phase \in Rewritten \ {"enrolling"} => enrolled
  /\ phase \in Named => identity # None
  /\ phase \in {"attesting", "canary", "ready"} => network = "candidate"
  /\ phase \in {"canary", "ready"} => "attestation" \in passed
  /\ phase = "ready" => "canary" \in passed
  /\ image /\ phase # "ready" => ~used

HostInv == TypeOKHost /\ PhaseInv

LEMMA HostInit == InitHost => HostInv
BY DEF InitHost, HostInv, TypeOKHost, PhaseInv, PhasesOf, Kinds, Moving, Rewritten, Named

\* A quarantine whatever the phase.
LEMMA QuarantineKeeps ==
  ASSUME HostInv, Quarantine, UNCHANGED <<kind, names>>,
         network' \in Networks \cup {None}, used' \in BOOLEAN, passed' = passed
  PROVE  HostInv'
BY DEF HostInv, TypeOKHost, PhaseInv, Quarantine, names, PhasesOf, Kinds, Rewritten, Named

LEMMA RestartKeeps ==
  ASSUME HostInv, NEW p \in {"boot", "dfu"}, Restart(p), used' \in BOOLEAN,
         p = "dfu" => kind = "macos"
  PROVE  HostInv'
BY DEF HostInv, TypeOKHost, PhaseInv, Restart, PhasesOf, Kinds, Rewritten, Named

LEMMA RequestKeeps ==
  ASSUME HostInv, NEW b \in BOOLEAN, NEW from, NEW p \in {"boot", "dfu"}, Request(b, from, p),
         p = "dfu" => kind = "macos"
  PROVE  HostInv'
<1>0. used' \in BOOLEAN /\ network \in Networks \cup {None}
  BY DEF Request, HostInv, TypeOKHost
<1>1. CASE Restart(p)
  BY <1>0, <1>1, RestartKeeps
<1>2. CASE Quarantine /\ Disregarded
  BY <1>0, <1>2, QuarantineKeeps DEF Disregarded
<1> QED BY <1>1, <1>2 DEF Request

LEMMA RecoverKeeps == ASSUME HostInv, Recover PROVE HostInv'
<1> USE DEF HostInv, names, markers
<1>1. ASSUME NEW b \in BOOLEAN, StartExternalRestore(b) PROVE HostInv'
  BY <1>1, RequestKeeps DEF StartExternalRestore
<1>2. ASSUME NEW b \in BOOLEAN, StartDfuFallback(b) PROVE HostInv'
  BY <1>2, RequestKeeps DEF StartDfuFallback
<1>3. ASSUME NEW b \in BOOLEAN, BootConfirmed(b) PROVE HostInv'
  BY <1>3 DEF BootConfirmed, Quarantine, TypeOKHost, PhaseInv, PhasesOf, Networks, Rewritten, Named
<1>4. ASSUME NEW b \in BOOLEAN, Written(b) PROVE HostInv'
  BY <1>4 DEF Written, Quarantine, TypeOKHost, PhaseInv, PhasesOf, Rewritten, Named
<1>5. ASSUME NEW b \in BOOLEAN, DfuRestoreFinished(b) PROVE HostInv'
  BY <1>5 DEF DfuRestoreFinished, Quarantine, TypeOKHost, PhaseInv, PhasesOf, Networks, Kinds, Moving, Rewritten, Named
<1>6. ASSUME NEW b \in BOOLEAN, MdmReenrollFinished(b) PROVE HostInv'
  BY <1>6 DEF MdmReenrollFinished, Quarantine, Disregarded, TypeOKHost, PhaseInv, PhasesOf, Kinds, Moving, Rewritten, Named
<1>7. ASSUME NEW b \in BOOLEAN, AttestationFinished(b) PROVE HostInv'
  BY <1>7 DEF AttestationFinished, Quarantine, TypeOKHost, PhaseInv, PhasesOf, Rewritten, Named
<1>8. ASSUME NEW b \in BOOLEAN, EgressCanaryFinished(b) PROVE HostInv'
  BY <1>8 DEF EgressCanaryFinished, Quarantine, TypeOKHost, PhaseInv, PhasesOf, Rewritten, Named
<1>9. ASSUME NEW new \in Identities \cup {None}, NEW prior \in Identities \cup {None},
             HostIdentityRotated(new, prior)
      PROVE  HostInv'
  BY <1>9 DEF HostIdentityRotated, Quarantine, TypeOKHost, PhaseInv, PhasesOf, Moving, Rewritten, Named
<1>10. ASSUME NEW n \in Networks, NetworkMoved(n) PROVE HostInv'
  BY <1>10 DEF NetworkMoved, Destination, Quarantine, TypeOKHost, PhaseInv, PhasesOf, Moving, Networks, Rewritten, Named
<1>11. ASSUME ForceQuarantine PROVE HostInv'
  BY <1>11, QuarantineKeeps DEF ForceQuarantine, Disregarded, TypeOKHost
<1> QED
  BY <1>1, <1>2, <1>3, <1>4, <1>5, <1>6, <1>7, <1>8, <1>9, <1>10, <1>11 DEF Recover
-----------------------------------------------------------------------------
\* The worst of some verdicts is one of them, and no other is worse.
LEMMA WorstOf ==
  ASSUME NEW S \in SUBSET Verdicts, S # {}
  PROVE  Worst(S) \in S /\ \A v \in S : Rank(v) <= Rank(Worst(S))
<1>1. \E v \in S : \A w \in S : Rank(w) <= Rank(v)
  <2>1. CASE "error" \in S BY <2>1 DEF Rank, Verdicts
  <2>2. CASE "error" \notin S /\ "fail" \in S BY <2>2 DEF Rank, Verdicts
  <2>3. CASE S \cap {"error", "fail"} = {} /\ "inconclusive" \in S BY <2>3 DEF Rank, Verdicts
  <2>4. CASE S = {"pass"} BY <2>4 DEF Rank, Verdicts
  <2> QED BY <2>1, <2>2, <2>3, <2>4 DEF Verdicts
<1> QED BY <1>1 DEF Worst

\* ... so that it is a pass only of passes.
LEMMA PassOfPasses ==
  ASSUME NEW S \in SUBSET Verdicts, S # {}, Worst(S) = "pass", NEW v \in S
  PROVE  v = "pass"
<1>1. Rank(v) <= 0
  BY WorstOf DEF Rank
<1> QED BY <1>1 DEF Rank, Verdicts

LEMMA VerdictTypes ==
  /\ \A e : HostVerdict(e) \in Verdicts
  /\ \A b \in BOOLEAN, v \in Verdicts : When(b, v) \in Verdicts
<1>1. \A b \in BOOLEAN, v \in Verdicts : When(b, v) \in Verdicts
  BY DEF When, Verdicts
<1>2. \A e : HostVerdict(e) \in Verdicts
  BY DEF HostVerdict, When, Verdicts
<1> QED BY <1>1, <1>2

\* A lane passes its own run only if the evidence is of the host that ran.
LEMMA LaneRunTypes ==
  ASSUME NEW e \in SUBSET Defects, NEW g \in BOOLEAN, NEW r \in BOOLEAN
  PROVE  /\ LaneRun(e, g, r) \in Runs
         /\ LaneVerdict(e, g, r) = "pass" => "other host" \notin e
<1> DEFINE S == {When("other host" \in e, "fail"), HostVerdict(e), When(~g, "fail"), When(~r, "error")}
<1>1. S \in SUBSET Verdicts /\ S # {}
  BY VerdictTypes DEF Verdicts, When
<1>2. LaneVerdict(e, g, r) = Worst(S)
  BY DEF LaneVerdict
<1>3. LaneVerdict(e, g, r) \in Verdicts
  BY <1>1, <1>2, WorstOf
<1>4. LaneVerdict(e, g, r) = "pass" => When("other host" \in e, "fail") = "pass"
  <2> SUFFICES ASSUME LaneVerdict(e, g, r) = "pass" PROVE When("other host" \in e, "fail") = "pass"
    OBVIOUS
  <2>1. \A v \in S : v = "pass"
    <3> HIDE DEF S
    <3> QED BY <1>1, <1>2, PassOfPasses
  <2> QED BY <2>1
<1> QED BY <1>3, <1>4 DEF LaneRun, Runs, When

\* A run that the aggregate passes is golden, was reset, and has no defect but
\* the one the lane itself has to find.
LEMMA FoldedPass ==
  ASSUME NEW r \in Runs, Folded(r) = "pass"
  PROVE  r.verdict = "pass" /\ r.golden /\ r.reset /\ r.evidence \subseteq {"other host"}
<1> DEFINE e == r.evidence
           schema == When(e \cap {"stale schema", "no scale"} # {}, "fail")
           S == {r.verdict, HostVerdict(e), When(~r.golden, "fail"), When(~r.reset, "error"), schema}
<1>0. r.verdict \in Verdicts /\ e \subseteq Defects /\ r.golden \in BOOLEAN /\ r.reset \in BOOLEAN
  BY DEF Runs
<1>1. S \in SUBSET Verdicts /\ S # {}
  BY <1>0, VerdictTypes DEF Verdicts
<1>2. Worst(S) = "pass"
  BY DEF Folded
<1>3. \A v \in S : v = "pass"
  BY <1>1, <1>2, PassOfPasses
<1>4. r.verdict = "pass" /\ r.golden /\ r.reset
  BY <1>0, <1>3 DEF When
<1>5. HostVerdict(e) = "pass" /\ schema = "pass"
  BY <1>3
<1>6. e \cap {"other hash", "unverified", "no samples", "undrained", "overrun", "allocates", "noisy",
             "slow", "forged"} = {}
  BY <1>5 DEF HostVerdict, When
<1>7. e \cap {"stale schema", "no scale"} = {}
  BY <1>5 DEF When
<1>8. \A d \in e : d = "other host"
  BY <1>0, <1>6, <1>7 DEF Defects
<1> QED BY <1>4, <1>8

LEMMA OneAtMost == ASSUME NEW n \in Nat, n # 0, ~(n > 1) PROVE n = 1
OBVIOUS

LEMMA NoneIsNotOne == 0 # 1
OBVIOUS

LEMMA OneOnly ==
  ASSUME NEW T, NEW x \in T
  PROVE  <<x>> \in Seq(T) /\ Len(<<x>>) = 1 /\ <<x>>[1] = x /\ <<x>> # <<>>
OBVIOUS

LEMMA LaneOverallPass ==
  ASSUME NEW rs \in Seq(Runs), LaneOverall(rs) = "pass"
  PROVE  Len(rs) = 1 /\ rs[1] \in Runs /\ Folded(rs[1]) = "pass"
<1>1. rs # <<>> /\ Len(rs) \in Nat \ {0} /\ rs[1] \in Runs
  BY DEF LaneOverall
<1> DEFINE S == {Folded(rs[1]), When(Len(rs) > 1, "error")}
           T == {rs[1].verdict, HostVerdict(rs[1].evidence), When(~rs[1].golden, "fail"),
                 When(~rs[1].reset, "error"),
                 When(rs[1].evidence \cap {"stale schema", "no scale"} # {}, "fail")}
<1>2. T \in SUBSET Verdicts /\ T # {} /\ Folded(rs[1]) = Worst(T)
  BY <1>1, VerdictTypes DEF Verdicts, Runs, Folded
<1>3. Folded(rs[1]) \in Verdicts
  BY <1>2, WorstOf
<1>4. S \in SUBSET Verdicts /\ S # {}
  BY <1>3 DEF Verdicts, When
<1>5. Worst(S) = "pass"
  BY <1>1 DEF LaneOverall
<1>6. \A v \in S : v = "pass"
  <2> HIDE DEF S
  <2> QED BY <1>4, <1>5, PassOfPasses
<1>7. Folded(rs[1]) = "pass" /\ When(Len(rs) > 1, "error") = "pass"
  BY <1>6
<1>8. ~(Len(rs) > 1)
  BY <1>7 DEF When
<1>9. Len(rs) = 1
  <2> HIDE DEF S, T
  <2>1. Len(rs) \in Nat /\ Len(rs) # 0
    BY <1>1
  <2> QED BY <2>1, <1>8, OneAtMost
<1> QED BY <1>1, <1>7, <1>9
-----------------------------------------------------------------------------
\* A lane's own verdict is a pass only if the evidence is of the host that ran
\* and no Mac ran on a candidate's traces.
LaneInv ==
  Collected /\ decision = "none" =>
    /\ Len(lanes[kind]) = 1
    /\ lanes[kind][1].verdict = "pass" =>
         "other host" \notin lanes[kind][1].evidence /\ (tainted => kind # "macos")

GateInv == TypeOK /\ HostInv /\ ReadyIsRestored /\ LaneInv /\ MergeIsEarned

LEMMA GateInit == Init => GateInv
<1> SUFFICES ASSUME Init PROVE GateInv
  OBVIOUS
<1>1. HostInv
  BY HostInit DEF Init
<1>2. TypeOK
  <2>1. <<>> \in Seq(Runs)
    OBVIOUS
  <2>2. lanes \in [Kinds -> Seq(Runs)]
    BY <2>1 DEF Init, Nothing
  <2> QED BY <1>1, <2>2 DEF Init, HostInv, TypeOK
<1>3. ~Collected
  BY DEF Init, InitHost, Nothing, Collected
<1>4. LaneInv
  BY <1>3 DEF LaneInv
<1>5. ReadyIsRestored /\ MergeIsEarned
  BY DEF Init, InitHost, ReadyIsRestored, MergeIsEarned
<1> QED BY <1>1, <1>2, <1>4, <1>5 DEF GateInv

\* A run that is collected for the host's own lane.
LEMMA CollectKeeps ==
  ASSUME GateInv, NEW run \in Runs, ~Collected, Collect(run), kind' = kind,
         TypeOKHost', refused' \in BOOLEAN,
         run.verdict = "pass" => "other host" \notin run.evidence /\ (used => kind # "macos")
  PROVE  TypeOK' /\ LaneInv' /\ MergeIsEarned'
<1>1. kind \in Kinds /\ used \in BOOLEAN /\ lanes \in [Kinds -> Seq(Runs)]
  BY DEF GateInv, HostInv, TypeOKHost, TypeOK
<1>2. lanes'[kind] = <<run>> /\ lanes' \in [Kinds -> Seq(Runs)]
  <2>1. <<run>> \in Seq(Runs)
    BY OneOnly
  <2>2. lanes' = [lanes EXCEPT ![kind] = <<run>>]
    BY DEF Collect
  <2> HIDE DEF Collect
  <2> QED BY <1>1, <2>1, <2>2
<1>3. TypeOK'
  BY <1>1, <1>2 DEF TypeOK, GateInv, Collect
<1>4. LaneInv'
  <2>1. lanes'[kind'] = <<run>> /\ tainted' = used
    BY <1>2 DEF Collect
  <2>2. Len(lanes'[kind']) = 1 /\ lanes'[kind'][1] = run
    BY <2>1, OneOnly
  <2> QED BY <2>1, <2>2 DEF LaneInv
<1>5. decision # "merge"
  <2>1. decision = "merge" => Len(lanes[kind]) = 1
    BY <1>1 DEF GateInv, MergeIsEarned
  <2>2. lanes[kind] = <<>>
    BY DEF Collected
  <2>3. Len(lanes[kind]) = 0
    BY <2>2, EmptySeq
  <2> QED BY <2>1, <2>3, NoneIsNotOne, Zenon
<1>6. MergeIsEarned'
  BY <1>5 DEF MergeIsEarned, Collect
<1> QED BY <1>3, <1>4, <1>6

\* A ready host stays so only by a restore that was not started.
LEMMA ReadyHost == ASSUME HostInv, phase = "ready" PROVE Restored /\ network = "candidate" /\ passed = {"attestation", "canary"}
BY DEF HostInv, TypeOKHost, PhaseInv, Restored, Rewritten, Named

\* What a dispatch leaves behind.
LEMMA AfterwardsKeeps ==
  ASSUME GateInv, NEW reset \in BOOLEAN, phase = "ready", Afterwards(reset)
  PROVE  HostInv' /\ ReadyIsRestored' /\ kind' = kind /\ refused' \in BOOLEAN
<1>0. HostInv /\ used' = TRUE /\ refused' = ~reset
  BY DEF GateInv, Afterwards
<1>1. CASE reset
  <2>1. Restart("boot")
    BY <1>1 DEF Afterwards
  <2>2. HostInv'
    BY <1>0, <2>1, RestartKeeps
  <2> QED BY <1>0, <2>1, <2>2 DEF Restart, ReadyIsRestored
<1>2. CASE ~reset /\ kind = "macos"
  <2>1. Quarantine /\ Disregarded
    BY <1>2 DEF Afterwards, Unreset
  <2>2. HostInv'
    BY <1>0, <2>1, QuarantineKeeps DEF Disregarded, HostInv, TypeOKHost
  <2> QED BY <1>0, <2>1, <2>2 DEF Quarantine, Disregarded, ReadyIsRestored
<1>3. CASE ~reset /\ kind # "macos"
  <2>1. UNCHANGED <<kind, phase, markers, names, network, passed>>
    BY <1>3 DEF Afterwards, Unreset
  <2>2. HostInv'
    BY <1>0, <2>1 DEF HostInv, TypeOKHost, PhaseInv, markers, names
  <2>3. Restored' /\ network' = "candidate" /\ passed' = {"attestation", "canary"}
    BY <1>0, <2>1, ReadyHost DEF Restored, markers, names
  <2> QED BY <1>0, <1>3, <2>1, <2>2, <2>3 DEF ReadyIsRestored
<1> QED BY <1>1, <1>2, <1>3

LEMMA RecoverHostKeeps == ASSUME GateInv, RecoverHost PROVE GateInv'
<1>0. HostInv /\ TypeOK /\ Recover /\ ~Collected
  BY DEF GateInv, RecoverHost
<1>1. HostInv'
  BY <1>0, RecoverKeeps
<1>2. kind' = kind
  BY <1>0 DEF Recover, StartExternalRestore, StartDfuFallback, Request, Restart, Disregarded, BootConfirmed,
     Written, DfuRestoreFinished, MdmReenrollFinished, AttestationFinished, EgressCanaryFinished,
     HostIdentityRotated, NetworkMoved, ForceQuarantine
<1>3. TypeOK'
  BY <1>0, <1>1 DEF RecoverHost, TypeOK, HostInv
<1>4. phase' = "ready" => phase = "canary" /\ used' = used
  BY <1>0 DEF Recover, StartExternalRestore, StartDfuFallback, Request, Restart, Quarantine, BootConfirmed,
     Written, DfuRestoreFinished, MdmReenrollFinished, AttestationFinished, EgressCanaryFinished,
     HostIdentityRotated, NetworkMoved, ForceQuarantine
<1>5. phase' = "ready" => ~used'
  BY <1>0, <1>4 DEF HostInv, PhaseInv, Rewritten
<1>6. ReadyIsRestored'
  <2>1. phase' = "ready" => Restored' /\ network' = "candidate" /\ passed' = {"attestation", "canary"}
    BY <1>1 DEF HostInv, TypeOKHost, PhaseInv, Restored, Rewritten, Named
  <2> QED BY <1>5, <2>1 DEF ReadyIsRestored
<1>7. LaneInv'
  BY <1>0, <1>2 DEF RecoverHost, LaneInv, Collected
<1>8. MergeIsEarned'
  BY <1>2 DEF GateInv, RecoverHost, MergeIsEarned
<1> QED BY <1>1, <1>3, <1>6, <1>7, <1>8 DEF GateInv

LEMMA RefuseKeeps ==
  ASSUME GateInv, NEW ok \in BOOLEAN, NEW e \in Evidence, Refuse(ok, e)
  PROVE  GateInv'
<1> DEFINE run == StoppedRun("fail", FALSE, e)
<1>1. run \in Runs /\ run.verdict = "fail"
  BY DEF StoppedRun, Runs, Verdicts, Evidence
<1>2. ~Collected /\ Collect(run) /\ UNCHANGED <<host, refused>>
  BY DEF Refuse
<1>3. HostInv' /\ ReadyIsRestored'
  BY <1>2 DEF GateInv, HostInv, TypeOKHost, PhaseInv, ReadyIsRestored, Restored, host, markers, names
<1>4. kind' = kind /\ refused' \in BOOLEAN /\ TypeOKHost'
  BY <1>2, <1>3 DEF GateInv, TypeOK, HostInv, host
<1>5. TypeOK' /\ LaneInv' /\ MergeIsEarned'
  <2> HIDE DEF run
  <2> QED BY <1>1, <1>2, <1>4, CollectKeeps
<1> QED BY <1>3, <1>5 DEF GateInv

LEMMA FailToDeliverKeeps ==
  ASSUME GateInv, NEW reset \in BOOLEAN, NEW e \in Evidence, FailToDeliver(reset, e)
  PROVE  GateInv'
<1> DEFINE run == StoppedRun(IF reset THEN "fail" ELSE "error", reset, e \cup {"other hash"})
<1>1. run \in Runs /\ run.verdict # "pass"
  BY DEF StoppedRun, Runs, Verdicts, Evidence, Defects
<1>2. ~Collected /\ Collect(run) /\ phase = "ready" /\ Afterwards(reset)
  BY DEF FailToDeliver
<1>3. HostInv' /\ ReadyIsRestored' /\ kind' = kind /\ refused' \in BOOLEAN
  BY <1>2, AfterwardsKeeps
<1>4. TypeOK' /\ LaneInv' /\ MergeIsEarned'
  <2> HIDE DEF run
  <2> QED BY <1>1, <1>2, <1>3, CollectKeeps DEF HostInv
<1> QED BY <1>3, <1>4 DEF GateInv

LEMMA RunCandidateKeeps ==
  ASSUME GateInv, NEW golden \in BOOLEAN, NEW reset \in BOOLEAN, NEW e \in Evidence,
         RunCandidate(golden, reset, e)
  PROVE  GateInv'
<1> DEFINE run == LaneRun(e, golden, reset)
<1>1. run \in Runs /\ (run.verdict = "pass" => "other host" \notin run.evidence)
  BY LaneRunTypes DEF LaneRun, Evidence
<1>2. ~Collected /\ Collect(run) /\ phase = "ready" /\ Afterwards(reset)
  BY DEF RunCandidate
<1>3. HostInv' /\ ReadyIsRestored' /\ kind' = kind /\ refused' \in BOOLEAN
  BY <1>2, AfterwardsKeeps
<1>4. used => kind # "macos"
  BY <1>2 DEF GateInv, ReadyIsRestored
<1>5. TypeOK' /\ LaneInv' /\ MergeIsEarned'
  <2> HIDE DEF run
  <2> QED BY <1>1, <1>2, <1>3, <1>4, CollectKeeps DEF HostInv
<1> QED BY <1>3, <1>5 DEF GateInv

\* What the other lanes may have collected.
LEMMA OtherLaneTypes ==
  ASSUME NEW rs \in OtherLanes \cup {<<Clean>>}
  PROVE  /\ rs \in Seq(Runs)
         /\ Len(rs) = 1 /\ LaneOverall(rs) = "pass" => rs[1].evidence = {} /\ rs[1].golden /\ rs[1].reset
<1>1. \A d \in Defects : LaneRun({d}, TRUE, TRUE) \in Runs
  BY LaneRunTypes
<1>2. LaneRun({}, FALSE, TRUE) \in Runs /\ LaneRun({}, TRUE, FALSE) \in Runs /\ Clean \in Runs
  BY LaneRunTypes DEF Clean
<1>3. rs \in Seq(Runs)
  <2>1. <<>> \in Seq(Runs) /\ <<Clean, Clean>> \in Seq(Runs)
    BY <1>2
  <2>2. \A x \in Runs : <<x>> \in Seq(Runs)
    BY OneOnly
  <2> QED BY <1>1, <1>2, <2>1, <2>2 DEF OtherLanes
<1>4. ASSUME Len(rs) = 1, LaneOverall(rs) = "pass"
      PROVE  rs[1].evidence = {} /\ rs[1].golden /\ rs[1].reset
  <2>1. rs[1] \in Runs /\ Folded(rs[1]) = "pass"
    BY <1>3, <1>4, LaneOverallPass
  <2>2. rs[1].verdict = "pass" /\ rs[1].golden /\ rs[1].reset /\ rs[1].evidence \subseteq {"other host"}
    BY <2>1, FoldedPass
  <2>3. rs # <<>> /\ rs # <<Clean, Clean>>
    <3>1. Len(<<Clean, Clean>>) # 1 /\ Len(<<>>) # 1
      OBVIOUS
    <3> QED BY <1>4, <3>1, Zenon
  <2>4. PICK e \in SUBSET Defects, g \in BOOLEAN, r \in BOOLEAN : rs = <<LaneRun(e, g, r)>>
    BY <2>3, Zenon DEF OtherLanes, Clean
  <2>5. LaneVerdict(e, g, r) = "pass" /\ rs[1].evidence = e
    <3>1. rs[1] = LaneRun(e, g, r)
      BY <2>4, LaneRunTypes, OneOnly
    <3>2. LaneRun(e, g, r).verdict = LaneVerdict(e, g, r) /\ LaneRun(e, g, r).evidence = e
      BY DEF LaneRun
    <3> QED BY <2>2, <3>1, <3>2, Zenon
  <2>6. "other host" \notin rs[1].evidence
    BY <2>5, LaneRunTypes
  <2> QED BY <2>2, <2>6
<1> QED BY <1>3, <1>4

LEMMA OwnLanePass ==
  ASSUME GateInv, Collected, decision = "none", LaneOverall(lanes[kind]) = "pass"
  PROVE  /\ Len(lanes[kind]) = 1 /\ lanes[kind][1].evidence = {}
         /\ lanes[kind][1].golden /\ lanes[kind][1].reset
         /\ tainted => kind # "macos"
<1>1. kind \in Kinds /\ lanes[kind] \in Seq(Runs)
  BY DEF GateInv, TypeOK, TypeOKHost
<1>2. Len(lanes[kind]) = 1 /\ lanes[kind][1] \in Runs /\ Folded(lanes[kind][1]) = "pass"
  BY <1>1, LaneOverallPass
<1>3. /\ lanes[kind][1].verdict = "pass" /\ lanes[kind][1].golden /\ lanes[kind][1].reset
      /\ lanes[kind][1].evidence \subseteq {"other host"}
  BY <1>2, FoldedPass
<1>4. "other host" \notin lanes[kind][1].evidence /\ (tainted => kind # "macos")
  BY <1>3 DEF GateInv, LaneInv
<1> QED BY <1>2, <1>3, <1>4

LEMMA AggregateKeeps ==
  ASSUME GateInv, NEW other \in Kinds, NEW rs \in OtherLanes \cup {<<Clean>>}, Aggregate(other, rs)
  PROVE  GateInv'
<1>0. /\ Collected /\ decision = "none" /\ other # kind /\ kind \in Kinds
      /\ lanes \in [Kinds -> Seq(Runs)] /\ UNCHANGED <<host, tainted, refused>>
  BY DEF Aggregate, GateInv, TypeOK, TypeOKHost
<1>1. rs \in Seq(Runs) /\ <<Clean>> \in Seq(Runs)
  BY OtherLaneTypes, Zenon
<1>2. lanes' = [k \in Kinds |-> CASE k = kind -> lanes[k] [] k = other -> rs [] OTHER -> <<Clean>>]
  BY DEF Aggregate
<1>3. /\ lanes'[kind] = lanes[kind] /\ lanes'[other] = rs
      /\ \A k \in Kinds \ {kind, other} : lanes'[k] = <<Clean>>
      /\ lanes' \in [Kinds -> Seq(Runs)]
  BY <1>0, <1>1, <1>2
<1>4. decision' = IF \A k \in Kinds : LaneOverall(lanes'[k]) = "pass" THEN "merge" ELSE "blocked"
  BY DEF Aggregate
<1>5. HostInv' /\ ReadyIsRestored'
  BY <1>0 DEF GateInv, HostInv, TypeOKHost, PhaseInv, ReadyIsRestored, Restored, host, markers, names
<1>6. TypeOK'
  BY <1>0, <1>3, <1>4, <1>5 DEF TypeOK, HostInv, GateInv
<1>7. LaneInv'
  BY <1>4 DEF LaneInv
<1>8. MergeIsEarned'
  <2> SUFFICES ASSUME decision' = "merge"
               PROVE  /\ \A k \in Kinds : Len(lanes'[k]) = 1 /\ lanes'[k][1].evidence = {}
                                           /\ lanes'[k][1].golden /\ lanes'[k][1].reset
                      /\ tainted' => kind' # "macos"
    BY DEF MergeIsEarned
  <2>1. \A k \in Kinds : LaneOverall(lanes'[k]) = "pass"
    BY <1>4
  <2>2. /\ Len(lanes'[kind]) = 1 /\ lanes'[kind][1].evidence = {}
        /\ lanes'[kind][1].golden /\ lanes'[kind][1].reset
        /\ tainted => kind # "macos"
    BY <1>0, <1>3, <2>1, OwnLanePass
  <2>3. ASSUME NEW k \in Kinds \ {kind}
        PROVE  Len(lanes'[k]) = 1 /\ lanes'[k][1].evidence = {} /\ lanes'[k][1].golden /\ lanes'[k][1].reset
    <3>1. PICK l \in OtherLanes \cup {<<Clean>>} : lanes'[k] = l
      BY <1>3
    <3>2. l \in Seq(Runs) /\ LaneOverall(l) = "pass"
      BY <2>1, <3>1, OtherLaneTypes
    <3>3. Len(l) = 1
      BY <3>2, LaneOverallPass
    <3> QED BY <3>1, <3>2, <3>3, OtherLaneTypes
  <2>4. tainted' = tainted /\ kind' = kind
    BY <1>0 DEF host
  <2> QED BY <2>2, <2>3, <2>4
<1> QED BY <1>5, <1>6, <1>7, <1>8 DEF GateInv

LEMMA NewRoundKeeps == ASSUME GateInv, NewRound PROVE GateInv'
<1>0. UNCHANGED <<host, refused>> /\ lanes' = Nothing /\ decision' = "none" /\ tainted' = FALSE
  BY DEF NewRound
<1>1. HostInv' /\ ReadyIsRestored'
  BY <1>0 DEF GateInv, HostInv, TypeOKHost, PhaseInv, ReadyIsRestored, Restored, host, markers, names
<1>2. lanes' \in [Kinds -> Seq(Runs)]
  <2>1. <<>> \in Seq(Runs)
    BY EmptySeq
  <2> QED BY <1>0, <2>1 DEF Nothing
<1>3. TypeOK'
  BY <1>0, <1>1, <1>2 DEF TypeOK, HostInv, GateInv
<1>4. ~Collected'
  BY <1>0, <1>1 DEF Collected, Nothing, HostInv, TypeOKHost
<1> QED BY <1>0, <1>1, <1>3, <1>4 DEF GateInv, LaneInv, MergeIsEarned

LEMMA GateNext == GateInv /\ [Next]_vars => GateInv'
<1> SUFFICES ASSUME GateInv, [Next]_vars PROVE GateInv'
  OBVIOUS
<1>1. CASE RecoverHost
  BY <1>1, RecoverHostKeeps
<1>2. ASSUME NEW e \in Evidence, NEW ok \in BOOLEAN, NEW reset \in BOOLEAN,
             Refuse(ok, e) \/ FailToDeliver(reset, e) \/ RunCandidate(ok, reset, e)
      PROVE  GateInv'
  BY <1>2, RefuseKeeps, FailToDeliverKeeps, RunCandidateKeeps
<1>3. ASSUME NEW other \in Kinds, NEW rs \in OtherLanes \cup {<<Clean>>}, Aggregate(other, rs)
      PROVE  GateInv'
  BY <1>3, AggregateKeeps
<1>4. CASE NewRound
  BY <1>4, NewRoundKeeps
<1>5. CASE UNCHANGED vars
  <2>0. UNCHANGED <<host, lanes, tainted, refused, decision>>
    BY <1>5 DEF vars, gate
  <2>1. HostInv' /\ ReadyIsRestored'
    BY <2>0 DEF GateInv, HostInv, TypeOKHost, PhaseInv, ReadyIsRestored, Restored, host, markers, names
  <2>2. TypeOK'
    BY <2>0, <2>1 DEF GateInv, TypeOK, HostInv
  <2>3. LaneInv'
    BY <2>0 DEF GateInv, LaneInv, Collected, host
  <2>4. MergeIsEarned'
    BY <2>0 DEF GateInv, MergeIsEarned, host
  <2> QED BY <2>1, <2>2, <2>3, <2>4 DEF GateInv
<1> QED BY <1>1, <1>2, <1>3, <1>4, <1>5 DEF Next

LEMMA GateAlways == Spec => []GateInv
BY GateInit, GateNext, PTL DEF Spec

\* The variables keep their types; a quarantined host keeps no marker.
THEOREM TypeCorrect == Spec => []TypeOK
<1>1. GateInv => TypeOK
  BY DEF GateInv
<1> QED BY <1>1, GateAlways, PTL

\* Whatever events come in whatever order, and whatever runs come between, a
\* ready host was restored in full, but for a PC whose restore was not started.
THEOREM ReadyHostsAreRestored == Spec => []ReadyIsRestored
<1>1. GateInv => ReadyIsRestored
  BY DEF GateInv
<1> QED BY <1>1, GateAlways, PTL

\* No fold of verdicts lets a defect through, however many there are at once.
THEOREM MergesAreEarned == Spec => []MergeIsEarned
<1>1. GateInv => MergeIsEarned
  BY DEF GateInv
<1> QED BY <1>1, GateAlways, PTL
=============================================================================
