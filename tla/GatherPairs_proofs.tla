-------------------------- MODULE GatherPairs_proofs --------------------------
(***************************************************************************)
(* The exemptions of GatherPairs for any number of rows and any bound.     *)
(*                                                                         *)
(* What an exemption is worth depends on where in the tick it is looked    *)
(* at: before its turn in the pass a pair may owe an attempt, after it not.*)
(* So the inductive invariant says with each phase what has been settled:  *)
(* that the pass reads the orders the policy was marked from, that rows    *)
(* the table has not seen are clear of everybody, and that every overlap   *)
(* is explained in the middle of a tick too.                               *)
(***************************************************************************)
EXTENDS GatherPairs, TLAPS

PhaseInv ==
  /\ phase # "pairs" => pairs = {}
  /\ phase # "steps" => walkers = {} /\ pushed = {}

\* Nobody changes its mind during the pass.
PolicyInv == phase = "pairs" => \A p \in LivePairs : since[p] = 0 <=> Gatherers(p)

StrangersAreClear ==
  /\ phase # "orders" => strange \cap Live = {}
  /\ \A p \in merged : {p[1], p[2]} \cap strange = {}

Explained == \A p \in merged : Exempt(byte[p]) \/ p \in reported \cup crossed

IInv ==
  /\ TypeOK /\ PhaseInv /\ PolicyInv /\ StrangersAreClear
  /\ ExemptionIsEarned /\ Explained
-----------------------------------------------------------------------------
(* What the operators return                                               *)

LEMMA PairsAreOfSlots ==
  /\ \A p \in Pairs : p[1] \in Slots /\ p[2] \in Slots
  /\ \A r : Of(r) \subseteq Pairs
  /\ LivePairs \subseteq Pairs
  /\ \A p \in LivePairs : p[1] \in Live /\ p[2] \in Live
  /\ \A p \in Pairs : p[1] \in Live /\ p[2] \in Live => p \in LivePairs
BY DEF Pairs, Of, LivePairs

\* The byte is at the bound only where the pass spends it.
LEMMA BytesAreApart ==
  /\ Active \in Int /\ Active \notin 0 .. Bound /\ Hard = 0 /\ Bound \in Int /\ Bound > 0
  /\ ~Transition(Active) /\ ~Transition(Hard) /\ Exempt(Active) /\ ~Exempt(Hard)
BY PairsAssumption DEF Active, Hard, Transition, Exempt

\* An attempt makes no overlap but with a body both exempts and gathers with.
LEMMA AttemptsAreLegal ==
  ASSUME NEW p, NEW M \in Attempts(p)
  PROVE  \A q \in M : q \in merged \/ (q \in LivePairs /\ byte[q] = Active)
<1>1. ASSUME NEW m, NEW N \in StepsAside(m)
      PROVE  \A q \in N : q \in merged \/ (q \in LivePairs /\ byte[q] = Active)
  <2>1. CASE \E q \in merged \cap Of(m) : ~Exempt(byte[q])
    BY <1>1, <2>1 DEF StepsAside
  <2>2. CASE ~\E q \in merged \cap Of(m) : ~Exempt(byte[q])
    <3>1. PICK S \in SUBSET ((merged \cap Of(m)) \cup Passable(m)) :
            N = (merged \ Of(m)) \cup S
      BY <1>1, <2>2 DEF StepsAside
    <3> QED BY <3>1 DEF Passable
  <2> QED BY <2>1, <2>2
<1>2. M = merged \/ M \in StepsAside(p[1]) \/ M \in StepsAside(p[2])
  BY DEF Attempts
<1> QED BY <1>1, <1>2
-----------------------------------------------------------------------------
LEMMA InitEstablishes == Init => IInv
<1> SUFFICES ASSUME Init PROVE IInv
  OBVIOUS
<1> USE PairsAreOfSlots, BytesAreApart DEF Init
<1>1. TypeOK
  <2>1. unit \in [Slots -> {"gathering", "busy", "none"}]
    OBVIOUS
  <2>2. byte \in [Pairs -> 0 .. Bound - 1 \cup {Active}] /\ since \in [Pairs -> 0 .. Never]
    BY DEF Never
  <2> QED BY <2>1, <2>2 DEF TypeOK
<1>2. PhaseInv /\ PolicyInv /\ StrangersAreClear /\ Explained
  BY DEF PhaseInv, PolicyInv, StrangersAreClear, Explained
<1>3. ExemptionIsEarned
  BY DEF ExemptionIsEarned, Never
<1> QED BY <1>1, <1>2, <1>3 DEF IInv
-----------------------------------------------------------------------------
(* Between two ticks                                                       *)

LEMMA ChangeOrderPreserves ==
  ASSUME IInv, NEW r \in Slots, ChangeOrder(r) PROVE IInv'
<1> USE DEF IInv, ChangeOrder, table, history
<1>1. Live' = Live
  BY DEF Live, TypeOK
<1>2. LivePairs' = LivePairs
  BY <1>1 DEF LivePairs
<1>3. TypeOK'
  BY <1>1, <1>2 DEF TypeOK
<1>4. PhaseInv' /\ PolicyInv' /\ StrangersAreClear'
  BY <1>1 DEF PhaseInv, PolicyInv, StrangersAreClear
<1>5. ExemptionIsEarned' /\ Explained'
  BY <1>2 DEF ExemptionIsEarned, Explained, Due
<1> QED BY <1>3, <1>4, <1>5

LEMMA DespawnPreserves ==
  ASSUME IInv, NEW r \in Slots, Despawn(r) PROVE IInv'
<1> USE DEF IInv, Despawn, table, StillOnly
<1>1. Live' = Live \ {r}
  BY DEF Live, TypeOK
<1>2. LivePairs' = LivePairs \ Of(r)
  BY <1>1, PairsAreOfSlots DEF LivePairs, Of
<1>3. TypeOK'
  <2>1. merged' \subseteq LivePairs' /\ reported' \subseteq merged' /\ crossed' \subseteq merged'
    BY <1>2 DEF TypeOK
  <2>2. pairs' = {} /\ walkers' = {} /\ pushed' = {}
    BY DEF PhaseInv
  <2> QED BY <2>1, <2>2 DEF TypeOK
<1>4. PhaseInv' /\ PolicyInv' /\ StrangersAreClear'
  BY DEF PhaseInv, PolicyInv, StrangersAreClear
<1>5. ExemptionIsEarned' /\ Explained'
  BY <1>2 DEF ExemptionIsEarned, Explained, Due
<1> QED BY <1>3, <1>4, <1>5

LEMMA SpawnPreserves ==
  ASSUME IInv, NEW r \in Slots, Spawn(r) PROVE IInv'
<1> USE DEF IInv, Spawn
<1>1. Live' = Live \cup {r} /\ r \notin Live
  BY DEF Live, TypeOK
<1>2. LivePairs \subseteq LivePairs' /\ \A p \in LivePairs' \ LivePairs : r \in {p[1], p[2]}
  BY <1>1, PairsAreOfSlots DEF LivePairs
<1>3. \A p \in Pairs : r \notin {p[1], p[2]} => since'[p] = since[p]
  BY DEF TypeOK, Of
<1>4. TypeOK'
  <2>1. since' \in [Pairs -> 0 .. Never]
    BY BytesAreApart DEF TypeOK, Never
  <2> QED BY <1>1, <1>2, <2>1 DEF TypeOK
<1>5. PhaseInv' /\ PolicyInv'
  BY DEF PhaseInv, PolicyInv
<1>6. StrangersAreClear'
  BY <1>1, PairsAreOfSlots DEF StrangersAreClear, TypeOK
<1>7. ExemptionIsEarned'
  BY <1>2, <1>3, PairsAreOfSlots DEF ExemptionIsEarned, Due
<1>8. Explained'
  BY DEF Explained
<1> QED BY <1>4, <1>5, <1>6, <1>7, <1>8

LEMMA EvacuatePreserves ==
  ASSUME IInv, NEW R \in SUBSET Slots, Evacuate(R) PROVE IInv'
<1> USE DEF IInv, Evacuate, table, StillOnly
<1>1. TypeOK'
  BY DEF TypeOK, Live, LivePairs
<1>2. PhaseInv' /\ PolicyInv' /\ StrangersAreClear'
  BY DEF PhaseInv, PolicyInv, StrangersAreClear
<1>3. ExemptionIsEarned' /\ Explained'
  BY DEF ExemptionIsEarned, Explained, Due, LivePairs, Live
<1> QED BY <1>1, <1>2, <1>3
-----------------------------------------------------------------------------
(* The policy and the pass                                                 *)

LEMMA MarkPreserves == ASSUME IInv, CollectAndMark PROVE IInv'
<1> USE DEF IInv, CollectAndMark
<1>1. Live' = Live /\ LivePairs' = LivePairs /\ \A p \in Pairs : Gatherers(p)' <=> Gatherers(p)
  BY DEF Live, LivePairs, Gatherers
<1>2. pairs = {} /\ walkers' = {} /\ pushed' = {}
  BY DEF PhaseInv
<1>3. \A p \in Pairs :
        /\ p \in LivePairs /\ Gatherers(p) => byte'[p] = Active /\ since'[p] = 0
        /\ ~(p \in LivePairs /\ Gatherers(p)) =>
             byte'[p] = SyncSlots(p) /\ since'[p] = Later(since[p])
  OBVIOUS
<1>4. \A p \in Pairs : since[p] \in 0 .. Never /\ Later(since[p]) \in 1 .. Never
  BY BytesAreApart DEF TypeOK, Later, Never
<1>5. TypeOK'
  <2>1. byte' \in [Pairs -> 0 .. Bound - 1 \cup {Active}]
    BY BytesAreApart DEF TypeOK, SyncSlots
  <2>2. since' \in [Pairs -> 0 .. Never]
    BY <1>4, BytesAreApart DEF Never
  <2>3. merged' \subseteq LivePairs' /\ snapshot' \subseteq Pairs /\ pairs' \subseteq LivePairs'
    BY <1>1, PairsAreOfSlots DEF TypeOK
  <2> QED BY <1>1, <1>2, <2>1, <2>2, <2>3 DEF TypeOK
<1>6. PhaseInv'
  BY <1>2 DEF PhaseInv
<1>7. PolicyInv'
  BY <1>1, <1>3, <1>4, PairsAreOfSlots DEF PolicyInv
<1>8. StrangersAreClear'
  BY <1>1 DEF StrangersAreClear
<1>9. ExemptionIsEarned'
  <2> SUFFICES ASSUME NEW p \in LivePairs, since'[p] # 0
               PROVE  \/ byte'[p] = Hard
                      \/ byte'[p] = Active /\ Due(p)' = 0
                      \/ byte'[p] = Due(p)' /\ Due(p)' \in 1 .. Bound - 1
    <3>1. \A p \in LivePairs : since'[p] = 0 => byte'[p] = Active
      BY <1>3, <1>4, PairsAreOfSlots
    <3> QED BY <1>1, <3>1 DEF ExemptionIsEarned
  <2>1. p \in Pairs /\ byte'[p] = SyncSlots(p) /\ since'[p] = Later(since[p])
    BY <1>3, PairsAreOfSlots
  <2>2. Due(p)' = Later(since[p]) - 1
    BY <2>1 DEF Due
  <2>3. CASE {p[1], p[2]} \cap strange # {}
    BY <2>1, <2>3, PairsAreOfSlots DEF SyncSlots
  <2>4. CASE {p[1], p[2]} \cap strange = {}
    <3>1. byte'[p] = byte[p] /\ Due(p) = since[p]
      BY <1>2, <2>1, <2>4 DEF SyncSlots, Due
    <3>2. CASE since[p] = 0
      <4>1. byte[p] = Active
        BY <2>4, <3>2 DEF ExemptionIsEarned
      <4> QED BY <2>2, <3>1, <3>2, <4>1, BytesAreApart DEF Later, Never
    <3>3. CASE since[p] # 0
      <4>1. byte[p] = Hard \/ (byte[p] = since[p] /\ since[p] \in 1 .. Bound - 1)
        BY <2>4, <3>1, <3>3 DEF ExemptionIsEarned
      <4> QED BY <2>2, <3>1, <4>1, BytesAreApart DEF Later, Never
    <3> QED BY <3>2, <3>3
  <2> QED BY <2>3, <2>4
<1>10. Explained'
  <2>1. \A p \in merged : p \in Pairs /\ {p[1], p[2]} \cap strange = {}
    BY PairsAreOfSlots DEF StrangersAreClear, TypeOK
  <2> QED BY <1>3, <2>1, BytesAreApart DEF Explained, SyncSlots
<1> QED BY <1>5, <1>6, <1>7, <1>8, <1>9, <1>10

\* What all turns of the pass leave alone.
LEMMA TurnKeeps ==
  ASSUME IInv, NEW p \in Pairs, Turn(p)
  PROVE  /\ Live' = Live /\ LivePairs' = LivePairs
         /\ p \in LivePairs /\ phase' = "pairs" /\ phase = "pairs"
         /\ walkers' = {} /\ pushed' = {} /\ pairs' \subseteq LivePairs'
         /\ PhaseInv' /\ PolicyInv'
         /\ \A q \in Pairs : (Gatherers(q)' <=> Gatherers(q)) /\ Due(q)' = IF q = p THEN since[p] ELSE Due(q)
<1> USE DEF IInv, Turn
<1>1. Live' = Live /\ LivePairs' = LivePairs /\ \A q \in Pairs : Gatherers(q)' <=> Gatherers(q)
  BY DEF Live, LivePairs, Gatherers
<1>2. p \in LivePairs /\ walkers' = {} /\ pushed' = {} /\ pairs' \subseteq LivePairs'
  BY <1>1 DEF TypeOK, PhaseInv
<1>3. PhaseInv'
  BY DEF PhaseInv
<1>4. PolicyInv'
  BY <1>1, PairsAreOfSlots DEF PolicyInv
<1>5. \A q \in Pairs : Due(q)' = IF q = p THEN since[p] ELSE Due(q)
  BY DEF Due
<1> QED BY <1>1, <1>2, <1>3, <1>4, <1>5

\* A turn keeps what has been earned if it leaves p hard, or one attempt further.
LEMMA TurnEarns ==
  ASSUME IInv, NEW p \in Pairs, Turn(p), Leaving(p),
         byte'[p] \in {Hard, Spent(byte[p])}, byte'[p] = Hard \/ Spent(byte[p]) < Bound,
         \A q \in Pairs \ {p} : byte'[q] = byte[q] \/ (byte'[q] = Hard /\ Transition(byte[q]))
  PROVE  ExemptionIsEarned'
<1> USE DEF IInv
<1>1. since' = since /\ strange' = strange /\ LivePairs' = LivePairs /\ p \in LivePairs
  BY TurnKeeps DEF Turn
<1>2. since[p] # 0 /\ since[p] \in 0 .. Never
  BY <1>1, TurnKeeps DEF PolicyInv, Leaving, TypeOK
<1> SUFFICES ASSUME NEW q \in LivePairs, {q[1], q[2]} \cap strange = {}
             PROVE  IF since[q] = 0 THEN byte'[q] = Active
                    ELSE \/ byte'[q] = Hard
                         \/ byte'[q] = Active /\ Due(q)' = 0
                         \/ byte'[q] = Due(q)' /\ Due(q)' \in 1 .. Bound - 1
  BY <1>1 DEF ExemptionIsEarned
<1>3. q \in Pairs /\ IF since[q] = 0 THEN byte[q] = Active
                     ELSE \/ byte[q] = Hard
                          \/ byte[q] = Active /\ Due(q) = 0
                          \/ byte[q] = Due(q) /\ Due(q) \in 1 .. Bound - 1
  BY PairsAreOfSlots DEF ExemptionIsEarned
<1>4. CASE q = p
  <2>1. Due(p)' = since[p] /\ Due(p) = since[p] - 1
    BY TurnKeeps DEF Due, Turn
  <2>2. byte'[p] = Hard \/ (byte'[p] = Spent(byte[p]) /\ Spent(byte[p]) < Bound /\ byte[p] # Hard)
    BY BytesAreApart DEF Leaving, Exempt
  <2>3. Spent(byte[p]) = since[p] \/ byte[p] = Hard
    BY <1>2, <1>3, <1>4, <2>1, BytesAreApart DEF Spent
  <2> QED BY <1>2, <1>4, <2>1, <2>2, <2>3, BytesAreApart DEF Never
<1>5. CASE q # p
  <2>1. Due(q)' = Due(q)
    BY <1>3, <1>5, TurnKeeps
  <2> QED BY <1>3, <1>5, <2>1, BytesAreApart
<1> QED BY <1>4, <1>5

LEMMA PassOverPreserves ==
  ASSUME IInv, NEW p \in Pairs, PassOver(p) PROVE IInv'
<1> USE DEF IInv, PassOver
<1>1. since' = since /\ strange' = strange /\ unit' = unit /\ snapshot' = snapshot
  BY DEF Turn
<1>2. TypeOK'
  BY <1>1, TurnKeeps DEF TypeOK
<1>3. PhaseInv' /\ PolicyInv'
  BY TurnKeeps
<1>4. StrangersAreClear'
  BY <1>1, TurnKeeps DEF StrangersAreClear
<1>5. ExemptionIsEarned'
  <2>1. since[p] = 0 \/ byte[p] = Hard
    BY TurnKeeps, PairsAreOfSlots, BytesAreApart DEF PolicyInv, Leaving, Exempt
  <2> QED BY <1>1, <2>1, TurnKeeps, PairsAreOfSlots DEF ExemptionIsEarned
<1>6. Explained'
  BY DEF Explained
<1> QED BY <1>2, <1>3, <1>4, <1>5, <1>6

LEMMA HasLeftPreserves ==
  ASSUME IInv, NEW p \in Pairs, HasLeft(p) PROVE IInv'
<1> USE DEF IInv, HasLeft
<1>1. since' = since /\ strange' = strange /\ unit' = unit /\ snapshot' = snapshot
  BY DEF Turn
<1>2. TypeOK'
  <2>1. byte' \in [Pairs -> 0 .. Bound - 1 \cup {Active}]
    BY BytesAreApart DEF TypeOK
  <2> QED BY <1>1, <2>1, TurnKeeps DEF TypeOK
<1>3. PhaseInv' /\ PolicyInv'
  BY TurnKeeps
<1>4. StrangersAreClear'
  BY <1>1, TurnKeeps DEF StrangersAreClear
<1>5. ExemptionIsEarned'
  BY TurnEarns DEF TypeOK
<1>6. Explained'
  BY PairsAreOfSlots DEF Explained, TypeOK
<1> QED BY <1>2, <1>3, <1>4, <1>5, <1>6

\* A turn that moves bodies keeps strangers clear, and explains what it makes.
LEMMA MovesAreExplained ==
  ASSUME IInv, NEW p \in Pairs, Turn(p), NEW M \in Attempts(p), merged' \subseteq M,
         reported \cap merged' \subseteq reported', crossed \cap merged' \subseteq crossed',
         \A q \in merged' : byte'[q] = byte[q] \/ byte'[q] # Hard \/ q \in reported'
  PROVE  merged' \subseteq LivePairs' /\ StrangersAreClear' /\ Explained'
<1> USE DEF IInv
<1>1. \A q \in merged' : q \in merged \/ (q \in LivePairs /\ byte[q] = Active)
  BY AttemptsAreLegal
<1>2. merged' \subseteq LivePairs'
  BY <1>1, TurnKeeps DEF TypeOK
<1>3. StrangersAreClear'
  <2>1. strange' = strange /\ strange \cap Live = {} /\ Live' = Live
    BY TurnKeeps DEF Turn, StrangersAreClear
  <2> QED BY <1>2, <2>1, TurnKeeps, PairsAreOfSlots DEF StrangersAreClear
<1>4. Explained'
  BY <1>1, BytesAreApart DEF Explained, Exempt
<1> QED BY <1>2, <1>3, <1>4

LEMMA SeparatePreserves ==
  ASSUME IInv, NEW p \in Pairs, Separate(p) PROVE IInv'
<1> USE DEF IInv, Separate, StillOnly
<1>1. since' = since /\ strange' = strange /\ unit' = unit /\ snapshot' = snapshot
  BY DEF Turn
<1>2. /\ Spent(byte[p]) \in Int /\ Spent(byte[p]) > 0 /\ byte[p] # Hard
      /\ byte \in [Pairs -> 0 .. Bound - 1 \cup {Active}]
  BY BytesAreApart DEF TypeOK, Spent, Leaving, Exempt
<1>3. byte' \in [Pairs -> 0 .. Bound - 1 \cup {Active}]
  BY <1>2, BytesAreApart
<1>4. merged' \subseteq LivePairs' /\ StrangersAreClear' /\ Explained'
  <2>1. \A q \in merged' : byte'[q] = byte[q] \/ byte'[q] # Hard
    BY <1>2, BytesAreApart, AttemptsAreLegal, PairsAreOfSlots DEF TypeOK
  <2> QED BY <2>1, MovesAreExplained
<1>5. TypeOK'
  BY <1>1, <1>3, <1>4, TurnKeeps DEF TypeOK
<1>6. PhaseInv' /\ PolicyInv'
  BY TurnKeeps
<1>7. ExemptionIsEarned'
  <2>1. byte'[p] = Hard \/ (byte'[p] = Spent(byte[p]) /\ Spent(byte[p]) < Bound)
    BY <1>2
  <2>2. \A q \in Pairs \ {p} : byte'[q] = byte[q]
    BY <1>2
  <2> QED BY <2>1, <2>2, TurnEarns
<1> QED BY <1>4, <1>5, <1>6, <1>7

LEMMA RelocatePreserves ==
  ASSUME IInv, NEW p \in Pairs, NEW m \in Slots, Relocate(p, m) PROVE IInv'
<1> USE DEF IInv, Relocate, StillOnly
<1>1. since' = since /\ strange' = strange /\ unit' = unit /\ snapshot' = snapshot
  BY DEF Turn
<1>2. \A q \in Pairs : byte'[q] = IF q = p \/ (q \in Of(m) \cap LivePairs /\ Transition(byte[q])) THEN Hard ELSE byte[q]
  BY DEF Cleared
<1>3. byte' \in [Pairs -> 0 .. Bound - 1 \cup {Active}]
  BY BytesAreApart DEF TypeOK, Cleared
<1>4. merged' \subseteq LivePairs' /\ StrangersAreClear' /\ Explained'
  <2>1. PICK M \in Attempts(p) : merged' = M \ Of(m)
    OBVIOUS
  <2>2. p \in Of(m)
    BY DEF Of
  <2>3. \A q \in merged' : q \in Pairs /\ byte'[q] = byte[q]
    BY <1>2, <2>1, <2>2, AttemptsAreLegal, PairsAreOfSlots DEF TypeOK
  <2> QED BY <2>1, <2>3, MovesAreExplained
<1>5. TypeOK'
  BY <1>1, <1>3, <1>4, TurnKeeps DEF TypeOK
<1>6. PhaseInv' /\ PolicyInv'
  BY TurnKeeps
<1>7. ExemptionIsEarned'
  BY <1>2, TurnEarns
<1> QED BY <1>4, <1>5, <1>6, <1>7

LEMMA StrandPreserves ==
  ASSUME IInv, NEW p \in Pairs, Strand(p) PROVE IInv'
<1> USE DEF IInv, Strand
<1>1. since' = since /\ strange' = strange /\ unit' = unit /\ snapshot' = snapshot
  BY DEF Turn
<1>2. byte' \in [Pairs -> 0 .. Bound - 1 \cup {Active}]
  BY BytesAreApart DEF TypeOK
<1>3. merged' \subseteq LivePairs' /\ StrangersAreClear' /\ Explained'
  <2>1. \A q \in merged' : byte'[q] = byte[q] \/ q \in reported'
    BY AttemptsAreLegal, PairsAreOfSlots DEF TypeOK
  <2> QED BY <2>1, MovesAreExplained
<1>4. TypeOK'
  BY <1>1, <1>2, <1>3, TurnKeeps DEF TypeOK
<1>5. PhaseInv' /\ PolicyInv'
  BY TurnKeeps
<1>6. ExemptionIsEarned'
  BY TurnEarns DEF TypeOK
<1> QED BY <1>3, <1>4, <1>5, <1>6

LEMMA EndPassPreserves == ASSUME IInv, EndPass PROVE IInv'
<1> USE DEF IInv, EndPass, table, history
<1>1. Live' = Live /\ LivePairs' = LivePairs
  BY DEF Live, LivePairs
<1>2. TypeOK'
  BY <1>1 DEF TypeOK
<1>3. PhaseInv' /\ PolicyInv' /\ StrangersAreClear'
  BY <1>1 DEF PhaseInv, PolicyInv, StrangersAreClear
<1>4. ExemptionIsEarned' /\ Explained'
  BY <1>1 DEF ExemptionIsEarned, Explained, Due
<1> QED BY <1>2, <1>3, <1>4
-----------------------------------------------------------------------------
(* The steps                                                               *)

LEMMA StandPreserves ==
  ASSUME IInv, NEW r \in Slots, Stand(r) PROVE IInv'
<1> USE DEF IInv, Stand, table, history
<1>1. r \in Live
  BY DEF TypeOK
<1>2. unit' \in [Slots -> {"gathering", "busy", "none"}] /\ Live' = Live
  BY <1>1 DEF Live, TypeOK
<1>3. LivePairs' = LivePairs
  BY <1>2 DEF LivePairs
<1>4. TypeOK'
  BY <1>2, <1>3 DEF TypeOK
<1>5. PhaseInv' /\ PolicyInv' /\ StrangersAreClear'
  BY <1>2 DEF PhaseInv, PolicyInv, StrangersAreClear
<1>6. ExemptionIsEarned' /\ Explained'
  BY <1>3 DEF ExemptionIsEarned, Explained, Due
<1> QED BY <1>4, <1>5, <1>6

LEMMA WalkPreserves ==
  ASSUME IInv, NEW r \in Slots, NEW D \in SUBSET Slots, Walk(r, D) PROVE IInv'
<1> USE DEF IInv, Walk, table, StillOnly
<1>1. Live' = Live /\ LivePairs' = LivePairs
  BY DEF Live, LivePairs
<1>2. \A q \in merged' : q \in merged \/ (q \in LivePairs /\ Exempt(byte[q]))
  OBVIOUS
<1>3. TypeOK'
  BY <1>1, <1>2 DEF TypeOK
<1>4. PhaseInv' /\ PolicyInv'
  BY DEF PhaseInv, PolicyInv
<1>5. StrangersAreClear'
  BY <1>1, <1>2, PairsAreOfSlots DEF StrangersAreClear
<1>6. ExemptionIsEarned'
  BY <1>1 DEF ExemptionIsEarned, Due
<1>7. Explained'
  BY <1>2 DEF Explained
<1> QED BY <1>3, <1>4, <1>5, <1>6, <1>7

LEMMA EndMovementPreserves == ASSUME IInv, EndMovement PROVE IInv'
<1> USE DEF IInv, EndMovement, table, history
<1>1. Live' = Live /\ LivePairs' = LivePairs
  BY DEF Live, LivePairs
<1>2. TypeOK'
  BY <1>1 DEF TypeOK
<1>3. PhaseInv' /\ PolicyInv' /\ StrangersAreClear'
  BY <1>1 DEF PhaseInv, PolicyInv, StrangersAreClear
<1>4. ExemptionIsEarned' /\ Explained'
  BY <1>1 DEF ExemptionIsEarned, Explained, Due
<1> QED BY <1>2, <1>3, <1>4

LEMMA StutterPreserves == ASSUME IInv, UNCHANGED vars PROVE IInv'
<1> USE DEF IInv, vars, table, history
<1>1. Live' = Live /\ LivePairs' = LivePairs /\ \A p \in Pairs : Gatherers(p)' <=> Gatherers(p)
  BY DEF Live, LivePairs, Gatherers
<1>2. TypeOK'
  BY <1>1 DEF TypeOK
<1>3. PhaseInv' /\ PolicyInv' /\ StrangersAreClear'
  BY <1>1, PairsAreOfSlots DEF PhaseInv, PolicyInv, StrangersAreClear
<1>4. ExemptionIsEarned' /\ Explained'
  BY <1>1 DEF ExemptionIsEarned, Explained, Due
<1> QED BY <1>2, <1>3, <1>4

LEMMA NextPreserves == IInv /\ [Next]_vars => IInv'
<1> SUFFICES ASSUME IInv, [Next]_vars PROVE IInv'
  OBVIOUS
<1>1. ASSUME NEW r \in Slots, ChangeOrder(r) \/ Despawn(r) \/ Spawn(r) \/ Stand(r) PROVE IInv'
  BY <1>1, ChangeOrderPreserves, DespawnPreserves, SpawnPreserves, StandPreserves
<1>2. ASSUME NEW R \in SUBSET Slots, Evacuate(R) \/ \E r \in Slots : Walk(r, R) PROVE IInv'
  BY <1>2, EvacuatePreserves, WalkPreserves
<1>3. ASSUME NEW p \in Pairs, PassOver(p) \/ HasLeft(p) \/ Separate(p) \/ Strand(p) PROVE IInv'
  BY <1>3, PassOverPreserves, HasLeftPreserves, SeparatePreserves, StrandPreserves
<1>4. ASSUME NEW p \in Pairs, NEW m \in Slots, Relocate(p, m) PROVE IInv'
  BY <1>4, RelocatePreserves
<1>5. CASE CollectAndMark \/ EndPass \/ EndMovement
  BY <1>5, MarkPreserves, EndPassPreserves, EndMovementPreserves
<1>6. CASE UNCHANGED vars
  BY <1>6, StutterPreserves
<1> QED BY <1>1, <1>2, <1>3, <1>4, <1>5, <1>6 DEF Next

LEMMA Invariance == Spec => []IInv
BY InitEstablishes, NextPreserves, PTL DEF Spec

\* Every variable keeps its type: above all, no byte is ever at the bound or
\* past it, so the branch for one in step_pair_transition is never taken.
THEOREM TypeCorrect == Spec => []TypeOK
<1>1. IInv => TypeOK
  BY DEF IInv
<1> QED BY <1>1, Invariance, PTL

\* An exemption ends a bounded number of ticks after the gather order that
\* earned it, and no unit inherits one with its row, for any number of rows and
\* any bound.
THEOREM ExemptionsAreEarned == Spec => []ExemptionIsEarned
<1>1. IInv => ExemptionIsEarned
  BY DEF IInv
<1> QED BY <1>1, Invariance, PTL

\* No completed tick leaves two bodies merged and hard to each other, unless an
\* exit failed and was reported, or the pass itself moved one into the other.
THEOREM MergedIsAlwaysExplained == Spec => []MergedIsExplained
<1>1. IInv => MergedIsExplained
  BY DEF IInv, Explained, MergedIsExplained
<1> QED BY <1>1, Invariance, PTL
=============================================================================
