------------------------ MODULE SettingsStore_proofs ------------------------
(***************************************************************************)
(* Proofs about the settings store when a single game uses the directory,  *)
(* for any settings and any number of inodes.                              *)
(***************************************************************************)
EXTENDS SettingsStore, TLAPS

\* Two names never share a file, and neither the target nor the .bak is ever
\* torn or still to be synced: only a .tmp is written to.
DiskInv ==
  /\ \A m, n \in Names : name[m] # None /\ name[m] = name[n] => m = n
  /\ \A n \in {"target", "bak"} :
       name[n] # None => data[name[n]] # Torn /\ name[n] \notin unsynced

\* What a game in the middle of a call knows of the disk.
Stage(p) ==
  /\ pc[p] \in {"write", "sync"} => fd[p] = name["tmp"]
  /\ pc[p] = "sync" => data[fd[p]] = want[p]
  /\ pc[p] \in {"look", "set aside", "replace"} =>
       name["tmp"] # None /\ data[name["tmp"]] = want[p] /\ name["tmp"] \notin unsynced
  /\ pc[p] = "set aside" => had[p] /\ name["target"] # None
  /\ pc[p] \in {"replace", "restore"} =>
       name["target"] = None /\ (had[p] => name["bak"] # None)
  /\ pc[p] = "clean" => name["target"] # None /\ data[name["target"]] = want[p]
  /\ pc[p] \in {"look for bak", "read bak"} => name["target"] = None
  /\ pc[p] = "read target" => name["target"] # None
  /\ pc[p] \in (Saving \ {"clean"}) \cup {"idle"} => mem[p] = OnDisk

Alone == \A p, q \in Games : p = q

Inv == TypeOK /\ DiskInv /\ \A p \in Games : Stage(p)

\* The initial directory holds at most a target, whole and synced.
LEMMA InvInit == Init => Inv
PROOF
<1> SUFFICES ASSUME Init PROVE Inv OBVIOUS
<1> USE SettingsAssumption
<1>1. PICK i \in Inodes, v \in Values \cup {Bad} :
        /\ data = [j \in Inodes |-> IF j = i THEN v ELSE Torn]
        /\ name \in {[n \in Names |-> None], [n \in Names |-> IF n = "target" THEN i ELSE None]}
  BY DEF Init
<1>2. TypeOK
  BY <1>1 DEF Init, TypeOK, Names, Loading
<1>3. DiskInv
  BY <1>1 DEF Init, DiskInv, Names
<1>4. \A p \in Games : Stage(p)
  BY DEF Init, Stage, Saving
<1> QED BY <1>2, <1>3, <1>4 DEF Inv

\* A step that leaves the disk alone moves one game to another stage; what it
\* knows there is the caller's to show.
LEMMA MoveKeeps ==
  ASSUME Alone, Inv, NEW p \in Games, NEW l \in Saving \cup Loading \cup {"idle"},
         pc' = [pc EXCEPT ![p] = l], UNCHANGED <<name, data, unsynced>>,
         want' \in [Games -> Values], fd' \in [Games -> Inodes \cup {None}],
         l \in {"write", "sync"} <=> fd'[p] # None,
         had' \in [Games -> BOOLEAN], mem' \in [Games -> Values],
         pc'[p] = l => Stage(p)'
  PROVE  Inv'
PROOF
<1>1. pc' \in [Games -> Saving \cup Loading \cup {"idle"}] /\ pc'[p] = l
  BY DEF Inv, TypeOK
<1>2. TypeOK'
  BY <1>1 DEF Inv, TypeOK, Alone
<1>3. DiskInv'
  BY DEF Inv, DiskInv
<1> QED BY <1>1, <1>2, <1>3 DEF Inv, Alone

\* A call that fails before the .tmp replaces the target costs nothing.
LEMMA FailKeeps ==
  ASSUME Alone, Inv, NEW p \in Games, pc[p] \in Saving \ {"clean"}, FailSave(p)
  PROVE  Inv'
PROOF
<1>1. fd' \in [Games -> Inodes \cup {None}] /\ fd'[p] = None
  BY DEF FailSave, Inv, TypeOK
<1>2. pc'[p] = "idle" => Stage(p)'
  BY DEF FailSave, disk, Inv, Stage, Saving, OnDisk, Parsed, Exists
<1> QED BY <1>1, <1>2, MoveKeeps DEF FailSave, Goto, disk, Inv, TypeOK

\* Loading reads what is there and changes nothing on the disk.
LEMMA LoadKeeps == ASSUME Alone, Inv, NEW p \in Games, Load(p) PROVE Inv'
PROOF
<1> USE SettingsAssumption
<1>1. \A n \in Names : Parsed(n) \in Values
  BY DEF Parsed, Inv, TypeOK
<1>2. CASE LookForTarget(p)
  <2>1. PICK l \in {"read target", "look for bak"} :
          /\ pc' = [pc EXCEPT ![p] = l]
          /\ l = "read target" <=> name["target"] # None
    BY <1>2 DEF LookForTarget, Goto, Exists
  <2>2. UNCHANGED <<name, data, unsynced, want, fd, had, mem>> /\ pc[p] = "off"
    BY <1>2 DEF LookForTarget, disk
  <2>3. pc'[p] = l => Stage(p)'
    BY <2>1, <2>2 DEF Stage, Saving
  <2> QED BY <2>1, <2>2, <2>3, MoveKeeps DEF Inv, TypeOK, Loading
<1>3. CASE ReadTarget(p)
  <2>1. mem' \in [Games -> Values] /\ mem'[p] = Parsed("target")
    BY <1>1, <1>3 DEF ReadTarget, Loaded, Inv, TypeOK, Names
  <2>2. pc'[p] = "idle" => Stage(p)'
    BY <1>3, <2>1 DEF ReadTarget, disk, Inv, Stage, OnDisk, Parsed, Exists
  <2> QED BY <1>3, <2>1, <2>2, MoveKeeps DEF ReadTarget, Loaded, Goto, disk, Inv, TypeOK
<1>4. CASE LookForBak(p) /\ Exists("bak")
  <2>1. pc'[p] = "read bak" => Stage(p)'
    BY <1>4 DEF LookForBak, disk, Inv, Stage, Saving
  <2> QED BY <1>4, <2>1, MoveKeeps DEF LookForBak, Goto, disk, Inv, TypeOK, Loading
<1>5. CASE LookForBak(p) /\ ~Exists("bak")
  <2>0. /\ mem' = [mem EXCEPT ![p] = Default]
    BY <1>5 DEF LookForBak, Loaded
  <2>1. mem' \in [Games -> Values] /\ mem'[p] = Default
    BY <2>0 DEF Inv, TypeOK
  <2>2. pc'[p] = "idle" => Stage(p)'
    BY <1>5, <2>1 DEF LookForBak, disk, Inv, Stage, OnDisk, Parsed, Exists
  <2> QED BY <1>5, <2>1, <2>2, MoveKeeps DEF LookForBak, Loaded, Goto, disk, Inv, TypeOK
<1>6. CASE ReadBak(p)
  <2>1. mem' \in [Games -> Values] /\ mem'[p] = Parsed("bak")
    BY <1>1, <1>6 DEF ReadBak, Loaded, Inv, TypeOK, Names
  <2>2. pc'[p] = "idle" => Stage(p)'
    BY <1>6, <2>1 DEF ReadBak, disk, Inv, Stage, OnDisk, Parsed, Exists
  <2> QED BY <1>6, <2>1, <2>2, MoveKeeps DEF ReadBak, Loaded, Goto, disk, Inv, TypeOK
<1> QED BY <1>2, <1>3, <1>4, <1>5, <1>6 DEF Load

\* Creating the .tmp truncates a file that no other name leads to.
LEMMA CreateKeeps == ASSUME Alone, Inv, NEW p \in Games, CreateTmp(p) PROVE Inv'
PROOF
<1> USE SettingsAssumption DEF Alone
<1>1. CASE FailSave(p)
  BY <1>1, FailKeeps DEF CreateTmp, Saving
<1>2. ASSUME NEW i \in IF Exists("tmp") THEN {name["tmp"]} ELSE Free,
             name' = [name EXCEPT !["tmp"] = i], fd' = [fd EXCEPT ![p] = i],
             data' = [data EXCEPT ![i] = Torn], unsynced' = unsynced \cup {i},
             Goto(p, "write"), UNCHANGED <<want, had, mem>>
      PROVE  Inv'
  <2>1. i \in Inodes /\ \A n \in {"target", "bak"} : name[n] # i
    BY <1>2 DEF Inv, TypeOK, DiskInv, Exists, Free, Names
  <2>2. name' \in [Names -> Inodes \cup {None}] /\ name'["tmp"] = i
        /\ \A n \in {"target", "bak"} : name'[n] = name[n]
    BY <1>2, <2>1 DEF Inv, TypeOK, Names
  <2>3. data' \in [Inodes -> Values \cup {Torn, Bad}] /\ \A j \in Inodes \ {i} : data'[j] = data[j]
    BY <1>2, <2>1 DEF Inv, TypeOK
  <2>4. pc' \in [Games -> Saving \cup Loading \cup {"idle"}] /\ pc'[p] = "write"
    BY <1>2 DEF Inv, TypeOK, Goto, Saving
  <2>5. fd' \in [Games -> Inodes \cup {None}] /\ fd'[p] = i
    BY <1>2, <2>1 DEF Inv, TypeOK
  <2>6. TypeOK'
    BY <1>2, <2>1, <2>2, <2>3, <2>4, <2>5 DEF Inv, TypeOK
  <2>7. DiskInv'
    BY <1>2, <2>1, <2>2, <2>3 DEF Inv, TypeOK, DiskInv, Names
  <2>8. OnDisk' = OnDisk
    BY <2>1, <2>2, <2>3 DEF Inv, TypeOK, OnDisk, Parsed, Exists, Names
  <2>9. Stage(p)'
    BY <1>2, <2>2, <2>4, <2>5, <2>8 DEF CreateTmp, Inv, Stage, Saving
  <2> QED BY <2>6, <2>7, <2>9 DEF Inv
<1> QED BY <1>1, <1>2 DEF CreateTmp

\* The .tmp is written and synced under nobody else's name.
LEMMA WriteKeeps == ASSUME Alone, Inv, NEW p \in Games, WriteTmp(p) PROVE Inv'
PROOF
<1> USE SettingsAssumption DEF Alone
<1>1. CASE FailSave(p)
  BY <1>1, FailKeeps DEF WriteTmp, Saving
<1>2. CASE ~FailSave(p)
  <2> DEFINE i == fd[p]
  <2>1. pc[p] = "write" /\ i \in Inodes /\ i = name["tmp"] /\ \A n \in {"target", "bak"} : name[n] # i
    BY <1>2 DEF WriteTmp, Inv, TypeOK, DiskInv, Stage, Names
  <2>2. data' = [data EXCEPT ![i] = want[p]] /\ unsynced' = unsynced \cup {i} /\ Goto(p, "sync")
        /\ UNCHANGED <<name, want, fd, had, mem>>
    BY <1>2 DEF WriteTmp
  <2>3. data' \in [Inodes -> Values \cup {Torn, Bad}] /\ data'[i] = want[p]
        /\ \A j \in Inodes \ {i} : data'[j] = data[j]
    BY <2>1, <2>2 DEF Inv, TypeOK
  <2>4. pc' \in [Games -> Saving \cup Loading \cup {"idle"}] /\ pc'[p] = "sync"
    BY <2>2 DEF Inv, TypeOK, Goto, Saving
  <2>6. TypeOK'
    BY <2>1, <2>2, <2>3, <2>4 DEF Inv, TypeOK
  <2>7. DiskInv'
    BY <2>1, <2>2, <2>3 DEF Inv, TypeOK, DiskInv, Names
  <2>8. OnDisk' = OnDisk
    BY <2>1, <2>2, <2>3 DEF Inv, TypeOK, OnDisk, Parsed, Exists, Names
  <2>9. Stage(p)'
    BY <2>1, <2>2, <2>3, <2>4, <2>8 DEF Inv, Stage, Saving
  <2> QED BY <2>6, <2>7, <2>9 DEF Inv
<1> QED BY <1>1, <1>2

LEMMA SyncKeeps == ASSUME Alone, Inv, NEW p \in Games, SyncTmp(p) PROVE Inv'
PROOF
<1> USE SettingsAssumption DEF Alone
<1>1. CASE FailSave(p)
  BY <1>1, FailKeeps DEF SyncTmp, Saving
<1>2. CASE ~FailSave(p)
  <2>0. pc[p] = "sync" /\ Stage(p) /\ TypeOK
    BY <1>2 DEF SyncTmp, Inv
  <2>1. pc[p] = "sync" /\ fd[p] \in Inodes /\ fd[p] = name["tmp"] /\ data[fd[p]] = want[p]
    BY <2>0 DEF TypeOK, Stage
  <2>2. unsynced' = unsynced \ {fd[p]} /\ fd' = [fd EXCEPT ![p] = None] /\ Goto(p, "look")
        /\ UNCHANGED <<name, data, want, had, mem>>
    BY <1>2 DEF SyncTmp
  <2>3. fd' \in [Games -> Inodes \cup {None}] /\ fd'[p] = None
    BY <2>2 DEF Inv, TypeOK
  <2>4. pc' \in [Games -> Saving \cup Loading \cup {"idle"}] /\ pc'[p] = "look"
    BY <2>2 DEF Inv, TypeOK, Goto, Saving
  <2>6. TypeOK'
    BY <2>2, <2>3, <2>4 DEF Inv, TypeOK
  <2>7. DiskInv'
    BY <2>2 DEF Inv, TypeOK, DiskInv, Names
  <2>9. Stage(p)'
    BY <2>1, <2>2, <2>3, <2>4 DEF Inv, Stage, Saving, OnDisk, Parsed, Exists
  <2> QED BY <2>6, <2>7, <2>9 DEF Inv
<1> QED BY <1>1, <1>2

LEMMA LookKeeps == ASSUME Alone, Inv, NEW p \in Games, LookAtTarget(p) PROVE Inv'
PROOF
<1>1. PICK l \in {"set aside", "replace"} :
        pc' = [pc EXCEPT ![p] = l] /\ (l = "set aside" <=> name["target"] # None)
  BY DEF LookAtTarget, Goto, Exists
<1>2. had' \in [Games -> BOOLEAN] /\ had'[p] = (name["target"] # None)
  BY DEF LookAtTarget, Exists, Inv, TypeOK
<1>3. UNCHANGED <<name, data, unsynced, want, fd, mem>> /\ pc[p] = "look"
  BY DEF LookAtTarget, disk
<1>4. pc'[p] = l => Stage(p)'
  BY <1>1, <1>2, <1>3 DEF Inv, Stage, Saving, OnDisk, Parsed, Exists
<1> QED BY <1>1, <1>2, <1>3, <1>4, MoveKeeps DEF Inv, TypeOK, Saving

\* Setting the target aside only changes the name a load finds it under.
LEMMA SetAsideKeeps == ASSUME Alone, Inv, NEW p \in Games, SetAside(p) PROVE Inv'
PROOF
<1> USE SettingsAssumption DEF Alone
<1>1. CASE FailSave(p)
  BY <1>1, FailKeeps DEF SetAside, Saving
<1>2. CASE ~FailSave(p)
  <2>1. pc[p] = "set aside" /\ name["target"] \in Inodes /\ name["tmp"] \in Inodes
        /\ data[name["tmp"]] = want[p] /\ name["tmp"] \notin unsynced /\ mem[p] = OnDisk
    BY <1>2 DEF SetAside, Inv, TypeOK, Stage, Names, Saving
  <2>2. name' = [name EXCEPT !["bak"] = name["target"], !["target"] = None] /\ Goto(p, "replace")
        /\ UNCHANGED <<data, unsynced, want, fd, had, mem>>
    BY <1>2 DEF SetAside
  <2>3. name' \in [Names -> Inodes \cup {None}] /\ name'["target"] = None
        /\ name'["bak"] = name["target"] /\ name'["tmp"] = name["tmp"]
    BY <2>1, <2>2 DEF Inv, TypeOK, Names
  <2>4. pc' \in [Games -> Saving \cup Loading \cup {"idle"}] /\ pc'[p] = "replace"
    BY <2>2 DEF Inv, TypeOK, Goto, Saving
  <2>6. TypeOK'
    BY <2>1, <2>2, <2>3, <2>4 DEF Inv, TypeOK
  <2>7. DiskInv'
    BY <2>1, <2>2, <2>3 DEF Inv, TypeOK, DiskInv, Names
  <2>8. OnDisk' = OnDisk
    BY <2>1, <2>2, <2>3 DEF OnDisk, Parsed, Exists
  <2>9. Stage(p)'
    <3>0. data' = data /\ want' = want /\ unsynced' = unsynced
      BY <2>2
    <3>1. name'["tmp"] # None /\ data'[name'["tmp"]] = want'[p] /\ name'["tmp"] \notin unsynced'
      BY <2>1, <2>3, <3>0
    <3>2. name'["target"] = None /\ name'["bak"] # None
      BY <2>1, <2>3
    <3>3. mem'[p] = OnDisk'
      BY <2>1, <2>2, <2>8
    <3> QED BY <2>4, <3>1, <3>2, <3>3 DEF Stage
  <2> QED BY <2>6, <2>7, <2>9 DEF Inv
<1> QED BY <1>1, <1>2

\* The one step at which a save takes effect.
LEMMA ReplaceKeeps == ASSUME Alone, Inv, NEW p \in Games, Replace(p) PROVE Inv'
PROOF
<1> USE SettingsAssumption DEF Alone
<1>1. CASE name' = name /\ Goto(p, "restore")
  <2>1. pc'[p] = "restore" => Stage(p)'
    BY <1>1 DEF Replace, Inv, Stage, Saving, OnDisk, Parsed, Exists
  <2> QED BY <1>1, <2>1, MoveKeeps DEF Replace, Goto, Inv, TypeOK, Saving
<1>2. CASE Exists("tmp") /\ name' = [name EXCEPT !["target"] = name["tmp"], !["tmp"] = None]
           /\ Goto(p, "clean")
  <2>1. pc[p] = "replace" /\ name["tmp"] \in Inodes /\ data[name["tmp"]] = want[p]
        /\ name["tmp"] \notin unsynced /\ want[p] \in Values
    BY <1>2 DEF Replace, Inv, TypeOK, Stage, Names, Exists
  <2>2. UNCHANGED <<data, unsynced, want, fd, had, mem>>
    BY DEF Replace
  <2>3. name' \in [Names -> Inodes \cup {None}] /\ name'["target"] = name["tmp"]
        /\ name'["bak"] = name["bak"] /\ name'["tmp"] = None
    BY <1>2, <2>1 DEF Inv, TypeOK, Names
  <2>4. pc' \in [Games -> Saving \cup Loading \cup {"idle"}] /\ pc'[p] = "clean"
    BY <1>2 DEF Inv, TypeOK, Goto, Saving
  <2>6. TypeOK'
    BY <2>1, <2>2, <2>3, <2>4 DEF Inv, TypeOK
  <2>7. DiskInv'
    BY <2>1, <2>2, <2>3 DEF Inv, TypeOK, DiskInv, Names
  <2>9. Stage(p)'
    BY <2>1, <2>2, <2>3, <2>4 DEF Stage, Saving
  <2> QED BY <2>6, <2>7, <2>9 DEF Inv
<1> QED BY <1>1, <1>2 DEF Replace

LEMMA RestoreKeeps == ASSUME Alone, Inv, NEW p \in Games, Restore(p) PROVE Inv'
PROOF
<1> USE SettingsAssumption DEF Alone
<1>1. CASE name' = name
  <2>1. pc'[p] = "idle" => Stage(p)'
    BY <1>1 DEF Restore, Inv, Stage, Saving, OnDisk, Parsed, Exists
  <2> QED BY <1>1, <2>1, MoveKeeps DEF Restore, Goto, Inv, TypeOK
<1>2. CASE had[p] /\ Exists("bak") /\ name' = [name EXCEPT !["target"] = name["bak"], !["bak"] = None]
  <2>1. pc[p] = "restore" /\ name["bak"] \in Inodes /\ name["target"] = None /\ mem[p] = OnDisk
    BY <1>2 DEF Restore, Inv, TypeOK, Stage, Names, Exists, Saving
  <2>2. UNCHANGED <<data, unsynced, want, fd, had, mem>> /\ Goto(p, "idle")
    BY DEF Restore
  <2>3. name' \in [Names -> Inodes \cup {None}] /\ name'["target"] = name["bak"]
        /\ name'["bak"] = None /\ name'["tmp"] = name["tmp"]
    BY <1>2, <2>1 DEF Inv, TypeOK, Names
  <2>4. pc' \in [Games -> Saving \cup Loading \cup {"idle"}] /\ pc'[p] = "idle"
    BY <2>2 DEF Inv, TypeOK, Goto
  <2>6. TypeOK'
    BY <2>1, <2>2, <2>3, <2>4 DEF Inv, TypeOK
  <2>7. DiskInv'
    BY <2>1, <2>2, <2>3 DEF Inv, TypeOK, DiskInv, Names
  <2>8. OnDisk' = OnDisk
    BY <2>1, <2>2, <2>3 DEF OnDisk, Parsed, Exists
  <2>9. Stage(p)'
    BY <2>1, <2>2, <2>3, <2>4, <2>8 DEF Stage, Saving
  <2> QED BY <2>6, <2>7, <2>9 DEF Inv
<1> QED BY <1>1, <1>2 DEF Restore

LEMMA CleanKeeps == ASSUME Alone, Inv, NEW p \in Games, Clean(p) PROVE Inv'
PROOF
<1> USE SettingsAssumption DEF Alone
<1>1. pc[p] = "clean" /\ name["target"] \in Inodes /\ data[name["target"]] = want[p] /\ want[p] \in Values
  BY DEF Clean, Inv, TypeOK, Stage, Names
<1>2. UNCHANGED <<data, unsynced, want, fd, had>> /\ Goto(p, "idle")
      /\ mem' = [mem EXCEPT ![p] = want[p]]
  BY DEF Clean
<1>3. name' \in [Names -> Inodes \cup {None}] /\ name'["target"] = name["target"]
      /\ name'["tmp"] = name["tmp"] /\ name'["bak"] \in {name["bak"], None}
  BY DEF Clean, Inv, TypeOK, Names
<1>4. pc' \in [Games -> Saving \cup Loading \cup {"idle"}] /\ pc'[p] = "idle"
  BY <1>2 DEF Inv, TypeOK, Goto
<1>5. mem' \in [Games -> Values] /\ mem'[p] = want[p]
  BY <1>1, <1>2 DEF Inv, TypeOK
<1>6. TypeOK'
  BY <1>1, <1>2, <1>3, <1>4, <1>5 DEF Inv, TypeOK
<1>7. DiskInv'
  BY <1>1, <1>2, <1>3 DEF Inv, TypeOK, DiskInv, Names
<1>8. OnDisk' = want[p]
  BY <1>1, <1>2, <1>3 DEF OnDisk, Parsed, Exists
<1>9. Stage(p)'
  BY <1>2, <1>4, <1>5, <1>8 DEF Stage, Saving
<1> QED BY <1>6, <1>7, <1>9 DEF Inv

\* A dead game has nothing open; a power loss tears nothing that has a name
\* other than .tmp.
LEMMA StopKeeps ==
  ASSUME Alone, Inv, NEW p \in Games, Crash(p) \/ PowerLoss
  PROVE  Inv'
PROOF
<1> USE SettingsAssumption DEF Alone
<1>1. CASE Crash(p)
  <2>1. fd' \in [Games -> Inodes \cup {None}] /\ fd'[p] = None
    BY <1>1 DEF Crash, Inv, TypeOK
  <2>2. pc'[p] = "off" => Stage(p)'
    BY DEF Stage, Saving
  <2> QED BY <1>1, <2>1, <2>2, MoveKeeps DEF Crash, Goto, disk, Inv, TypeOK, Loading
<1>2. CASE PowerLoss
  <2>1. data' \in [Inodes -> Values \cup {Torn, Bad}] /\ unsynced' = {} /\ name' = name
        /\ \A i \in Inodes : i \notin unsynced => data'[i] = data[i]
    BY <1>2 DEF PowerLoss, Inv, TypeOK
  <2>2. pc'[p] = "off" /\ pc' \in [Games -> Saving \cup Loading \cup {"idle"}]
        /\ fd'[p] = None /\ fd' \in [Games -> Inodes \cup {None}]
    BY <1>2 DEF PowerLoss, Loading
  <2>3. TypeOK'
    BY <1>2, <2>1, <2>2 DEF PowerLoss, Inv, TypeOK
  <2>4. DiskInv'
    BY <2>1 DEF Inv, TypeOK, DiskInv, Names
  <2>5. Stage(p)'
    BY <2>2 DEF Stage, Saving
  <2> QED BY <2>3, <2>4, <2>5 DEF Inv
<1> QED BY <1>1, <1>2

LEMMA BeginKeeps == ASSUME Alone, Inv, NEW p \in Games, NEW v \in Values, BeginSave(p, v) PROVE Inv'
PROOF
<1>1. want' \in [Games -> Values]
  BY DEF BeginSave, Inv, TypeOK
<1>2. pc'[p] = "create" => Stage(p)'
  BY DEF BeginSave, disk, Inv, Stage, Saving, OnDisk, Parsed, Exists
<1> QED BY <1>1, <1>2, MoveKeeps DEF BeginSave, Goto, disk, Inv, TypeOK, Saving

LEMMA InvNext == ASSUME Alone, Games # {}, Inv, [Next]_vars PROVE Inv'
PROOF
<1>1. CASE PowerLoss
  BY <1>1, StopKeeps
<1>2. ASSUME NEW p \in Games, Load(p) \/ Save(p) \/ Crash(p) PROVE Inv'
  BY <1>2, LoadKeeps, BeginKeeps, CreateKeeps, WriteKeeps, SyncKeeps, LookKeeps, SetAsideKeeps,
     ReplaceKeeps, RestoreKeeps, CleanKeeps, StopKeeps DEF Save
<1>3. CASE UNCHANGED vars
  <2>1. OnDisk' = OnDisk
    BY <1>3 DEF vars, disk, OnDisk, Parsed, Exists
  <2> QED BY <1>3, <2>1 DEF vars, disk, Inv, TypeOK, DiskInv, Stage
<1> QED BY <1>1, <1>2, <1>3 DEF Next

\* The state every step of a lone game starts from, and the reason it holds: no
\* call ever writes to a file that a load could find.
THEOREM StoreInvariant == ASSUME Alone, Games # {} PROVE Spec => []Inv
<1>1. Init => Inv
  BY InvInit
<1>2. Inv /\ [Next]_vars => Inv'
  BY InvNext
<1> QED BY <1>1, <1>2, PTL DEF Spec

\* Every variable of the store keeps its type, and a file is open exactly
\* between File::create and its close.
THEOREM TypeCorrect == ASSUME Alone, Games # {} PROVE Spec => []TypeOK
<1>1. Inv => TypeOK
  BY DEF Inv
<1> QED BY <1>1, StoreInvariant, PTL

\* rts_settings.rs:21: whatever fails or stops, the target is never half-written.
THEOREM TargetIsWhole == ASSUME Alone, Games # {} PROVE Spec => []TargetWhole
<1>1. Inv => TargetWhole
  BY DEF Inv, DiskInv, TargetWhole, Exists, Names
<1> QED BY <1>1, StoreInvariant, PTL

\* An idle game runs with exactly what a restart would load.
THEOREM MemoryAgrees == ASSUME Alone, Games # {} PROVE Spec => []MemoryAgreesWithDisk
<1>1. Inv => MemoryAgreesWithDisk
  BY DEF Inv, Stage, MemoryAgreesWithDisk
<1> QED BY <1>1, StoreInvariant, PTL
-----------------------------------------------------------------------------
\* Until the rename a load returns the old settings; after it, the new ones.
Shows ==
  \A p \in Games :
    /\ pc[p] \in (Saving \ {"clean"}) \cup {"idle"} => OnDisk = mem[p]
    /\ pc[p] = "clean" => OnDisk = want[p]

LEMMA Shown == Inv => Shows
PROOF
<1> SUFFICES ASSUME Inv, NEW p \in Games
    PROVE  /\ pc[p] \in (Saving \ {"clean"}) \cup {"idle"} => OnDisk = mem[p]
           /\ pc[p] = "clean" => OnDisk = want[p]
  BY DEF Shows
<1>1. want[p] \in Values /\ Stage(p)
  BY DEF Inv, TypeOK
<1> QED BY <1>1, SettingsAssumption DEF Stage, OnDisk, Parsed, Exists

\* Losing what was not synced does not change what a load returns.
LEMMA PowerLossHides == ASSUME Inv, PowerLoss PROVE OnDisk' = OnDisk
PROOF
<1>1. name' = name /\ \A i \in Inodes : i \notin unsynced => data'[i] = data[i]
  BY DEF PowerLoss
<1>2. \A n \in {"target", "bak"} : Parsed(n)' = Parsed(n)
  BY <1>1 DEF Parsed, Inv, TypeOK, DiskInv, Names
<1> QED BY <1>1, <1>2 DEF OnDisk, Exists

\* The register as the lone game's files show it.
seen == <<OnDisk, mem[TheGame], Phase, want[TheGame], pc[TheGame] = "clean">>

\* Loading is not seen until it returns, and then it is the register's Start.
LEMMA LoadStarts ==
  ASSUME Inv, TheGame \in Games, Load(TheGame)
  PROVE  Register!Start \/ UNCHANGED seen
PROOF
<1> DEFINE g == TheGame
<1>1. OnDisk' = OnDisk /\ want' = want /\ pc[g] \in Loading /\ pc \in [Games -> Saving \cup Loading \cup {"idle"}]
  BY DEF Load, LookForTarget, ReadTarget, LookForBak, ReadBak, disk, OnDisk, Parsed, Exists, Loading, Inv, TypeOK
<1>2. ASSUME mem' = mem, NEW l \in Loading, Goto(g, l) PROVE UNCHANGED seen
  <2>1. pc'[g] = l
    BY <1>1, <1>2 DEF Goto
  <2> QED BY <1>1, <1>2, <2>1 DEF seen, Phase, Saving, Loading
<1>3. ASSUME Goto(g, "idle"), mem' = [mem EXCEPT ![g] = OnDisk] PROVE Register!Start
  <2>1. pc'[g] = "idle" /\ mem'[g] = OnDisk
    BY <1>1, <1>3 DEF Goto, Inv, TypeOK
  <2> QED BY <1>1, <2>1 DEF Register!Start, Phase, Saving, Loading
<1>4. CASE LookForTarget(g)
  BY <1>2, <1>4 DEF LookForTarget, Loading
<1>5. CASE ReadTarget(g)
  <2>1. OnDisk = Parsed("target")
    BY <1>5 DEF ReadTarget, OnDisk, Exists, Inv, Stage
  <2> QED BY <1>3, <1>5, <2>1 DEF ReadTarget, Loaded
<1>6. CASE LookForBak(g) /\ Exists("bak")
  BY <1>2, <1>6 DEF LookForBak, Loading
<1>7. CASE LookForBak(g) /\ ~Exists("bak")
  <2>1. OnDisk = Default
    BY <1>7 DEF LookForBak, OnDisk, Parsed, Exists, Inv, Stage
  <2> QED BY <1>3, <1>7, <2>1 DEF LookForBak, Loaded
<1>8. CASE ReadBak(g)
  <2>1. OnDisk = Parsed("bak")
    BY <1>8 DEF ReadBak, OnDisk, Exists, Inv, Stage
  <2> QED BY <1>3, <1>8, <2>1 DEF ReadBak, Loaded
<1> QED BY <1>4, <1>5, <1>6, <1>7, <1>8 DEF Load

\* A call of a save that moves it along, or fails it, before it takes effect.
LEMMA QuietStep ==
  ASSUME Inv, Shows, Shows', TheGame \in Games, pc[TheGame] \in Saving \ {"clean"},
         NEW l \in (Saving \ {"clean"}) \cup {"idle"}, Goto(TheGame, l), UNCHANGED <<want, mem>>
  PROVE  Register!FailSave \/ UNCHANGED seen
PROOF
<1> DEFINE g == TheGame
<1>1. pc'[g] = l
  BY DEF Goto, Inv, TypeOK
<1>2. OnDisk = mem[g] /\ OnDisk' = mem'[g]
  BY <1>1 DEF Shows
<1> QED BY <1>1, <1>2 DEF Register!FailSave, seen, Phase, Saving

\* Each call of a save is a step of the register or changes nothing one can see.
LEMMA SaveActs ==
  ASSUME Inv, Shows, Shows', TheGame \in Games, Save(TheGame)
  PROVE  Register!Next \/ UNCHANGED seen
PROOF
<1> DEFINE g == TheGame
<1>1. ASSUME NEW v \in Values, BeginSave(g, v) PROVE Register!Begin(v)
  <2>1. pc[g] = "idle" /\ pc'[g] = "create" /\ want'[g] = v /\ mem' = mem /\ OnDisk' = OnDisk
    BY <1>1 DEF BeginSave, Goto, disk, OnDisk, Parsed, Exists, Inv, TypeOK
  <2> QED BY <2>1 DEF Register!Begin, Phase, Saving
<1>2. CASE CreateTmp(g) \/ WriteTmp(g) \/ SyncTmp(g) \/ LookAtTarget(g) \/ SetAside(g) \/ Restore(g)
  <2>1. pc[g] \in Saving \ {"clean"} /\ UNCHANGED <<want, mem>>
    BY <1>2 DEF CreateTmp, WriteTmp, SyncTmp, LookAtTarget, SetAside, Restore, FailSave, Saving
  <2>2. \E l \in (Saving \ {"clean"}) \cup {"idle"} : Goto(g, l)
    BY <1>2 DEF CreateTmp, WriteTmp, SyncTmp, LookAtTarget, SetAside, Restore, FailSave, Saving
  <2> QED BY <2>1, <2>2, QuietStep DEF Register!Next
<1>3. CASE Replace(g)
  <2>1. pc[g] = "replace" /\ UNCHANGED <<want, mem>> /\ \E l \in {"clean", "restore"} : Goto(g, l)
    BY <1>3 DEF Replace
  <2>2. CASE Goto(g, "restore")
    BY <2>1, <2>2, QuietStep DEF Saving, Register!Next
  <2>3. CASE Goto(g, "clean")
    <3>1. pc'[g] = "clean"
      BY <2>3 DEF Goto, Inv, TypeOK
    <3>2. OnDisk' = want'[g]
      BY <3>1 DEF Shows
    <3> QED BY <2>1, <3>1, <3>2 DEF Register!Next, Register!TakeEffect, Phase, Saving
  <2> QED BY <2>1, <2>2, <2>3
<1>4. CASE Clean(g)
  <2>1. pc[g] = "clean" /\ pc'[g] = "idle" /\ want' = want /\ mem'[g] = want[g]
    BY <1>4 DEF Clean, Goto, Inv, TypeOK
  <2>2. OnDisk = want[g] /\ OnDisk' = mem'[g]
    BY <2>1 DEF Shows
  <2> QED BY <2>1, <2>2 DEF Register!Next, Register!Succeed, Phase, Saving
<1> QED BY <1>1, <1>2, <1>3, <1>4 DEF Save, Register!Next

\* A death of the game or of the machine is the register's Die.
LEMMA StopDies ==
  ASSUME Inv, TheGame \in Games, Crash(TheGame) \/ PowerLoss
  PROVE  Register!Die
PROOF
<1>1. pc'[TheGame] = "off" /\ UNCHANGED <<want, mem>>
  BY DEF Crash, PowerLoss, Goto, Inv, TypeOK
<1>2. Crash(TheGame) => OnDisk' = OnDisk
  BY DEF Crash, disk, OnDisk, Parsed, Exists
<1> QED BY <1>1, <1>2, PowerLossHides DEF Register!Die, Phase, Saving

\* The protocol implements the register: for one game, whatever the settings
\* and however many files and calls, a save is atomic and its report is true.
THEOREM StoreIsARegister == ASSUME Alone, Games # {} PROVE Spec => ActsAsRegister
<1>1. TheGame \in Games /\ \A p \in Games : p = TheGame
  BY DEF TheGame, Alone
<1>2. Init => Register!Init
  <2> SUFFICES ASSUME Init PROVE Register!Init OBVIOUS
  <2>1. Parsed("target") \in Values /\ Parsed("bak") \in Values
    BY SettingsAssumption DEF Parsed
  <2> QED BY <1>1, <2>1, SettingsAssumption DEF Init, Register!Init, Phase, Saving, OnDisk
<1>3. Inv /\ Shows /\ Shows' /\ [Next]_vars => Register!Next \/ UNCHANGED seen
  <2> SUFFICES ASSUME Inv, Shows, Shows', [Next]_vars PROVE Register!Next \/ UNCHANGED seen OBVIOUS
  <2>1. CASE PowerLoss
    BY <1>1, <2>1, StopDies DEF Register!Next
  <2>2. CASE Load(TheGame)
    BY <1>1, <2>2, LoadStarts DEF Register!Next
  <2>3. CASE Save(TheGame)
    BY <1>1, <2>3, SaveActs
  <2>4. CASE Crash(TheGame)
    BY <1>1, <2>4, StopDies DEF Register!Next
  <2>5. CASE UNCHANGED vars
    BY <2>5 DEF vars, disk, seen, OnDisk, Parsed, Exists, Phase
  <2> QED BY <1>1, <2>1, <2>2, <2>3, <2>4, <2>5 DEF Next
<1> QED BY <1>2, <1>3, Shown, StoreInvariant, PTL DEF Spec, ActsAsRegister, Register!Spec, seen
=============================================================================
