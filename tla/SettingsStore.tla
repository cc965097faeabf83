---------------------------- MODULE SettingsStore ----------------------------
(***************************************************************************)
(* The settings file and its replace protocol (src/rts_settings.rs), one   *)
(* system call to a step, with the game that loads and saves through it.   *)
(*                                                                         *)
(* A directory maps names to inodes, so that a writer keeps its file when  *)
(* somebody renames or truncates it under him.  Every call of a save may   *)
(* fail; a load finds what is there and can read it.  A game may be killed *)
(* between any two calls; the machine may lose power, and with it whatever *)
(* was written and not yet synced.  Renames reach the disk at once and in  *)
(* order, as on a journalled file system.                                  *)
(***************************************************************************)
CONSTANTS
  Games,    \* the processes that use the directory: one, or several instances
  Values,   \* the settings that validate
  Default,  \* RtsSettings::default
  Inodes,
  None,     \* no file, no descriptor
  Torn,     \* an empty or half-written file
  Bad       \* a file that is malformed, of another schema or out of range

ASSUME SettingsAssumption ==
  /\ Default \in Values
  /\ None \notin Inodes
  /\ Torn \notin Values /\ Bad \notin Values /\ Torn # Bad

VARIABLES
  name,      \* the directory: the target, its .tmp and its .bak
  data,      \* the content of each inode
  unsynced,  \* the inodes whose content is only in memory
  pc,        \* where each game is
  want,      \* the value it saves
  fd,        \* the file it has open
  had,       \* had_target
  mem        \* the settings it runs with

disk == <<name, data, unsynced>>
vars == <<disk, pc, want, fd, had, mem>>

Names == {"target", "tmp", "bak"}
Saving == {"create", "write", "sync", "look", "set aside", "replace", "restore", "clean"}
Loading == {"off", "read target", "look for bak", "read bak"}

\* One type invariant for the module.
TypeOK ==
  /\ name \in [Names -> Inodes \cup {None}]
  /\ data \in [Inodes -> Values \cup {Torn, Bad}]
  /\ unsynced \subseteq Inodes
  /\ pc \in [Games -> Saving \cup Loading \cup {"idle"}]
  /\ want \in [Games -> Values]
  /\ fd \in [Games -> Inodes \cup {None}]
  /\ \A p \in Games : pc[p] \in {"write", "sync"} <=> fd[p] # None
  /\ had \in [Games -> BOOLEAN]
  /\ mem \in [Games -> Values]

\* A first run, or a target that somebody saved or edited.
Init ==
  /\ \E i \in Inodes, v \in Values \cup {Bad} :
       /\ data = [j \in Inodes |-> IF j = i THEN v ELSE Torn]
       /\ name \in {[n \in Names |-> None], [n \in Names |-> IF n = "target" THEN i ELSE None]}
  /\ unsynced = {}
  /\ pc = [p \in Games |-> "off"]
  /\ want = [p \in Games |-> Default]
  /\ fd = [p \in Games |-> None]
  /\ had = [p \in Games |-> FALSE]
  /\ mem = [p \in Games |-> Default]
-----------------------------------------------------------------------------
Exists(n) == name[n] # None
Free == {i \in Inodes : (\A n \in Names : name[n] # i) /\ (\A p \in Games : fd[p] # i)}

Goto(p, l) == pc' = [pc EXCEPT ![p] = l]

\* read_and_validate: anything but a whole and valid file is the default.
Parsed(n) == IF name[n] # None /\ data[name[n]] \in Values THEN data[name[n]] ELSE Default

\* What a load would return now.
OnDisk == IF Exists("target") THEN Parsed("target") ELSE Parsed("bak")

\* `load' returns: the game runs with what it got.
Loaded(p, v) ==
  /\ Goto(p, "idle")
  /\ mem' = [mem EXCEPT ![p] = v]

LookForTarget(p) ==
  /\ pc[p] = "off"
  /\ Goto(p, IF Exists("target") THEN "read target" ELSE "look for bak")
  /\ UNCHANGED <<disk, want, fd, had, mem>>

\* A target that does not validate is not looked for in the .bak.
ReadTarget(p) ==
  /\ pc[p] = "read target"
  /\ Loaded(p, Parsed("target"))
  /\ UNCHANGED <<disk, want, fd, had>>

LookForBak(p) ==
  /\ pc[p] = "look for bak"
  /\ IF Exists("bak") THEN Goto(p, "read bak") /\ UNCHANGED <<mem>>
     ELSE Loaded(p, Default)
  /\ UNCHANGED <<disk, want, fd, had>>

ReadBak(p) ==
  /\ pc[p] = "read bak"
  /\ Loaded(p, Parsed("bak"))
  /\ UNCHANGED <<disk, want, fd, had>>
-----------------------------------------------------------------------------
\* Only a value that validates is saved; the rest is refused before any file
\* is touched.
BeginSave(p, v) ==
  /\ pc[p] = "idle" /\ Goto(p, "create")
  /\ want' = [want EXCEPT ![p] = v]
  /\ UNCHANGED <<disk, fd, had, mem>>

\* A call failed and `?' returns it: what was written stays where it is.
FailSave(p) ==
  /\ Goto(p, "idle")
  /\ fd' = [fd EXCEPT ![p] = None]
  /\ UNCHANGED <<disk, want, had, mem>>

\* File::create truncates the .tmp that is there, whoever made it.
CreateTmp(p) ==
  /\ pc[p] = "create"
  /\ \/ /\ \E i \in IF Exists("tmp") THEN {name["tmp"]} ELSE Free :
             /\ name' = [name EXCEPT !["tmp"] = i]
             /\ fd' = [fd EXCEPT ![p] = i]
             /\ data' = [data EXCEPT ![i] = Torn]
             /\ unsynced' = unsynced \cup {i}
        /\ Goto(p, "write")
        /\ UNCHANGED <<want, had, mem>>
     \/ FailSave(p)

WriteTmp(p) ==
  /\ pc[p] = "write"
  /\ \/ /\ data' = [data EXCEPT ![fd[p]] = want[p]]
        /\ unsynced' = unsynced \cup {fd[p]}
        /\ Goto(p, "sync")
        /\ UNCHANGED <<name, want, fd, had, mem>>
     \/ FailSave(p)

\* Mutant of SyncTmp: the file is closed without sync_all.
CloseTmp(p) ==
  /\ pc[p] = "sync" /\ Goto(p, "look")
  /\ fd' = [fd EXCEPT ![p] = None]
  /\ UNCHANGED <<disk, want, had, mem>>

SyncTmp(p) ==
  /\ pc[p] = "sync"
  /\ \/ /\ Goto(p, "look")
        /\ unsynced' = unsynced \ {fd[p]}
        /\ fd' = [fd EXCEPT ![p] = None]
        /\ UNCHANGED <<name, data, want, had, mem>>
     \/ FailSave(p)

LookAtTarget(p) ==
  /\ pc[p] = "look"
  /\ had' = [had EXCEPT ![p] = Exists("target")]
  /\ Goto(p, IF Exists("target") THEN "set aside" ELSE "replace")
  /\ UNCHANGED <<disk, want, fd, mem>>

\* Mutant of SetAside: the old target is removed instead of kept.
RemoveTarget(p) ==
  /\ pc[p] = "set aside" /\ Goto(p, "replace")
  /\ name' = [name EXCEPT !["target"] = None]
  /\ UNCHANGED <<data, unsynced, want, fd, had, mem>>

\* rename(target, .bak)
SetAside(p) ==
  /\ pc[p] = "set aside"
  /\ \/ /\ Exists("target")
        /\ name' = [name EXCEPT !["bak"] = name["target"], !["target"] = None]
        /\ Goto(p, "replace")
        /\ UNCHANGED <<data, unsynced, want, fd, had, mem>>
     \/ FailSave(p)

\* rename(.tmp, target)
Replace(p) ==
  /\ pc[p] = "replace"
  /\ \/ /\ Exists("tmp")
        /\ name' = [name EXCEPT !["target"] = name["tmp"], !["tmp"] = None]
        /\ Goto(p, "clean")
     \/ UNCHANGED name /\ Goto(p, "restore")
  /\ UNCHANGED <<data, unsynced, want, fd, had, mem>>

\* The old target comes back, if that call does not fail as well.
Restore(p) ==
  /\ pc[p] = "restore" /\ Goto(p, "idle")
  /\ \/ /\ had[p] /\ Exists("bak")
        /\ name' = [name EXCEPT !["target"] = name["bak"], !["bak"] = None]
     \/ UNCHANGED name
  /\ UNCHANGED <<data, unsynced, want, fd, had, mem>>

\* Remove the .bak if this save made it; the save has succeeded either way.
Clean(p) ==
  /\ pc[p] = "clean" /\ Goto(p, "idle")
  /\ \/ had[p] /\ name' = [name EXCEPT !["bak"] = None]
     \/ UNCHANGED name
  /\ mem' = [mem EXCEPT ![p] = want[p]]
  /\ UNCHANGED <<data, unsynced, want, fd, had>>
-----------------------------------------------------------------------------
\* The game quits or is killed; what it wrote stays in the kernel's memory.
Crash(p) ==
  /\ pc[p] # "off" /\ Goto(p, "off")
  /\ fd' = [fd EXCEPT ![p] = None]
  /\ UNCHANGED <<disk, want, had, mem>>

\* Any unsynced content may be lost.
PowerLoss ==
  /\ \E lost \in SUBSET unsynced : data' = [i \in Inodes |-> IF i \in lost THEN Torn ELSE data[i]]
  /\ unsynced' = {}
  /\ pc' = [p \in Games |-> "off"]
  /\ fd' = [p \in Games |-> None]
  /\ UNCHANGED <<name, want, had, mem>>

Load(p) == LookForTarget(p) \/ ReadTarget(p) \/ LookForBak(p) \/ ReadBak(p)

Save(p) ==
  \/ \E v \in Values : BeginSave(p, v)
  \/ CreateTmp(p) \/ WriteTmp(p) \/ SyncTmp(p) \/ LookAtTarget(p)
  \/ SetAside(p) \/ Replace(p) \/ Restore(p) \/ Clean(p)

Next == PowerLoss \/ \E p \in Games : Load(p) \/ Save(p) \/ Crash(p)

Spec == Init /\ [][Next]_vars
-----------------------------------------------------------------------------
\* rts_settings.rs:21: a save `never leaves the target file half-written',
\* whatever call fails or whenever the game or the machine stops.
TargetWhole == Exists("target") => data[name["target"]] # Torn

\* An idle game runs with what the next game would load: a successful save is
\* published and a failed one is not, in memory and on disk alike.
MemoryAgreesWithDisk == \A p \in Games : pc[p] = "idle" => mem[p] = OnDisk

TheGame == CHOOSE p \in Games : TRUE

Phase ==
  IF pc[TheGame] = "idle" THEN "idle" ELSE IF pc[TheGame] \in Saving THEN "saving" ELSE "off"

Register == INSTANCE SettingsFile
  WITH value <- OnDisk, known <- mem[TheGame], want <- want[TheGame],
       done <- pc[TheGame] = "clean", at <- Phase

\* With one game, the files are a register: saves take effect at one instant,
\* reports are true, and a restart reads the last value that took effect.
ActsAsRegister == Register!Spec
=============================================================================
