---------------------------- MODULE LiveSettings ----------------------------
(***************************************************************************)
(* One settings change of a running game (src/rts_ui.rs, src/rts_window.rs, *)
(* src/rts_run.rs): it moves the window or the pointer grab, then the      *)
(* mixer, then the file, and is published last.  Every call may fail, and  *)
(* a native call that fails may or may not have acted; what was done is    *)
(* then undone in reverse, and if that fails too the run cannot go on.     *)
(*                                                                         *)
(* The camera speeds, the grid and the other volumes follow the volume's   *)
(* path.  A value from the settings page always validates, so the refusal  *)
(* of `validate' is left out; so is a run without a preference directory,  *)
(* which keeps its settings in memory.                                     *)
(***************************************************************************)
EXTENDS Integers, Sequences

CONSTANTS
  Levels,    \* the values of a volume
  Nothing    \* no change, no control, no text

ASSUME LevelsAssumption == {"unknown", "empty"} \cap Levels = {} /\ Nothing \notin Levels

Modes == {"borderless", "exclusive", "windowed"}
Switch == {"on", "off"}
Settings == [mode : Modes, confine : Switch, pause : Switch, volume : Levels]

Change(k, v) == [kind |-> k, to |-> v]
Changes ==
  {Change("mode", m) : m \in Modes} \cup {Change("volume", v) : v \in Levels}
    \cup {Change(k, b) : k \in {"confine", "pause"}, b \in Switch}

VARIABLES
  settings,   \* session.settings
  disk,       \* what a load would return: the value of the settings store
  window,     \* the window as the system has it
  grab,       \* the pointer grab; "unknown" after a call that failed
  gain,       \* the mixer's gain; "unknown" likewise
  claimed,    \* whether the GPU device holds the window
  at,         \* where the transaction is
  change,     \* the change it commits
  lost,       \* whether a compensation failed or the window did not come back
  pending, followup   \* the session's fields pending_ and followup_setting_change

live == <<settings, disk, window, grab, gain, claimed>>
txn == <<at, change, lost>>
staged == <<pending, followup>>

Shapes == [full : BOOLEAN, exclusive : BOOLEAN, bordered : BOOLEAN]

TypeOKLive ==
  /\ settings \in Settings /\ disk \in Settings
  /\ window \in Shapes
  /\ grab \in Switch \cup {"unknown"}
  /\ gain \in Levels \cup {"unknown"}
  /\ claimed \in BOOLEAN
  /\ at \in {"idle", "runtime", "gains", "save", "publish", "undo gains", "undo runtime", "reclaim"}
  /\ change \in Changes \cup {Nothing}
  /\ pending \in Changes \cup {Nothing} /\ followup \in Changes \cup {Nothing}
  /\ lost \in BOOLEAN
-----------------------------------------------------------------------------
\* Mutant of Calls: a windowed game keeps its exclusive mode.
CallsKeepExclusive(mode) ==
  IF mode = "windowed" THEN <<"leave", "border", "size", "center", "sync">> ELSE
  CASE mode = "borderless" -> <<"leave", "clear", "unborder", "enter", "sync">>
    [] mode = "exclusive"  -> <<"list", "border", "choose", "enter", "sync">>

\* The calls that take a window to a mode, in order.  The calls that list the
\* display's modes, size, center and sync change nothing that is tracked here.
Calls(mode) ==
  CASE mode = "borderless" -> <<"leave", "clear", "unborder", "enter", "sync">>
    [] mode = "exclusive"  -> <<"list", "border", "choose", "enter", "sync">>
    [] mode = "windowed"   -> <<"leave", "clear", "border", "size", "center", "sync">>

\* A flag of the window after n calls: as the last one that set or cleared it
\* left it, or as it was.
Flag(calls, n, on, off, was) ==
  \/ \E i \in 1 .. n : calls[i] = on /\ \A j \in i + 1 .. n : calls[j] # off
  \/ was /\ \A j \in 1 .. n : calls[j] # off

\* The window after the first n calls of a mode.
Reached(w, mode, n) ==
  [full      |-> Flag(Calls(mode), n, "enter", "leave", w.full),
   exclusive |-> Flag(Calls(mode), n, "choose", "clear", w.exclusive),
   bordered  |-> Flag(Calls(mode), n, "border", "unborder", w.bordered)]

\* What a mode looks like once it has been applied to any window.
Shape(mode) ==
  [full |-> mode # "windowed", exclusive |-> mode = "exclusive", bordered |-> mode # "borderless"]

Whole(w, mode) == Reached(w, mode, Len(Calls(mode)))

\* Where a mode change that fails at some call can leave the window.
Stranded(w, mode) == {Reached(w, mode, n) : n \in 0..Len(Calls(mode))}

\* transition_window_mode: the windows and the answers it can end with.
Transition(w, from, to) ==
  {<<"applied", Whole(w, to)>>}
    \cup {<<"rolled back", Whole(v, from)>> : v \in Stranded(w, to)}
    \cup {<<"lost", u>> : u \in UNION {Stranded(v, from) : v \in Stranded(w, to)}}
-----------------------------------------------------------------------------
Candidate == [settings EXCEPT ![change.kind] = change.to]

\* A mode change hands the window back to the system before it begins.
Begin ==
  /\ at = "idle" /\ pending # Nothing
  /\ at' = "runtime" /\ change' = pending /\ pending' = Nothing
  /\ claimed' = (claimed /\ pending.kind # "mode")
  /\ UNCHANGED <<settings, disk, window, grab, gain, lost, followup>>

Goto(l) == at' = l /\ UNCHANGED <<change, lost, staged>>

\* A call that was to undo what a failure left has failed too.
GiveUp(l) == at' = l /\ lost' = TRUE /\ UNCHANGED <<change, staged>>

\* A mode that was rolled back owes nothing; a grab that failed may have
\* happened, and is given back.
ApplyRuntime ==
  /\ at = "runtime"
  /\ \/ /\ change.kind = "mode"
        /\ \E t \in Transition(window, settings.mode, change.to) :
             /\ window' = t[2]
             /\ CASE t[1] = "applied"     -> Goto("gains")
                  [] t[1] = "rolled back" -> Goto("reclaim")
                  [] t[1] = "lost"        -> GiveUp("reclaim")
        /\ UNCHANGED <<settings, disk, grab, gain, claimed>>
     \/ /\ change.kind = "confine"
        /\ \/ grab' = change.to /\ Goto("gains")
           \/ grab' = "unknown" /\ Goto("undo runtime")
        /\ UNCHANGED <<settings, disk, window, gain, claimed>>
     \/ /\ change.kind \notin {"mode", "confine"}
        /\ Goto("gains") /\ UNCHANGED live

SetGains ==
  /\ at = "gains"
  /\ \/ gain' = Candidate.volume /\ Goto("save")
     \/ gain' = "unknown" /\ Goto("undo gains")
  /\ UNCHANGED <<settings, disk, window, grab, claimed>>

\* The store saves or does not: SettingsStore says how.
Save ==
  /\ at = "save"
  /\ \/ disk' = Candidate /\ Goto("publish")
     \/ UNCHANGED disk /\ Goto("undo gains")
  /\ UNCHANGED <<settings, window, grab, gain, claimed>>

\* Only what has been saved is used.
Publish ==
  /\ at = "publish"
  /\ settings' = Candidate /\ Goto("reclaim")
  /\ UNCHANGED <<disk, window, grab, gain, claimed>>

\* compensate_setting_change: both parts are tried whatever becomes of the
\* first one.
UndoGains ==
  /\ at = "undo gains"
  /\ \/ gain' = settings.volume /\ Goto("undo runtime")
     \/ gain' = "unknown" /\ GiveUp("undo runtime")
  /\ UNCHANGED <<settings, disk, window, grab, claimed>>

\* Rolling the rollback back is a failure.
UndoRuntime ==
  /\ at = "undo runtime"
  /\ \/ /\ change.kind = "mode"
        /\ \E t \in Transition(window, change.to, settings.mode) :
             /\ window' = t[2]
             /\ IF t[1] = "applied" THEN Goto("reclaim") ELSE GiveUp("reclaim")
        /\ UNCHANGED <<settings, disk, grab, gain, claimed>>
     \/ /\ change.kind = "confine"
        /\ \/ grab' = settings.confine /\ Goto("reclaim")
           \/ grab' = "unknown" /\ GiveUp("reclaim")
        /\ UNCHANGED <<settings, disk, window, gain, claimed>>
     \/ /\ change.kind \notin {"mode", "confine"}
        /\ Goto("reclaim") /\ UNCHANGED live

\* The transaction ends.  After a mode change, whatever came of it, the device
\* takes the window back and the viewport is read again; without either the
\* run cannot go on.  The slider step that came with the press that ended an
\* edit is committed next.
Reclaim ==
  /\ at = "reclaim"
  /\ \E back, read \in IF change.kind = "mode" THEN BOOLEAN ELSE {TRUE} :
       /\ claimed' = (claimed \/ back)
       /\ lost' = (lost \/ ~back \/ ~read)
  /\ IF followup # Nothing /\ ~lost'
     THEN at' = "runtime" /\ change' = followup
     ELSE at' = "idle" /\ change' = Nothing
  /\ followup' = Nothing
  /\ UNCHANGED <<settings, disk, window, grab, gain, pending>>

TransactionStep ==
  ApplyRuntime \/ SetGains \/ Save \/ Publish \/ UndoGains \/ UndoRuntime \/ Reclaim
=============================================================================
