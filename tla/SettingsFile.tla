---------------------------- MODULE SettingsFile ----------------------------
(***************************************************************************)
(* What the settings store promises one game (src/rts_settings.rs, the     *)
(* module's comment): a register.  A save takes effect at one instant or   *)
(* not at all; it reports success only if it did and failure only if it    *)
(* did not; and whenever the game dies, the next one reads the last value  *)
(* that took effect.  There are no files at this level.                    *)
(***************************************************************************)
CONSTANT Values

VARIABLES
  value,   \* what the next game to start will use
  known,   \* the settings of the running game
  at,      \* "off", "idle" or "saving"
  want,    \* what is being saved
  done     \* whether it has taken effect

Init == value \in Values /\ known \in Values /\ want \in Values /\ at = "off" /\ done = FALSE

Start == at = "off" /\ at' = "idle" /\ known' = value /\ UNCHANGED <<value, want, done>>

Begin(v) ==
  /\ at = "idle" /\ at' = "saving"
  /\ want' = v
  /\ UNCHANGED <<value, known, done>>

TakeEffect ==
  /\ at = "saving" /\ ~done
  /\ value' = want /\ done' = TRUE
  /\ UNCHANGED <<known, at, want>>

Succeed ==
  /\ at = "saving" /\ done
  /\ at' = "idle" /\ known' = want /\ done' = FALSE
  /\ UNCHANGED <<value, want>>

FailSave ==
  /\ at = "saving" /\ ~done
  /\ at' = "idle"
  /\ UNCHANGED <<value, known, want, done>>

Die == at' = "off" /\ done' = FALSE /\ UNCHANGED <<value, known, want>>

Next == Start \/ (\E v \in Values : Begin(v)) \/ TakeEffect \/ Succeed \/ FailSave \/ Die

Spec == Init /\ [][Next]_<<value, known, at, want, done>>
=============================================================================
