------------------------------ MODULE Settings ------------------------------
(***************************************************************************)
(* The settings and their file (Settings.cpp, the handlers of              *)
(* SettingsComponent.cpp, and what Main.cpp and EngineHost.cpp do with     *)
(* them), across crashes and restarts of the program.                      *)
(*                                                                         *)
(* Every setter changes the record in memory and then, the mutex released  *)
(* in between, writes all of it to the file.  The write replaces the file  *)
(* as a whole or fails; a failure is logged and nothing else.  Of the      *)
(* record here are a number with a set of allowed values, the XML of the   *)
(* audio device, and the switches the conversions read.                    *)
(***************************************************************************)
EXTENDS Naturals

CONSTANTS AllowedBars,   \* kAllowed
          DefaultBars,
          Devices,       \* the audio devices
          NoDevice,      \* what is remembered before one was opened
          NoFile, Corrupt,
          MaxChanges     \* bound: how often the user changes them

ASSUME SettingsAssumption == /\ DefaultBars \in AllowedBars
                             /\ NoDevice \notin Devices
                             /\ MaxChanges \in Nat

VARIABLES data,     \* m_data
          file,     \* settings.json
          app,      \* "down", "starting" or "running"
          saving,   \* whether a setter is between its change and the write
          settled,  \* the settings when the last setter returned, or as loaded
          spoilt,   \* whether a write failed, or the file was changed by others
          changes   \* counts against MaxChanges

settingsVars == <<data, file, app, saving, settled, spoilt, changes>>

\* The stages of the pre-processing.
Stage == {"denoise", "vocal", "loudness"}

\* Data, as far as it is modelled.
Limits == [bars : AllowedBars, device : Devices \union {NoDevice}, pre : SUBSET Stage]

\* What stands for a file that cannot be read is not a record.
ASSUME NoRecord == NoFile \notin Limits /\ Corrupt \notin Limits

Defaults == [bars |-> DefaultBars, device |-> NoDevice, pre |-> {}]

\* Mutant: what is read is taken as it is.
ValidAsIs(d) == d

\* fromVar: a number that is not allowed is replaced by the default.
Valid(d) == [d EXCEPT !.bars = IF d.bars \in AllowedBars THEN d.bars ELSE DefaultBars]

\* load
Loaded(f) == IF f \in {NoFile, Corrupt} THEN Defaults ELSE Valid(f)

SettingsInit == /\ file \in {NoFile, Corrupt, [Defaults EXCEPT !.bars = 0]}
                /\ data = Defaults /\ settled = Defaults
                /\ app = "down" /\ saving = FALSE /\ spoilt = TRUE /\ changes = 0

-----------------------------------------------------------------------------

\* LoopaApplication::initialise loads the settings ...
Launch == /\ app = "down" /\ app' = "starting"
          /\ data' = Loaded(file) /\ settled' = data'
          /\ spoilt' = FALSE
          /\ UNCHANGED <<file, saving, changes>>

\* Mutant: the default bars are changed in memory only.
mutateUnsaved(d) == /\ app = "running" /\ ~saving
                    /\ data' = d
                    /\ saving' = (d.bars = data.bars)
                    /\ settled' = IF saving' THEN settled ELSE d
                    /\ UNCHANGED <<file, app, spoilt>>

\* The first half of every setter.
mutate(d) == /\ app = "running" /\ ~saving
             /\ data' = d
             /\ saving' = TRUE
             /\ UNCHANGED <<file, app, settled, spoilt>>

\* ... and EngineHost::start remembers the device it has opened, if it could.
StartHost == /\ app = "starting" /\ app' = "running"
             /\ \/ \E x \in Devices :
                     /\ data' = [data EXCEPT !.device = x]
                     /\ saving' = TRUE
                \/ UNCHANGED <<data, saving>>
             /\ UNCHANGED <<file, settled, spoilt, changes>>

\* The handlers of the settings window, and changeListenerCallback.
Change == /\ changes < MaxChanges /\ changes' = changes + 1
          /\ \/ \E b \in AllowedBars : mutate([data EXCEPT !.bars = b])
             \/ \E x \in Devices : mutate([data EXCEPT !.device = x])
             \/ \E s \in Stage : mutate([data EXCEPT !.pre =
                                          IF s \in @ THEN @ \ {s} ELSE @ \union {s}])

\* save: the second half.
save == /\ saving /\ saving' = FALSE
        /\ \/ file' = data /\ UNCHANGED spoilt
           \/ spoilt' = TRUE /\ UNCHANGED file
        /\ settled' = data
        /\ UNCHANGED <<data, app, changes>>

\* The program is closed, or it crashes: at any time, also between the two halves.
Down == /\ app # "down" /\ app' = "down"
        /\ data' = Defaults /\ saving' = FALSE
        /\ UNCHANGED <<file, settled, spoilt, changes>>

SettingsNext == Launch \/ StartHost \/ Change \/ save \/ Down

-----------------------------------------------------------------------------
(* Properties *)

\* Whatever the file held, the record is within its limits: the bars of new tracks are
\* posted to the engine and shown in a list of the allowed ones.
SettingsTypeOK == data \in Limits

\* "read from disk; defaults on missing/corrupt ... write current data to disk
\* immediately" (Settings.h:29-30): the next launch finds all that any setter had done
\* when it returned, however the program ended, and nothing of one that had not.
RestartRestores ==
    [][app = "down" /\ app' = "starting" /\ ~spoilt => data' = settled]_settingsVars
=============================================================================
