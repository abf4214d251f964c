----------------------------- MODULE Configuration -----------------------------
(***************************************************************************)
(* What kittd runs with: the start of kittd (main.rs), which reads         *)
(* config.json and models.json (model_config.rs), layers the overlay of    *)
(* the Control Center over them (settings_overlay.rs) and starts the voice *)
(* loop and the Control Center; the service manager that starts kittd      *)
(* again (kittctl, service.rs); and the pages of SettingsOverlay, which    *)
(* are served while kittd serves.                                          *)
(*                                                                         *)
(* Of the settings there are those of the speech provider: its URL, its    *)
(* local_provider, and its model together with allow_remote and the key.   *)
(* "whisper-1" is that model, on this machine only and without a key, as   *)
(* older versions wrote it; "other" is anything else.  The other profiles  *)
(* and config.json are validated alike.                                    *)
(* Files of kittd are created and migrated in place, so that a process     *)
(* that ends in a write leaves a torn file; the overlay is renamed.        *)
(***************************************************************************)
EXTENDS SettingsOverlay

CONSTANTS
  Files,            \* bound: what models.json may say when the user wrote it
  Environments,     \* bound: what the environment of the service may say
  Absent, Torn,     \* a file that is missing, one that was not written to its end
  MaxInterruptions  \* bound: crashes, stops and restarts of kittd

ASSUME ConfigurationAssumption ==
  /\ Setting = {"base_url", "local_provider", "model"}
  /\ Catalog["base_url"] = {"loopback", "legacy", "remote"}
  /\ Catalog["local_provider"] = {"true", "false"}
  /\ Catalog["model"] = {"whisper-1", "other"}
  /\ Files \subseteq [Setting -> Value] /\ Environments \subseteq [Setting -> Value \cup {Unset}]
  /\ \A e \in Files \cup Environments : \A s \in Setting : e[s] \in Catalog[s] \cup {Unset}
  /\ {Absent, Torn} \cap [Setting -> Value] = {} /\ Absent # Torn
  /\ MaxInterruptions \in Nat

VARIABLES
  kittd,         \* how far kittd is
  environment,   \* KITT_STT_BASE_URL and the like, Unset or not
  config,        \* config.json, told apart by whether it can be read
  models,        \* models.json, its speech profile
  used,          \* the profile that kittd runs with
  mode,          \* the activation mode of the voice loop
  interruptions

boot == <<kittd, environment, config, models, used, mode>>
vars == <<overlayVars, boot, interruptions>>

Profile == [Setting -> Value]
Environment == [Setting -> Value \cup {Unset}]

TypeOK ==
  /\ OverlayTypeOK
  /\ kittd \in {"stopped", "failed", "config", "models", "voice", "serving"}
  /\ environment \in Environment
  /\ config \in {"absent", "torn", "whole"}
  /\ models \in Profile \cup {Absent, Torn}
  /\ used \in Profile \cup {Absent}
  /\ mode \in {"off", "transcript_prefix"}
  /\ interruptions \in 0..MaxInterruptions

SaysNothing == [s \in Setting |-> Unset]

(* The user may have written any file; without one the environment of the  *)
(* service is read.                                                        *)
Init ==
  /\ OverlayInit
  /\ kittd = "stopped"
  /\ config \in {"absent", "whole"}
  /\ \/ /\ models = Absent
        /\ environment \in Environments
     \/ models \in Files /\ environment = SaysNothing
  /\ used = Absent /\ mode = "off"
  /\ interruptions = 0

-----------------------------------------------------------------------------
(* Profiles.                                                               *)

(* infer_local                                                             *)
InferLocal(url) == IF url = "remote" THEN "false" ELSE "true"

Or(value, default) == IF value = Unset THEN default ELSE value

(* Fault: the locality is taken from config.json.                          *)
FaultCreated(e) ==
  [s \in Setting |-> CASE s = "base_url"       -> Or(e[s], "loopback")
                       [] s = "model"          -> Or(e[s], "other")
                       [] s = "local_provider" -> Or(e[s], "true")]

(* load_or_create without a file: what the environment says, or the default*)
(* URL and no model; the locality is inferred from the URL.                *)
Created(e) ==
  [s \in Setting |-> CASE s = "base_url"       -> Or(e[s], "loopback")
                       [] s = "model"          -> Or(e[s], "other")
                       [] s = "local_provider" -> Or(e[s], InferLocal(Or(e["base_url"], "loopback")))]

(* validate_profile                                                        *)
Valid(p) == p["local_provider"] = "true" => p["base_url"] # "remote"

(* migrate_known_broken_stt_default                                        *)
Broken(p) == p["base_url"] = "legacy" /\ p["model"] = "whisper-1" /\ p["local_provider"] = "true"
Migrated(p) == IF Broken(p) THEN [p EXCEPT !["base_url"] = "loopback"] ELSE p

(* Fault: only models.json is migrated.                                    *)
FaultLayered(p) == [s \in Setting |-> Or(overlay.values[s], p[s])]

(* apply_models                                                            *)
Layered(p) == Migrated([s \in Setting |-> Or(overlay.values[s], p[s])])

-----------------------------------------------------------------------------
(* The start of kittd.                                                     *)

(* fatal, or the end of the process                                        *)
Down(how) == kittd' = how /\ used' = Absent /\ mode' = "off"

(* load_config and the overlay of assistant.core                           *)
LoadConfig ==
  /\ kittd = "config"
  /\ IF config = "torn"
     THEN Down("failed") /\ UNCHANGED config
     ELSE kittd' = "models" /\ config' = "whole" /\ UNCHANGED <<used, mode>>
  /\ UNCHANGED <<environment, models, overlayVars, interruptions>>

(* Fault: what the overlay makes of a valid file is taken as it is.        *)
FaultUse(p) ==
  kittd' = "voice" /\ used' = Layered(p) /\ UNCHANGED mode

(* The overlay may make a valid file invalid.                              *)
Use(p) ==
  IF Valid(Layered(p))
  THEN kittd' = "voice" /\ used' = Layered(p) /\ UNCHANGED mode
  ELSE Down("failed")

(* load_or_create and apply_models.  With a file the environment is not    *)
(* looked at any more.                                                     *)
LoadModels ==
  /\ kittd = "models"
  /\ \/ models = Torn /\ Down("failed") /\ UNCHANGED <<environment, models>>
     \/ /\ models = Absent
        /\ IF Valid(Created(environment))
           THEN models' = Created(environment) /\ environment' = SaysNothing /\ Use(models')
           ELSE Down("failed") /\ UNCHANGED <<environment, models>>
     \/ /\ models \in Profile
        /\ UNCHANGED environment
        /\ IF Valid(Migrated(models))
           THEN models' = Migrated(models) /\ Use(models')
           ELSE Down("failed") /\ UNCHANGED models
  /\ UNCHANGED <<config, overlayVars, interruptions>>

(* voice::start: the mode that voice.json and the wake-word model give, or *)
(* none; without a model speech is only transcribed by a local provider.   *)
(* "off" stands for the mode "wakeword", too.                              *)
StartVoice ==
  /\ kittd = "voice"
  /\ kittd' = "serving"
  /\ mode' \in {"off"} \cup
               IF used["local_provider"] = "true" THEN {"transcript_prefix"} ELSE {}
  /\ UNCHANGED <<environment, config, models, used, overlayVars, interruptions>>

-----------------------------------------------------------------------------
(* The service manager.                                                    *)

(* kittctl service start, and Restart=on-failure                           *)
StartService ==
  /\ kittd \in {"stopped", "failed"}
  /\ kittd' = "config"
  /\ UNCHANGED <<environment, config, models, used, mode, overlayVars, interruptions>>

(* A write under way is torn, or is not begun or is done.                  *)
Interrupt ==
  /\ interruptions < MaxInterruptions
  /\ interruptions' = interruptions + 1
  /\ Interrupted
  /\ UNCHANGED <<environment, overlay, snapshot, pending>>
  /\ \/ kittd = "config" /\ config = "absent" /\ config' = "torn" /\ UNCHANGED models
     \/ /\ kittd = "models" /\ (models = Absent \/ (models \in Profile /\ Migrated(models) # models))
        /\ models' = Torn
        /\ UNCHANGED config
     \/ UNCHANGED <<config, models>>

Crash ==
  /\ kittd \notin {"stopped", "failed"}
  /\ Interrupt /\ Down("failed")

StopService ==
  /\ kittd # "stopped"
  /\ Interrupt /\ Down("stopped")

(* kittctl service restart, and the button of the Control Center           *)
RestartService == Interrupt /\ Down("config")

-----------------------------------------------------------------------------
(* The pages.  A save that finds no kittd ends like one that is cancelled. *)
Browse(p) ==
  /\ \/ Edit(p) \/ Reset(p) \/ Cancel(p) \/ Applied(p)
     \/ kittd = "serving" /\ (Reload(p) \/ Preview(p) \/ Previewed(p) \/ Apply(p) \/ Serve(p))
  /\ UNCHANGED <<boot, interruptions>>

Boot == LoadConfig \/ LoadModels \/ StartVoice

Next ==
  \/ \E p \in Page : Browse(p)
  \/ Boot \/ StartService \/ Crash \/ StopService \/ RestartService

Spec == Init /\ [][Next]_vars

(* The manager starts a service that failed, and a start goes on.          *)
Fairness ==
  /\ WF_vars(kittd = "failed" /\ StartService)
  /\ WF_vars(Boot)

FairSpec == Spec /\ Fairness

-----------------------------------------------------------------------------
(* Properties.                                                             *)

(* Speech from before a wake word, which the prefix mode transcribes, does *)
(* not leave the machine, whatever models.json and the overlay say         *)
(* (docs/VOICE.md, "this mode refuses to start when STT is remote").       *)
MicrophoneStaysLocal ==
  mode = "transcript_prefix" => used["base_url"] # "remote"

(* The default of older versions, whisper-1 as the local provider at a URL *)
(* where none is, is never run with, from wherever its parts come:         *)
(* models.json, the environment or the overlay.                            *)
BrokenDefaultUnused == used # Absent => ~Broken(used)

(* What is on disk, or in the environment, is enough to start: no provider *)
(* that is somewhere else is called local, by the file or with the overlay.*)
Agrees(url, local) == local = "true" => url \in {"loopback", "legacy"}
Bootable ==
  LET profile == IF models = Absent THEN environment ELSE models
      url     == Or(profile["base_url"], "loopback")
      local   == Or(profile["local_provider"], InferLocal(url))
  IN  /\ config # "torn" /\ models # Torn
      /\ Agrees(url, local)
      /\ Agrees(Or(overlay.values["base_url"], url), Or(overlay.values["local_provider"], local))

(* A kittd that was not stopped serves again, as long as its files are     *)
(* whole and agree.                                                        *)
ServesAgain ==
  (Bootable /\ kittd # "stopped") ~> (kittd \in {"serving", "stopped"} \/ ~Bootable)

(* What a document or a comment says and the code does not keep: README.md, *)
(* section 6, names the instance in which TLC finds it violated.            *)

(* No save that the Control Center accepts keeps kittd, and with it the    *)
(* Control Center, from starting (README: loopback-first, validated).      *)
SavesStayBootable ==
  [][Bootable /\ overlay' # overlay => Bootable']_vars

(* What a page shows for a setting that nobody has changed is what kittd   *)
(* uses.                                                                   *)
ShownIsUsed ==
  \A p \in Page : kittd = "serving" /\ snapshot[p] = overlay =>
    \A s \in Setting : overlay.values[s] = Unset => Shown(p, s) = used[s]
=============================================================================
