------------------------- MODULE ControlCenterProofs -------------------------
(***************************************************************************)
(* Proofs about the Control Center: how kittd starts with what it saved    *)
(* (Configuration), for every number of pages, edits, requests, revisions  *)
(* and interruptions, and whatever the overlay sets; and the reverse proxy *)
(* that it starts and stops (ReverseProxyManager), for every set of        *)
(* requests and processes.                                                 *)
(***************************************************************************)
EXTENDS Configuration, ReverseProxyManager, FiniteSetTheorems, TLAPS

(***************************************************************************)
(* The profile that kittd runs with.                                       *)
(***************************************************************************)

(* kittd only runs with a profile that was validated and migrated, and     *)
(* transcribes without a wake word only with a local one.                  *)
UsedInv ==
  /\ kittd \in {"voice", "serving"} => Valid(used) /\ ~Broken(used)
  /\ kittd \notin {"voice", "serving"} => used = Absent /\ mode = "off"
  /\ mode = "transcript_prefix" => used["local_provider"] = "true"

(* What the overlay makes of a profile is migrated.                        *)
LEMMA LayeredIsNotBroken ==
  ASSUME NEW p
  PROVE  ~Broken(Layered(p))
<1> DEFINE q == [s \in Setting |-> Or(overlay.values[s], p[s])]
<1>1. Layered(p) = Migrated(q)
  BY DEF Layered
<1>2. CASE Broken(q)
  <2>1. Migrated(q)["base_url"] = "loopback"
    BY <1>2, ConfigurationAssumption DEF Migrated
  <2> QED BY <1>1, <2>1 DEF Broken
<1>3. CASE ~Broken(q)
  BY <1>1, <1>3 DEF Migrated
<1> QED BY <1>2, <1>3

(* A kittd that does not run has no profile and listens to nothing.        *)
LEMMA DownUsesNothing ==
  ASSUME NEW how \in {"stopped", "failed", "config"}, Down(how)
  PROVE  UsedInv'
BY DEF Down, UsedInv

(* What the overlay makes of the file is used if it is valid.              *)
LEMMA UseIsValid ==
  ASSUME UsedInv, kittd = "models", NEW p, Use(p)
  PROVE  UsedInv'
<1>1. CASE Valid(Layered(p))
  <2>1. kittd' = "voice" /\ used' = Layered(p) /\ mode' = "off"
    BY <1>1 DEF Use, UsedInv
  <2>2. ~Broken(Layered(p))
    BY LayeredIsNotBroken
  <2> QED BY <1>1, <2>1, <2>2 DEF UsedInv, Valid
<1>2. CASE ~Valid(Layered(p))
  BY <1>2, DownUsesNothing DEF Use
<1> QED BY <1>1, <1>2

LEMMA UsedStep ==
  ASSUME UsedInv, [Next]_vars
  PROVE  UsedInv'
<1>1. ASSUME UNCHANGED <<used, mode>>, UNCHANGED kittd
      PROVE  UsedInv'
  BY <1>1 DEF UsedInv, Valid
<1>2. ASSUME NEW p \in Page, Browse(p)
      PROVE  UsedInv'
  BY <1>1, <1>2 DEF Browse, boot
<1>3. CASE LoadConfig
  <2>1. CASE config = "torn"
    BY <1>3, <2>1, DownUsesNothing DEF LoadConfig
  <2>2. CASE config # "torn"
    BY <1>3, <2>2 DEF LoadConfig, UsedInv
  <2> QED BY <2>1, <2>2
<1>4. CASE LoadModels
  <2>1. kittd = "models"
    BY <1>4 DEF LoadModels
  <2>2. (\E p : Use(p)) \/ Down("failed")
    BY <1>4 DEF LoadModels
  <2> QED BY <2>1, <2>2, UseIsValid, DownUsesNothing
<1>5. CASE StartVoice
  <2>1. kittd = "voice" /\ kittd' = "serving" /\ UNCHANGED used
    BY <1>5 DEF StartVoice
  <2>2. mode' = "transcript_prefix" => used["local_provider"] = "true"
    BY <1>5 DEF StartVoice
  <2> QED BY <2>1, <2>2 DEF UsedInv, Valid
<1>6. CASE StartService
  BY <1>6 DEF StartService, UsedInv
<1>7. CASE Crash \/ StopService \/ RestartService
  BY <1>7, DownUsesNothing DEF Crash, StopService, RestartService
<1>8. CASE UNCHANGED vars
  BY <1>1, <1>8 DEF vars, boot
<1> QED BY <1>2, <1>3, <1>4, <1>5, <1>6, <1>7, <1>8 DEF Next, Boot

LEMMA UsedAlways == Spec => []UsedInv
<1>1. Init => UsedInv
  BY DEF Init, UsedInv
<1>2. UsedInv /\ [Next]_vars => UsedInv'
  BY UsedStep
<1> QED BY <1>1, <1>2, PTL DEF Spec

(* docs/VOICE.md, "this mode refuses to start when STT is remote": what is *)
(* transcribed without a wake word does not leave the machine, whatever    *)
(* the files and the overlay say when kittd starts, and started again.     *)
THEOREM PrefixIsLocal == Spec => []MicrophoneStaysLocal
<1>1. UsedInv => MicrophoneStaysLocal
  BY DEF UsedInv, MicrophoneStaysLocal, Valid
<1> QED BY <1>1, UsedAlways, PTL

(* whisper-1 as the local provider at the URL of the old default, without  *)
(* a key and not allowed to be remote, is never run with, whether the file,*)
(* the environment or the overlay says so or each of them a part.          *)
THEOREM BrokenDefaultMigrated == Spec => []BrokenDefaultUnused
<1>1. UsedInv => BrokenDefaultUnused
  BY DEF UsedInv, BrokenDefaultUnused
<1> QED BY <1>1, UsedAlways, PTL

(***************************************************************************)
(* Types.                                                                  *)
(***************************************************************************)

Merging == {p \in Page : server[p] = "merging"}

LEMMA MergingFinite ==
  IsFiniteSet(Merging) /\ Cardinality(Merging) \in Nat
<1>1. IsFiniteSet(Merging)
  BY SettingsOverlayAssumption, FS_Subset DEF Merging
<1> QED BY <1>1, FS_CardinalityType

(* No more requests are between read and replace.                          *)
LEMMA FewerMerging ==
  ASSUME OverlayTypeOK, Merging' \subseteq Merging
  PROVE  Cardinality(Merging') <= MaxBusy
<1>1. Cardinality(Merging) <= MaxBusy
  BY DEF OverlayTypeOK, Merging
<1>2. Cardinality(Merging') <= Cardinality(Merging) /\ IsFiniteSet(Merging')
  BY MergingFinite, FS_Subset
<1>3. Cardinality(Merging') \in Nat
  BY <1>2, FS_CardinalityType
<1> QED BY <1>1, <1>2, <1>3, MergingFinite, SettingsOverlayAssumption

LEMMA EmptyTypes ==
  NoEdits \in Edits /\ NoDocument \in Document
  /\ NoRequest \in [expected_revision : 0..MaxRevision, changes : Edits]
<1>1. NoEdits \in Edits
  <2>1. NoEdits \in [{} -> Value]
    BY DEF NoEdits
  <2> QED BY <2>1 DEF Edits
<1>2. 0 \in 0..MaxRevision
  BY SettingsOverlayAssumption
<1> QED BY <1>1, <1>2 DEF NoDocument, Document, NoRequest

(* Edits are about settings.                                               *)
LEMMA EditsDomain ==
  ASSUME NEW edits \in Edits
  PROVE  DOMAIN edits \subseteq Setting /\ edits \in [DOMAIN edits -> Value]
BY DEF Edits

LEMMA ChangedEdits ==
  ASSUME NEW edits \in Edits, NEW s \in Setting, NEW v \in Value,
         NEW S \in SUBSET (DOMAIN edits \cup {s})
  PROVE  [t \in S |-> IF t = s THEN v ELSE edits[t]] \in Edits
<1>1. S \in SUBSET Setting
  BY EditsDomain
<1>2. [t \in S |-> IF t = s THEN v ELSE edits[t]] \in [S -> Value]
  BY EditsDomain
<1> QED BY <1>1, <1>2 DEF Edits

LEMMA MergedType ==
  ASSUME NEW values \in [Setting -> Value \cup {Unset}], NEW changes \in Edits
  PROVE  Merged(values, changes) \in [Setting -> Value \cup {Unset}]
BY EditsDomain DEF Merged

(* The actions of a page that leave requests alone.                        *)
LEMMA PageType ==
  ASSUME OverlayTypeOK, NEW p \in Page,
         Edit(p) \/ Reset(p) \/ Reload(p) \/ Preview(p) \/ Previewed(p) \/ Cancel(p)
  PROVE  OverlayTypeOK'
<1> USE EmptyTypes
<1>1. UNCHANGED <<overlay, request, server, copy>>
  BY DEF Edit, Reset, Reload, Preview, Previewed, Cancel, put
<1>2. snapshot' \in [Page -> Document]
  BY DEF Edit, Reset, Reload, Preview, Previewed, Cancel, OverlayTypeOK
<1>3. phase' \in [Page -> {"editing", "previewing", "reviewing", "applying"}]
  BY DEF Edit, Reset, Reload, Preview, Previewed, Cancel, Closes, OverlayTypeOK
<1>4. diff' \in [Page -> Edits]
  BY DEF Edit, Reset, Reload, Preview, Previewed, Cancel, Closes, OverlayTypeOK
<1>5. pending' \in [Page -> Edits]
  <2>1. CASE Edit(p)
    <3>1. PICK s \in Setting : \E v \in Catalog[s] :
            LET others == DOMAIN pending[p] \ {s}
                edited == IF v = Shown(p, s) THEN others ELSE others \cup {s}
            IN  pending' = [pending EXCEPT ![p] =
                             [t \in edited |-> IF t = s THEN v ELSE pending[p][t]]]
      BY <2>1 DEF Edit
    <3>2. PICK v \in Catalog[s], S \in SUBSET (DOMAIN pending[p] \cup {s}) :
            pending' = [pending EXCEPT ![p] = [t \in S |-> IF t = s THEN v ELSE pending[p][t]]]
      BY <3>1
    <3>3. v \in Value /\ pending[p] \in Edits
      BY <3>2 DEF Value, OverlayTypeOK
    <3>4. [t \in S |-> IF t = s THEN v ELSE pending[p][t]] \in Edits
      BY <3>3, ChangedEdits
    <3> QED BY <3>2, <3>4 DEF OverlayTypeOK
  <2>2. CASE ~Edit(p)
    BY <2>2 DEF Reset, Reload, Preview, Previewed, Cancel, OverlayTypeOK
  <2> QED BY <2>1, <2>2
<1> QED BY <1>1, <1>2, <1>3, <1>4, <1>5 DEF OverlayTypeOK

LEMMA ApplyType ==
  ASSUME OverlayTypeOK, NEW p \in Page, Apply(p)
  PROVE  OverlayTypeOK'
<1>1. UNCHANGED <<overlay, snapshot, pending, diff, copy>>
  BY DEF Apply
<1>2. /\ phase' \in [Page -> {"editing", "previewing", "reviewing", "applying"}]
      /\ server' \in [Page -> {"idle", "received", "merging", "applied", "refused"}]
  BY DEF Apply, OverlayTypeOK
<1>3. request' \in [Page -> [expected_revision : 0..MaxRevision, changes : Edits]]
  BY DEF Apply, OverlayTypeOK, Document
<1>4. Merging' \subseteq Merging
  BY DEF Apply, OverlayTypeOK, Merging
<1> QED BY <1>1, <1>2, <1>3, <1>4, FewerMerging DEF OverlayTypeOK, Merging

LEMMA AppliedType ==
  ASSUME OverlayTypeOK, NEW p \in Page, Applied(p)
  PROVE  OverlayTypeOK'
<1> USE EmptyTypes
<1>1. overlay' = overlay
  BY DEF Applied
<1>2. {snapshot', copy'} \subseteq [Page -> Document]
  BY DEF Applied, Ends, OverlayTypeOK
<1>3. {pending', diff'} \subseteq [Page -> Edits]
  BY DEF Applied, Closes, OverlayTypeOK
<1>4. /\ phase' \in [Page -> {"editing", "previewing", "reviewing", "applying"}]
      /\ server' \in [Page -> {"idle", "received", "merging", "applied", "refused"}]
      /\ request' \in [Page -> [expected_revision : 0..MaxRevision, changes : Edits]]
  BY DEF Applied, Closes, Ends, OverlayTypeOK
<1>5. Merging' \subseteq Merging
  BY DEF Applied, Ends, OverlayTypeOK, Merging
<1> QED BY <1>1, <1>2, <1>3, <1>4, <1>5, FewerMerging DEF OverlayTypeOK, Merging

LEMMA ReadType ==
  ASSUME OverlayTypeOK, NEW p \in Page, Read(p)
  PROVE  OverlayTypeOK'
<1>1. UNCHANGED <<overlay, snapshot, pending, phase, diff, request>>
  BY DEF Read, page
<1>2. /\ copy' \in [Page -> Document]
      /\ server' \in [Page -> {"idle", "received", "merging", "applied", "refused"}]
  BY DEF Read, OverlayTypeOK
<1>3. Cardinality(Merging') <= MaxBusy
  <2>1. Merging' \subseteq Merging \cup {p}
    BY DEF Read, OverlayTypeOK, Merging
  <2>2. Cardinality(Merging) < MaxBusy
    BY DEF Read, Merging
  <2>3. /\ IsFiniteSet(Merging \cup {p})
        /\ Cardinality(Merging \cup {p}) \in Nat
        /\ Cardinality(Merging \cup {p}) <= MaxBusy
    <3>1. /\ IsFiniteSet(Merging \cup {p})
          /\ Cardinality(Merging \cup {p}) =
               IF p \in Merging THEN Cardinality(Merging) ELSE Cardinality(Merging) + 1
      BY MergingFinite, FS_AddElement, Zenon
    <3>2. MaxBusy \in Nat
      BY SettingsOverlayAssumption
    <3> QED BY <2>2, <3>1, <3>2, MergingFinite
  <2>4. Cardinality(Merging') <= Cardinality(Merging \cup {p}) /\ IsFiniteSet(Merging')
    BY <2>1, <2>3, FS_Subset
  <2>5. Cardinality(Merging') \in Nat
    BY <2>4, FS_CardinalityType
  <2> QED BY <2>3, <2>4, <2>5, SettingsOverlayAssumption
<1> QED BY <1>1, <1>2, <1>3 DEF OverlayTypeOK, Merging

LEMMA ReplaceType ==
  ASSUME OverlayTypeOK, NEW p \in Page, Replace(p)
  PROVE  OverlayTypeOK'
<1>1. UNCHANGED <<snapshot, pending, phase, diff, request>>
  BY DEF Replace, page
<1>2. NewVersion(p) \in Document
  <2>1. copy[p] \in Document /\ request[p].changes \in Edits
    BY DEF OverlayTypeOK
  <2>2. copy[p].revision + 1 \in 0..MaxRevision
    BY <2>1, SettingsOverlayAssumption DEF Replace, Document
  <2>3. Merged(copy[p].values, request[p].changes) \in [Setting -> Value \cup {Unset}]
    BY <2>1, MergedType DEF Document
  <2> QED BY <2>2, <2>3 DEF NewVersion, Document
<1>3. /\ overlay' \in Document /\ copy' \in [Page -> Document]
      /\ server' \in [Page -> {"idle", "received", "merging", "applied", "refused"}]
  BY <1>2 DEF Replace, OverlayTypeOK
<1>4. Merging' \subseteq Merging
  BY DEF Replace, OverlayTypeOK, Merging
<1> QED BY <1>1, <1>3, <1>4, FewerMerging DEF OverlayTypeOK, Merging

LEMMA InterruptType ==
  ASSUME OverlayTypeOK, Interrupt
  PROVE  OverlayTypeOK'
<1> USE EmptyTypes
<1>1. UNCHANGED <<overlay, snapshot, pending>>
  BY DEF Interrupt
<1>2. /\ copy' \in [Page -> Document] /\ diff' \in [Page -> Edits]
      /\ request' \in [Page -> [expected_revision : 0..MaxRevision, changes : Edits]]
  BY DEF Interrupt, Interrupted, OverlayTypeOK
<1>3. /\ phase' \in [Page -> {"editing", "previewing", "reviewing", "applying"}]
      /\ server' \in [Page -> {"idle", "received", "merging", "applied", "refused"}]
  BY DEF Interrupt, Interrupted, OverlayTypeOK
<1>4. Merging' \subseteq Merging
  BY DEF Interrupt, Interrupted, Merging
<1> QED BY <1>1, <1>2, <1>3, <1>4, FewerMerging DEF OverlayTypeOK, Merging

LEMMA BrowseType ==
  ASSUME TypeOK, NEW p \in Page, Browse(p)
  PROVE  TypeOK'
<1>1. OverlayTypeOK'
  BY PageType, ApplyType, AppliedType, ReadType, ReplaceType DEF Browse, Serve, TypeOK
<1> QED BY <1>1 DEF Browse, boot, TypeOK

LEMMA CreatedType ==
  ASSUME NEW e \in Environment
  PROVE  Created(e) \in Profile
<1>1. /\ "loopback" \in Value /\ "other" \in Value
      /\ "true" \in Value /\ "false" \in Value
  BY ConfigurationAssumption DEF Value
<1>2. \A s \in Setting : e[s] = Unset \/ e[s] \in Value
  BY DEF Environment
<1> QED BY <1>1, <1>2, ConfigurationAssumption DEF Created, Or, InferLocal, Profile

LEMMA MigratedType ==
  ASSUME NEW p \in Profile
  PROVE  Migrated(p) \in Profile
<1>1. "loopback" \in Value
  BY ConfigurationAssumption DEF Value
<1> QED BY <1>1 DEF Migrated, Profile

LEMMA LayeredType ==
  ASSUME OverlayTypeOK, NEW p \in Profile
  PROVE  Layered(p) \in Profile
<1>1. [s \in Setting |-> Or(overlay.values[s], p[s])] \in Profile
  BY DEF OverlayTypeOK, Document, Profile, Or
<1> QED BY <1>1, MigratedType DEF Layered

LEMMA UseType ==
  ASSUME TypeOK, NEW p \in Profile, Use(p) \/ Down("failed")
  PROVE  /\ kittd' \in {"failed", "voice"}
         /\ used' \in Profile \cup {Absent}
         /\ mode' \in {"off", "transcript_prefix"}
BY LayeredType DEF Use, Down, TypeOK

LEMMA LoadModelsType ==
  ASSUME TypeOK, LoadModels
  PROVE  TypeOK'
<1>1. UNCHANGED <<config, overlayVars, interruptions>>
  BY DEF LoadModels
<1>2. OverlayTypeOK'
  BY <1>1 DEF TypeOK, OverlayTypeOK, overlayVars, page, put
<1>3. models' \in Profile \cup {Absent, Torn}
  BY CreatedType, MigratedType DEF LoadModels, TypeOK
<1>4. environment' \in Environment
  BY DEF LoadModels, TypeOK, SaysNothing, Environment
<1>5. PICK p \in Profile : Use(p) \/ Down("failed")
  <2>1. CASE models = Torn
    <3>1. Down("failed")
      BY <2>1, ConfigurationAssumption DEF LoadModels, Profile
    <3>2. Created(environment) \in Profile
      BY CreatedType DEF TypeOK
    <3> QED BY <3>1, <3>2
  <2>2. CASE models = Absent
    BY <2>2, CreatedType, ConfigurationAssumption DEF LoadModels, TypeOK, Profile
  <2>3. CASE models \in Profile
    BY <2>3, MigratedType, ConfigurationAssumption DEF LoadModels, Profile
  <2> QED BY <2>1, <2>2, <2>3 DEF LoadModels
<1> QED BY <1>1, <1>2, <1>3, <1>4, <1>5, UseType DEF TypeOK

LEMMA InterruptionType ==
  ASSUME TypeOK, Interrupt
  PROVE  /\ OverlayTypeOK'
         /\ config' \in {"absent", "torn", "whole"}
         /\ models' \in Profile \cup {Absent, Torn}
         /\ interruptions' \in 0..MaxInterruptions
<1>1. OverlayTypeOK'
  BY InterruptType DEF TypeOK
<1>2. interruptions' \in 0..MaxInterruptions
  BY ConfigurationAssumption DEF Interrupt, TypeOK
<1> QED BY <1>1, <1>2 DEF Interrupt, TypeOK

LEMMA TypeStep ==
  ASSUME TypeOK, [Next]_vars
  PROVE  TypeOK'
<1>1. ASSUME NEW p \in Page, Browse(p)
      PROVE  TypeOK'
  BY <1>1, BrowseType
<1>2. ASSUME UNCHANGED overlayVars
      PROVE  OverlayTypeOK'
  BY <1>2 DEF TypeOK, OverlayTypeOK, overlayVars, page, put
<1>3. CASE LoadConfig
  BY <1>2, <1>3 DEF LoadConfig, Down, TypeOK
<1>4. CASE LoadModels
  BY <1>4, LoadModelsType
<1>5. CASE StartVoice
  BY <1>2, <1>5 DEF StartVoice, TypeOK
<1>6. CASE StartService
  BY <1>2, <1>6 DEF StartService, TypeOK
<1>7. CASE Crash \/ StopService \/ RestartService
  <2>1. Interrupt /\ \E how \in {"failed", "stopped", "config"} : Down(how)
    BY <1>7 DEF Crash, StopService, RestartService
  <2>2. UNCHANGED environment
    BY <2>1 DEF Interrupt
  <2> QED BY <2>1, <2>2, InterruptionType DEF Down, TypeOK
<1>8. CASE UNCHANGED vars
  BY <1>2, <1>8 DEF vars, boot, TypeOK
<1> QED BY <1>1, <1>3, <1>4, <1>5, <1>6, <1>7, <1>8 DEF Next, Boot

LEMMA TypeInit == Init => TypeOK
<1> SUFFICES ASSUME Init
             PROVE  TypeOK
  OBVIOUS
<1>1. Merging = {}
  BY DEF Init, OverlayInit, Merging
<1>2. Cardinality(Merging) <= MaxBusy
  BY <1>1, FS_EmptySet, SettingsOverlayAssumption
<1>3. OverlayTypeOK
  BY <1>2, EmptyTypes DEF Init, OverlayInit, OverlayTypeOK, Merging
<1>4. environment \in Environment
  BY ConfigurationAssumption DEF Init, SaysNothing, Environment
<1> QED BY <1>3, <1>4, ConfigurationAssumption DEF Init, TypeOK, Profile

(* Every reachable state of kittd's files, of kittd and of the pages is    *)
(* well typed; no more than MaxBusy requests are served at once.           *)
THEOREM TypeCorrect == Spec => []TypeOK
<1>1. TypeOK /\ [Next]_vars => TypeOK'
  BY TypeStep
<1> QED BY <1>1, TypeInit, PTL DEF Spec

(***************************************************************************)
(* Revisions, for saves one at a time (MaxBusy = 1).                       *)
(***************************************************************************)

Agree(d, e) == d.revision = e.revision => d.values = e.values

(* The versions that pages, the file, and answers on their way know        *)
Known ==
  {snapshot[p] : p \in Page} \cup {overlay} \cup {copy[p] : p \in {q \in Page : server[q] = "applied"}}

KnownInv ==
  /\ \A d, e \in Known : Agree(d, e)
  /\ \A d \in Known : d.revision <= overlay.revision

(* A request that is going to be written is about the current version, and *)
(* about the one that its page waits with.                                 *)
RequestInv ==
  \A p \in Page :
    /\ server[p] \in {"received", "merging"} =>
         phase[p] = "applying" /\ request[p].expected_revision = snapshot[p].revision
    /\ server[p] = "merging" => copy[p] = overlay /\ request[p].expected_revision = overlay.revision
    /\ server[p] # "idle" => phase[p] = "applying"

RevisionInv == KnownInv /\ RequestInv

LEMMA OneMerging ==
  ASSUME OverlayTypeOK, MaxBusy = 1, NEW p \in Merging, NEW q \in Merging
  PROVE  p = q
<1> SUFFICES ASSUME p # q
             PROVE  FALSE
  OBVIOUS
<1>1. Cardinality({p}) = 1 /\ IsFiniteSet({p})
  BY FS_Singleton
<1>2. Cardinality({p} \cup {q}) = 2
  BY <1>1, FS_AddElement
<1>3. Cardinality({p} \cup {q}) <= Cardinality(Merging)
  BY MergingFinite, FS_Subset
<1>4. Cardinality(Merging) <= 1
  BY DEF OverlayTypeOK, Merging
<1> QED BY <1>2, <1>3, <1>4, MergingFinite

LEMMA SameDocument ==
  ASSUME NEW d \in Document, NEW e \in Document,
         d.revision = e.revision, d.values = e.values
  PROVE  d = e
BY DEF Document

(* Nothing new is known unless the file is replaced.                       *)
LEMMA KnownKept ==
  ASSUME KnownInv, Known' \subseteq Known, UNCHANGED overlay
  PROVE  KnownInv'
BY DEF KnownInv, Agree

LEMMA PageRevision ==
  ASSUME OverlayTypeOK, RevisionInv, NEW p \in Page,
         Edit(p) \/ Reset(p) \/ Reload(p) \/ Preview(p) \/ Previewed(p) \/ Cancel(p)
  PROVE  RevisionInv'
<1>1. UNCHANGED <<overlay, request, server, copy>>
  BY DEF Edit, Reset, Reload, Preview, Previewed, Cancel, put
<1>2. snapshot' = snapshot \/ (Reload(p) /\ snapshot' = [snapshot EXCEPT ![p] = overlay])
  BY DEF Edit, Reset, Reload, Preview, Previewed, Cancel
<1>3. \A q \in Page : snapshot'[q] \in {snapshot[q], overlay}
  BY <1>2 DEF OverlayTypeOK
<1>4. Known' \subseteq Known
  BY <1>1, <1>3 DEF Known
<1>5. \A q \in Page : phase[q] = "applying" => snapshot'[q] = snapshot[q] /\ phase'[q] = "applying"
  BY <1>2 DEF Edit, Reset, Reload, Preview, Previewed, Cancel, Closes, OverlayTypeOK
<1>6. RequestInv'
  BY <1>1, <1>5 DEF RevisionInv, RequestInv
<1> QED BY <1>1, <1>4, <1>6, KnownKept DEF RevisionInv

LEMMA ApplyRevision ==
  ASSUME OverlayTypeOK, RevisionInv, NEW p \in Page, Apply(p)
  PROVE  RevisionInv'
<1>1. UNCHANGED <<overlay, snapshot, copy>>
  BY DEF Apply
<1>2. \A q \in Page \ {p} : phase'[q] = phase[q] /\ request'[q] = request[q] /\ server'[q] = server[q]
  BY DEF Apply, OverlayTypeOK
<1>3. /\ phase'[p] = "applying" /\ server'[p] = "received"
      /\ request'[p].expected_revision = snapshot[p].revision
  BY DEF Apply, OverlayTypeOK
<1>4. Known' \subseteq Known
  BY <1>1, <1>2, <1>3 DEF Known
<1>5. RequestInv'
  BY <1>1, <1>2, <1>3 DEF RevisionInv, RequestInv
<1> QED BY <1>1, <1>4, <1>5, KnownKept DEF RevisionInv

LEMMA AppliedRevision ==
  ASSUME OverlayTypeOK, RevisionInv, NEW p \in Page, Applied(p)
  PROVE  RevisionInv'
<1>1. overlay' = overlay
  BY DEF Applied
<1>2. \A q \in Page \ {p} : /\ phase'[q] = phase[q] /\ request'[q] = request[q]
                            /\ server'[q] = server[q] /\ copy'[q] = copy[q]
                            /\ snapshot'[q] = snapshot[q]
  BY DEF Applied, Closes, Ends, OverlayTypeOK
<1>3. server'[p] = "idle"
  BY DEF Applied, Ends, OverlayTypeOK
<1>4. snapshot'[p] \in Known
  BY DEF Applied, OverlayTypeOK, Known
<1>5. Known' \subseteq Known
  BY <1>1, <1>2, <1>3, <1>4 DEF Known
<1>6. RequestInv'
  BY <1>1, <1>2, <1>3 DEF RevisionInv, RequestInv
<1> QED BY <1>1, <1>5, <1>6, KnownKept DEF RevisionInv

LEMMA ReadRevision ==
  ASSUME OverlayTypeOK, RevisionInv, NEW p \in Page, Read(p)
  PROVE  RevisionInv'
<1>1. UNCHANGED <<overlay, snapshot, phase, request>>
  BY DEF Read, page
<1>2. \A q \in Page \ {p} : server'[q] = server[q] /\ copy'[q] = copy[q]
  BY DEF Read, OverlayTypeOK
<1>3. /\ server[p] = "received" /\ copy'[p] = overlay
      /\ server'[p] \in {"merging", "refused"}
      /\ server'[p] = "merging" => request[p].expected_revision = overlay.revision
  BY DEF Read, OverlayTypeOK
<1>4. Known' \subseteq Known
  BY <1>1, <1>2, <1>3 DEF Known
<1>5. RequestInv'
  BY <1>1, <1>2, <1>3 DEF RevisionInv, RequestInv
<1> QED BY <1>1, <1>4, <1>5, KnownKept DEF RevisionInv

(* The file is replaced by what has the next revision.                     *)
LEMMA KnownNewer ==
  ASSUME OverlayTypeOK, KnownInv, Known' \subseteq Known \cup {overlay'},
         overlay'.revision = overlay.revision + 1
  PROVE  KnownInv'
<1>1. /\ overlay.revision \in Nat /\ \A d \in Known : d.revision \in Nat
  BY SettingsOverlayAssumption DEF Known, OverlayTypeOK, Document
<1>2. \A d \in Known : d.revision < overlay'.revision
  BY <1>1 DEF KnownInv
<1>3. \A d \in Known' : d.revision <= overlay'.revision
  BY <1>1, <1>2
<1>4. \A d, e \in Known' : Agree(d, e)
  <2>1. TAKE d, e \in Known'
  <2>2. CASE d \in Known /\ e \in Known
    BY <2>2 DEF KnownInv
  <2>3. CASE d = overlay' /\ e = overlay'
    BY <2>3 DEF Agree
  <2>4. CASE d \in Known /\ e = overlay'
    BY <1>1, <1>2, <2>4 DEF Agree
  <2>5. CASE d = overlay' /\ e \in Known
    BY <1>1, <1>2, <2>5 DEF Agree
  <2> QED BY <2>2, <2>3, <2>4, <2>5
<1> QED BY <1>3, <1>4 DEF KnownInv, Agree

LEMMA ReplaceRevision ==
  ASSUME OverlayTypeOK, MaxBusy = 1, RevisionInv, NEW p \in Page, Replace(p)
  PROVE  RevisionInv'
<1>1. UNCHANGED <<snapshot, phase, request>>
  BY DEF Replace, page
<1>2. \A q \in Page \ {p} : /\ server'[q] = server[q] /\ copy'[q] = copy[q]
                            /\ server[q] # "merging"
  BY OneMerging DEF Replace, OverlayTypeOK, Merging
<1>3. /\ server[p] = "merging" /\ server'[p] \in {"applied", "refused"}
      /\ server'[p] = "applied" => overlay' = NewVersion(p) /\ copy'[p] = overlay'
      /\ overlay' \in {overlay, NewVersion(p)}
  BY DEF Replace, OverlayTypeOK
<1>4. RequestInv'
  BY <1>1, <1>2, <1>3 DEF RevisionInv, RequestInv
<1>5. Known' \subseteq Known \cup {overlay'}
  BY <1>1, <1>2, <1>3 DEF Known
<1>6. NewVersion(p).revision = overlay.revision + 1
  BY <1>3 DEF NewVersion, RevisionInv, RequestInv
<1>7. CASE overlay' = overlay
  <2>1. Known' \subseteq Known
    BY <1>5, <1>7 DEF Known
  <2> QED BY <1>4, <1>7, <2>1, KnownKept DEF RevisionInv
<1>8. CASE overlay' = NewVersion(p)
  BY <1>4, <1>5, <1>6, <1>8, KnownNewer DEF RevisionInv
<1> QED BY <1>3, <1>7, <1>8

LEMMA InterruptRevision ==
  ASSUME OverlayTypeOK, RevisionInv, Interrupt
  PROVE  RevisionInv'
<1>1. UNCHANGED <<overlay, snapshot>>
  BY DEF Interrupt
<1>2. \A q \in Page : server'[q] \in {"idle", "refused"} /\ (server[q] = "idle" => server'[q] = "idle")
  BY DEF Interrupt, Interrupted
<1>3. \A q \in Page : phase[q] = "applying" => phase'[q] = "applying"
  BY DEF Interrupt, Interrupted
<1>4. Known' \subseteq Known
  BY <1>1, <1>2 DEF Known
<1>5. RequestInv'
  BY <1>2, <1>3 DEF RevisionInv, RequestInv
<1> QED BY <1>1, <1>4, <1>5, KnownKept DEF RevisionInv

LEMMA RevisionStep ==
  ASSUME TypeOK, MaxBusy = 1, RevisionInv, [Next]_vars
  PROVE  RevisionInv'
<1>1. OverlayTypeOK
  BY DEF TypeOK
<1>2. ASSUME NEW p \in Page, Browse(p)
      PROVE  RevisionInv'
  BY <1>1, <1>2, PageRevision, ApplyRevision, AppliedRevision, ReadRevision, ReplaceRevision
  DEF Browse, Serve
<1>3. ASSUME UNCHANGED overlayVars
      PROVE  RevisionInv'
  BY <1>3 DEF RevisionInv, KnownInv, Known, RequestInv, Agree, overlayVars, page, put
<1>4. CASE LoadConfig \/ LoadModels \/ StartVoice \/ StartService
  BY <1>3, <1>4 DEF LoadConfig, LoadModels, StartVoice, StartService
<1>5. CASE Crash \/ StopService \/ RestartService
  BY <1>1, <1>5, InterruptRevision DEF Crash, StopService, RestartService
<1>6. CASE UNCHANGED vars
  BY <1>3, <1>6 DEF vars
<1> QED BY <1>2, <1>4, <1>5, <1>6 DEF Next, Boot

LEMMA RevisionAlways ==
  ASSUME MaxBusy = 1
  PROVE  Spec => []RevisionInv
<1>1. Init => RevisionInv
  BY DEF Init, OverlayInit, RevisionInv, KnownInv, Known, RequestInv, Agree, NoDocument
<1>2. TypeOK /\ RevisionInv /\ [Next]_vars => RevisionInv'
  BY RevisionStep
<1> QED BY <1>1, <1>2, TypeCorrect, PTL DEF Spec

(* README.md, "revisioned atomic configuration overlays": with saves one   *)
(* at a time a revision names one content, for pages, the file and answers *)
(* on their way, through failed writes and restarts of kittd.              *)
THEOREM Revisions ==
  ASSUME MaxBusy = 1
  PROVE  Spec => []RevisionNamesContent
<1>1. RevisionInv => RevisionNamesContent
  BY DEF RevisionInv, KnownInv, Known, Agree, RevisionNamesContent
<1> QED BY <1>1, RevisionAlways, PTL

(* With saves one at a time a page that saves has seen what its save       *)
(* replaces.                                                               *)
THEOREM Seen ==
  ASSUME MaxBusy = 1
  PROVE  Spec => SeenBeforeWrite
<1>1. ASSUME TypeOK, RevisionInv, NEW p \in Page, overlay' # overlay, Replace(p)
      PROVE  snapshot[p] = overlay
  <2>1. server[p] = "merging"
    BY <1>1 DEF Replace
  <2>2. snapshot[p].revision = overlay.revision
    BY <1>1, <2>1 DEF RevisionInv, RequestInv
  <2>3. snapshot[p].values = overlay.values
    BY <1>1, <2>2 DEF RevisionInv, KnownInv, Known, Agree
  <2>4. snapshot[p] \in Document /\ overlay \in Document
    BY <1>1 DEF TypeOK, OverlayTypeOK
  <2> QED BY <2>2, <2>3, <2>4, SameDocument
<1>2. TypeOK /\ RevisionInv =>
        [\A p \in Page : overlay' # overlay /\ Replace(p) => snapshot[p] = overlay]_overlayVars
  BY <1>1
<1> QED BY <1>2, TypeCorrect, RevisionAlways, PTL DEF SeenBeforeWrite

(***************************************************************************)
(* Edits, for a page that is left alone while a save is on its way         *)
(* (BusyEdits = FALSE), for any number of saves at once.                   *)
(***************************************************************************)

(* A save has the edits of its page until it fails, and what it has written*)
(* has them.                                                               *)
SaveInv(p) ==
  /\ server[p] # "idle" => phase[p] = "applying"
  /\ server[p] \in {"received", "merging", "applied"} => request[p].changes = pending[p]
  /\ server[p] = "applied" => \A s \in DOMAIN pending[p] : copy[p].values[s] = pending[p][s]

EditsInv == \A p \in Page : SaveInv(p)

(* A step that leaves a page and its save alone                            *)
Untouched(p) ==
  /\ phase'[p] = phase[p] /\ server'[p] = server[p] /\ request'[p] = request[p]
  /\ pending'[p] = pending[p] /\ copy'[p] = copy[p]

LEMMA EditsUntouched ==
  ASSUME EditsInv, NEW p \in Page, Untouched(p)
  PROVE  SaveInv(p)'
BY DEF EditsInv, SaveInv, Untouched

LEMMA PageEdits ==
  ASSUME OverlayTypeOK, BusyEdits = FALSE, EditsInv, NEW p \in Page,
         Edit(p) \/ Reset(p) \/ Reload(p) \/ Preview(p) \/ Previewed(p) \/ Cancel(p)
  PROVE  EditsInv'
<1>1. \A q \in Page \ {p} : Untouched(q)
  BY DEF Edit, Reset, Reload, Preview, Previewed, Cancel, Closes, put, OverlayTypeOK, Untouched
<1>2. phase[p] # "applying" /\ UNCHANGED server
  BY DEF Edit, Reset, Reload, Preview, Previewed, Cancel, put
<1>3. SaveInv(p)'
  BY <1>2 DEF EditsInv, SaveInv
<1> QED BY <1>1, <1>3, EditsUntouched DEF EditsInv

LEMMA SaveEdits ==
  ASSUME OverlayTypeOK, EditsInv, NEW p \in Page,
         Apply(p) \/ Applied(p) \/ Read(p) \/ Replace(p)
  PROVE  EditsInv'
<1>1. \A q \in Page \ {p} : Untouched(q)
  BY DEF Apply, Applied, Read, Replace, Closes, Ends, page, OverlayTypeOK, Untouched
<1>2. SaveInv(p)'
  <2>1. CASE Apply(p)
    BY <2>1 DEF Apply, OverlayTypeOK, SaveInv
  <2>2. CASE Applied(p)
    BY <2>2 DEF Applied, Ends, OverlayTypeOK, SaveInv
  <2>3. CASE Read(p)
    BY <2>3 DEF Read, page, OverlayTypeOK, EditsInv, SaveInv
  <2>4. CASE Replace(p)
    <3>1. /\ phase'[p] = phase[p] /\ request'[p] = request[p] /\ pending'[p] = pending[p]
          /\ server'[p] \in {"applied", "refused"} /\ server[p] = "merging"
          /\ server'[p] = "applied" => copy'[p] = NewVersion(p)
      BY <2>4 DEF Replace, page, OverlayTypeOK
    <3>2. request[p].changes = pending[p] /\ phase[p] = "applying" /\ pending[p] \in Edits
      BY <3>1 DEF EditsInv, SaveInv, OverlayTypeOK
    <3>3. \A s \in DOMAIN pending[p] : NewVersion(p).values[s] = pending[p][s]
      BY <3>2, EditsDomain DEF NewVersion, Merged
    <3> QED BY <3>1, <3>2, <3>3 DEF SaveInv
  <2> QED BY <2>1, <2>2, <2>3, <2>4
<1> QED BY <1>1, <1>2, EditsUntouched DEF EditsInv

LEMMA EditsStep ==
  ASSUME TypeOK, BusyEdits = FALSE, EditsInv, [Next]_vars
  PROVE  EditsInv'
<1>1. ASSUME NEW p \in Page, Browse(p)
      PROVE  EditsInv'
  BY <1>1, PageEdits, SaveEdits DEF Browse, Serve, TypeOK
<1>2. ASSUME UNCHANGED overlayVars
      PROVE  EditsInv'
  BY <1>2 DEF EditsInv, SaveInv, overlayVars, page, put
<1>3. CASE LoadConfig \/ LoadModels \/ StartVoice \/ StartService
  BY <1>2, <1>3 DEF LoadConfig, LoadModels, StartVoice, StartService
<1>4. CASE Crash \/ StopService \/ RestartService
  <2>1. Interrupt
    BY <1>4 DEF Crash, StopService, RestartService
  <2>2. \A q \in Page : /\ server'[q] \in {"idle", "refused"}
                        /\ server[q] = "idle" => server'[q] = "idle"
                        /\ phase[q] = "applying" => phase'[q] = "applying"
    BY <2>1 DEF Interrupt, Interrupted
  <2> QED BY <2>2 DEF EditsInv, SaveInv
<1>5. CASE UNCHANGED vars
  BY <1>2, <1>5 DEF vars
<1> QED BY <1>1, <1>3, <1>4, <1>5 DEF Next, Boot

(* A page forgets an edit only when the overlay has it, however many pages *)
(* save at once, and whatever fails or restarts meanwhile.                 *)
THEOREM Kept ==
  ASSUME BusyEdits = FALSE
  PROVE  Spec => EditsKept
<1>1. Init => EditsInv
  BY DEF Init, OverlayInit, EditsInv, SaveInv
<1>2. TypeOK /\ EditsInv /\ [Next]_vars => EditsInv'
  BY EditsStep
<1>3. ASSUME TypeOK, EditsInv, NEW p \in Page, Applied(p),
             NEW s \in DOMAIN pending[p] \ DOMAIN pending'[p]
      PROVE  snapshot'[p].values[s] = pending[p][s]
  <2>1. server[p] = "applied" /\ snapshot'[p] = copy[p]
    BY <1>3 DEF Applied, TypeOK, OverlayTypeOK
  <2> QED BY <1>3, <2>1 DEF EditsInv, SaveInv
<1>4. TypeOK /\ EditsInv =>
        [\A p \in Page : Applied(p) =>
           \A s \in DOMAIN pending[p] \ DOMAIN pending'[p] :
             snapshot'[p].values[s] = pending[p][s]]_overlayVars
  BY <1>3
<1> QED BY <1>1, <1>2, <1>4, TypeCorrect, PTL DEF Spec, EditsKept

-----------------------------------------------------------------------------
(***************************************************************************)
(* The reverse proxy.                                                      *)
(***************************************************************************)

(* What holds of the threads and the types of the rest.                    *)
ProxyTypeInv == ProxyTypeOK /\ IsFiniteSet(Busy)

(* A thread with a process of its own.                                     *)
Launching(c) == pc[c] \in {"launched", "adopting"}

(* As long as requests come one by one: a process that runs with its input *)
(* open is the manager's or its starter's, and while a request starts or   *)
(* stops a proxy the manager has none.                                     *)
ProxyInv ==
  ~overlap =>
    /\ \A c, d \in Busy : c = d
    /\ \A p \in attended : Runs(p) =>
         p = manager.child \/ \E c \in Client : Launching(c) /\ held[c] = p
    /\ \A c \in Client : pc[c] \notin {"idle", "status", "start"} => manager.child = Nobody
    /\ manager.child # Nobody => manager.preset /\ manager.started

LEMMA ProxyTypeInit == ProxyInit => ProxyTypeInv
<1> SUFFICES ASSUME ProxyInit PROVE ProxyTypeInv
  OBVIOUS
<1>1. Busy = {}
  BY DEF ProxyInit, Busy
<1>2. IsFiniteSet(Busy) /\ Cardinality(Busy) = 0
  BY <1>1, FS_EmptySet
<1>3. /\ Cardinality(Busy) <= MaxServed /\ crashes \in 0..MaxCrashes
      /\ manager \in [child : Proxy \cup {Nobody}, preset : BOOLEAN, started : BOOLEAN]
  BY <1>2, ReverseProxyAssumption DEF ProxyInit, NoChild
<1> QED
  BY <1>2, <1>3 DEF ProxyInit, ProxyTypeInv, ProxyTypeOK

LEMMA ReapedType ==
  ASSUME ProxyTypeOK
  PROVE  /\ Reaped \in [child : Proxy \cup {Nobody}, preset : BOOLEAN, started : BOOLEAN]
         /\ Reaped.child \in {manager.child, Nobody}
BY DEF ProxyTypeOK, Reaped

LEMMA ProxyTypeStep == ProxyTypeInv /\ [ProxyNext]_proxyVars => ProxyTypeInv'
<1> SUFFICES ASSUME ProxyTypeInv, [ProxyNext]_proxyVars PROVE ProxyTypeInv'
  OBVIOUS
<1> USE ReverseProxyAssumption DEF ProxyTypeInv
<1> USE DEF processes, threads, Goto, Hold
(* No step but the beginning of a request makes a thread busy.             *)
<1>1. ASSUME Busy' \subseteq Busy
      PROVE  IsFiniteSet(Busy)' /\ Cardinality(Busy)' <= MaxServed
  <2>1. IsFiniteSet(Busy') /\ Cardinality(Busy') <= Cardinality(Busy)
    BY <1>1, FS_Subset
  <2>2. Cardinality(Busy) \in Nat /\ Cardinality(Busy') \in Nat
    BY <2>1, FS_CardinalityType
  <2> QED
    BY <2>1, <2>2 DEF ProxyTypeOK
<1>2. ASSUME NEW c \in Client, NEW place, Begin(c, place), place # "idle"
      PROVE  IsFiniteSet(Busy)' /\ Cardinality(Busy)' <= MaxServed
  <2>1. Busy' = Busy \cup {c} /\ c \notin Busy
    BY <1>2 DEF Begin, Busy, ProxyTypeOK
  <2>2. IsFiniteSet(Busy') /\ Cardinality(Busy') = Cardinality(Busy) + 1
    BY <2>1, FS_AddElement
  <2>3. Cardinality(Busy) \in Nat
    BY FS_CardinalityType
  <2> QED
    BY <1>2, <2>2, <2>3 DEF Begin
<1>3. ASSUME NEW c \in Client, Probe(c) PROVE ProxyTypeInv'
  BY <1>2, <1>3 DEF Probe, Begin, ProxyTypeOK, Answers
<1>4. ASSUME NEW c \in Client, Take(c) PROVE ProxyTypeInv'
  BY <1>2, <1>4 DEF Take, Begin, ProxyTypeOK
<1>5. ASSUME NEW c \in Client, Continue(c) PROVE Busy' \subseteq Busy
  BY <1>5 DEF Continue, Check, Spawn, Watch, Adopt, AwaitExit, Forget, Busy, ProxyTypeOK
<1>6. ASSUME NEW c \in Client, Check(c) PROVE ProxyTypeOK'
  BY <1>1, <1>5, <1>6, ReapedType DEF Check, ProxyTypeOK, Continue
<1>7. ASSUME NEW c \in Client, Spawn(c) PROVE ProxyTypeOK'
  BY <1>1, <1>5, <1>7 DEF Spawn, ProxyTypeOK, Continue
<1>8. ASSUME NEW c \in Client, Watch(c) PROVE ProxyTypeOK'
  BY <1>1, <1>5, <1>8 DEF Watch, ProxyTypeOK, Continue
<1>9. ASSUME NEW c \in Client, Adopt(c) \/ AwaitExit(c) \/ Forget(c) PROVE ProxyTypeOK'
  <2>1. CASE Adopt(c)
    BY <1>1, <1>5, <2>1 DEF Adopt, ProxyTypeOK, Continue
  <2>2. CASE AwaitExit(c)
    BY <1>1, <1>5, <2>2 DEF AwaitExit, ProxyTypeOK, Continue
  <2>3. CASE Forget(c)
    BY <1>1, <1>5, <2>3 DEF Forget, ProxyTypeOK, Continue
  <2> QED
    BY <1>9, <2>1, <2>2, <2>3
<1>10. ASSUME NEW p \in Proxy, Listen(p) \/ Exit(p) PROVE ProxyTypeInv'
  BY <1>10, <1>1 DEF Listen, Exit, ProxyTypeOK, Busy
<1>11. CASE Foreign
  BY <1>11, <1>1 DEF Foreign, ProxyTypeOK, Busy
<1>12. CASE KittdEnds
  BY <1>12, <1>1 DEF KittdEnds, NoChild, ProxyTypeOK, Busy
<1>13. CASE UNCHANGED proxyVars
  BY <1>13, <1>1 DEF proxyVars, ProxyTypeOK, Busy
<1> QED
  BY <1>1, <1>3, <1>4, <1>5, <1>6, <1>7, <1>8, <1>9, <1>10, <1>11, <1>12, <1>13
     DEF ProxyNext, Continue

LEMMA ProxyInvInit == ProxyInit => ProxyInv
BY ReverseProxyAssumption DEF ProxyInit, ProxyInv, Busy, NoChild, Launching

LEMMA ProxyInvStep ==
  ASSUME ProxyTypeOK, ProxyInv, [ProxyNext]_proxyVars
  PROVE  ProxyInv'
<1> USE ReverseProxyAssumption DEF ProxyTypeOK, ProxyInv, processes, threads, Busy, Runs, Launching
<1>1. ASSUME NEW c \in Client, Probe(c) PROVE ProxyInv'
  <2>1. ASSUME ~overlap'
        PROVE  /\ ~overlap /\ \A d \in Client : pc[d] = "idle" /\ (d # c => pc'[d] = "idle")
               /\ pc'[c] \in {"status", "start"}
               /\ UNCHANGED <<proxy, attended, manager, held>>
    BY <1>1, <2>1 DEF Probe, Begin
  <2> QED
    BY <2>1
<1>2. ASSUME NEW c \in Client, Check(c) PROVE ProxyInv'
  BY <1>2 DEF Check, Reaped, Goto
<1>3. ASSUME NEW c \in Client, Spawn(c) PROVE ProxyInv'
  BY <1>3 DEF Spawn, Goto, Hold
<1>4. ASSUME NEW c \in Client, Watch(c) PROVE ProxyInv'
  BY <1>4 DEF Watch, Goto, Hold
<1>5. ASSUME NEW c \in Client, Adopt(c) PROVE ProxyInv'
  BY <1>5 DEF Adopt, Goto, Hold
<1>6. ASSUME NEW c \in Client, Take(c) PROVE ProxyInv'
  BY <1>6 DEF Take, Begin, Hold
<1>7. ASSUME NEW c \in Client, AwaitExit(c) PROVE ProxyInv'
  BY <1>7 DEF AwaitExit, Goto
<1>10. ASSUME NEW c \in Client, Forget(c) PROVE ProxyInv'
  BY <1>10 DEF Forget, Goto, Hold
<1>8. ASSUME NEW p \in Proxy, Listen(p) \/ Exit(p) PROVE ProxyInv'
  BY <1>8 DEF Listen, Exit
<1>9. CASE Foreign \/ KittdEnds \/ UNCHANGED proxyVars
  BY <1>9 DEF Foreign, KittdEnds, NoChild, proxyVars
<1> QED
  BY <1>1, <1>2, <1>3, <1>4, <1>5, <1>6, <1>7, <1>8, <1>9, <1>10 DEF ProxyNext, Continue

(* The variables of the reverse proxy's manager have their types, and no   *)
(* more than MaxServed requests are served at once: ProxyTypeOK.           *)
THEOREM ProxyTypes == ProxySpec => []ProxyTypeOK
<1>1. ProxySpec => []ProxyTypeInv
  BY ProxyTypeInit, ProxyTypeStep, PTL DEF ProxySpec
<1>2. ProxyTypeInv => ProxyTypeOK
  BY DEF ProxyTypeInv
<1> QED
  BY <1>1, <1>2, PTL

LEMMA ProxyReachable == ProxySpec => []ProxyInv
<1>1. ProxyInv /\ ProxyTypeOK /\ [ProxyNext]_proxyVars => ProxyInv'
  BY ProxyInvStep
<1> QED
  BY <1>1, ProxyInvInit, ProxyTypes, PTL DEF ProxySpec

(* At most one proxy runs with its input open, as long as requests come one*)
(* by one: OneProxy of ReverseProxyManager.                                *)
THEOREM SingleProxy == ProxySpec => []OneProxy
<1>1. ASSUME ProxyInv, ProxyTypeOK, ~overlap
      PROVE  Cardinality({p \in attended : Runs(p)}) <= 1
  <2> DEFINE live == {p \in attended : Runs(p)}
  <2>1. ASSUME NEW p \in live, NEW q \in live PROVE p = q
    BY <1>1, <2>1, ReverseProxyAssumption DEF ProxyInv, ProxyTypeOK, Busy, Launching
  <2>2. CASE live = {}
    BY <2>2, FS_EmptySet
  <2>3. CASE live # {}
    <3>1. PICK p \in live : TRUE
      BY <2>3
    <3>2. live = {p}
      BY <2>1, <3>1
    <3> QED
      BY <3>2, FS_Singleton
  <2> QED
    BY <2>2, <2>3
<1>2. ProxyInv /\ ProxyTypeOK => OneProxy
  BY <1>1 DEF OneProxy
<1> QED
  BY <1>2, ProxyReachable, ProxyTypes, PTL

(* What clears the manager's preset and start does not clear those of a    *)
(* later start, as long as requests come one by one: ManagedIsNamed.       *)
THEOREM NamedProxy == ProxySpec => []ManagedIsNamed
<1>1. ProxyInv => ManagedIsNamed
  BY DEF ProxyInv, ManagedIsNamed
<1> QED
  BY <1>1, ProxyReachable, PTL
=============================================================================
