---------------------------- MODULE SettingsOverlay ----------------------------
(***************************************************************************)
(* The settings of the Control Center (apps/kittd/src/settings_web.rs, PUT *)
(* and POST of /api/v1/config and /validate) and the page that edits them  *)
(* (apps/kittd/control-center-web/app.js).                                 *)
(*                                                                         *)
(* A page keeps a snapshot of the overlay and the edits that the user has  *)
(* made to it.  The user has them validated, reviews the diff and confirms.*)
(* The service reads the overlay, compares its revision with the page's,   *)
(* merges the changes, raises the revision and replaces the file.  Each    *)
(* request has a thread, and nothing is locked between read and replace.   *)
(* The overlay holds what has been set; for the rest the page shows the    *)
(* default of the catalog, whatever kittd's own files say.                 *)
(***************************************************************************)
EXTENDS Naturals, FiniteSets

CONSTANTS
  Page, Setting,
  Catalog,     \* per setting, the values that catalog.json allows
  Default,     \* per setting, the default of catalog.json
  Unset,       \* a setting that the overlay does not name
  MaxRevision, \* bound: the revisions of the overlay
  MaxEdits,    \* bound: the settings that a page has unsaved edits of
  MaxBusy,     \* how many requests may be between read and replace (32)
  BusyEdits    \* whether the user edits while a request is on its way

ASSUME SettingsOverlayAssumption ==
  /\ \A s \in Setting : Default[s] \in Catalog[s] /\ Unset \notin Catalog[s]
  /\ BusyEdits \in BOOLEAN /\ IsFiniteSet(Page)
  /\ {MaxRevision, MaxEdits, MaxBusy} \subseteq Nat

VARIABLES
  overlay,  \* the file: its revision and values
  snapshot, \* per page, the overlay as the page knows it
  pending,  \* per page, the edits not saved yet
  phase,    \* per page, what it does
  diff,     \* per page, the changes sent to be validated, shown for review
  request,  \* per page, the change request of its PUT
  server,   \* per page, where the thread that serves its PUT is
  copy      \* per page, the overlay that thread has read or written

page == <<snapshot, pending, phase, diff>>
put == <<request, server, copy>>
overlayVars == <<overlay, page, put>>

Value == UNION {Catalog[s] : s \in Setting}
Document == [revision : 0..MaxRevision, values : [Setting -> Value \cup {Unset}]]
NoDocument == [revision |-> 0, values |-> [s \in Setting |-> Unset]]
Edits == UNION {[S -> Value] : S \in SUBSET Setting}
NoEdits == [s \in {} |-> Unset]
NoRequest == [expected_revision |-> 0, changes |-> NoEdits]

OverlayTypeOK ==
  /\ overlay \in Document
  /\ {snapshot, copy} \subseteq [Page -> Document]
  /\ {pending, diff} \subseteq [Page -> Edits]
  /\ request \in [Page -> [expected_revision : 0..MaxRevision, changes : Edits]]
  /\ phase \in [Page -> {"editing", "previewing", "reviewing", "applying"}]
  /\ server \in [Page -> {"idle", "received", "merging", "applied", "refused"}]
  /\ Cardinality({p \in Page : server[p] = "merging"}) <= MaxBusy

OverlayInit ==
  /\ overlay = NoDocument
  /\ snapshot = [p \in Page |-> NoDocument] /\ copy = snapshot
  /\ pending = [p \in Page |-> NoEdits] /\ diff = pending
  /\ phase = [p \in Page |-> "editing"]
  /\ request = [p \in Page |-> NoRequest]
  /\ server = [p \in Page |-> "idle"]

Merged(values, changes) ==
  [s \in Setting |-> IF s \in DOMAIN changes THEN changes[s] ELSE values[s]]

-----------------------------------------------------------------------------
(* The page.                                                               *)

Shown(p, s) == IF snapshot[p].values[s] = Unset THEN Default[s] ELSE snapshot[p].values[s]

(* An edit back to the value shown at first is none.                       *)
Edit(p) ==
  /\ phase[p] \in {"editing"} \cup IF BusyEdits THEN {"previewing", "applying"} ELSE {}
  /\ \E s \in Setting : \E v \in Catalog[s] :
       LET others == DOMAIN pending[p] \ {s}
           edited == IF v = Shown(p, s) THEN others ELSE others \cup {s}
       IN  /\ Cardinality(edited) <= MaxEdits
           /\ pending' = [pending EXCEPT ![p] =
                         [t \in edited |-> IF t = s THEN v ELSE pending[p][t]]]
  /\ UNCHANGED <<overlay, snapshot, phase, diff, put>>

Reset(p) ==
  /\ phase[p] = "editing"
  /\ pending' = [pending EXCEPT ![p] = NoEdits]
  /\ UNCHANGED <<overlay, snapshot, phase, diff, put>>

Reload(p) ==
  /\ phase[p] # "applying"
  /\ snapshot' = [snapshot EXCEPT ![p] = overlay]
  /\ pending' = [pending EXCEPT ![p] = NoEdits]
  /\ phase' = [phase EXCEPT ![p] = "editing"]
  /\ diff' = [diff EXCEPT ![p] = NoEdits]
  /\ UNCHANGED <<overlay, put>>

(* preview: the edits are validated,                                       *)
Preview(p) ==
  /\ phase[p] = "editing" /\ pending[p] # NoEdits
  /\ diff' = [diff EXCEPT ![p] = pending[p]]
  /\ phase' = [phase EXCEPT ![p] = "previewing"]
  /\ UNCHANGED <<overlay, snapshot, pending, put>>

Closes(p) ==
  /\ phase' = [phase EXCEPT ![p] = "editing"]
  /\ diff' = [diff EXCEPT ![p] = NoEdits]

(* and shown in a dialog unless the overlay has another revision.          *)
Previewed(p) ==
  /\ phase[p] = "previewing"
  /\ IF snapshot[p].revision = overlay.revision
     THEN phase' = [phase EXCEPT ![p] = "reviewing"] /\ UNCHANGED diff
     ELSE Closes(p)
  /\ UNCHANGED <<overlay, snapshot, pending, put>>

Cancel(p) ==
  /\ phase[p] = "reviewing"
  /\ Closes(p)
  /\ UNCHANGED <<overlay, snapshot, pending, put>>

(* apply: what is pending now is sent.                                     *)
Apply(p) ==
  /\ phase[p] = "reviewing"
  /\ phase' = [phase EXCEPT ![p] = "applying"]
  /\ request' = [request EXCEPT ![p] =
                   [expected_revision |-> snapshot[p].revision, changes |-> pending[p]]]
  /\ server' = [server EXCEPT ![p] = "received"]
  /\ UNCHANGED <<overlay, snapshot, pending, diff, copy>>

(* The thread of a request ends, and its variables with it.                *)
Ends(p) ==
  /\ server' = [server EXCEPT ![p] = "idle"]
  /\ request' = [request EXCEPT ![p] = NoRequest]
  /\ copy' = [copy EXCEPT ![p] = NoDocument]

(* Fault: the edits are dropped whatever the answer is.                    *)
FaultApplied(p) ==
  /\ phase[p] = "applying" /\ server[p] \in {"applied", "refused"}
  /\ snapshot' = [snapshot EXCEPT ![p] = IF server[p] = "applied" THEN copy[p] ELSE @]
  /\ pending' = [pending EXCEPT ![p] = NoEdits]
  /\ Closes(p) /\ Ends(p)
  /\ UNCHANGED <<overlay>>

(* The answer has come: all edits are dropped unless it is an error.       *)
Applied(p) ==
  /\ phase[p] = "applying" /\ server[p] \in {"applied", "refused"}
  /\ IF server[p] = "applied"
     THEN /\ snapshot' = [snapshot EXCEPT ![p] = copy[p]]
          /\ pending' = [pending EXCEPT ![p] = NoEdits]
     ELSE UNCHANGED <<snapshot, pending>>
  /\ Closes(p) /\ Ends(p)
  /\ UNCHANGED <<overlay>>

-----------------------------------------------------------------------------
(* The service.                                                            *)

(* Fault: the revision is not compared.                                    *)
FaultRead(p) ==
  /\ server[p] = "received"
  /\ Cardinality({q \in Page : server[q] = "merging"}) < MaxBusy
  /\ copy' = [copy EXCEPT ![p] = overlay]
  /\ server' = [server EXCEPT ![p] = "merging"]
  /\ UNCHANGED <<overlay, page, request>>

(* Fault: the number of requests at once is not limited.                   *)
FaultBusy(p) ==
  /\ server[p] = "received"
  /\ copy' = [copy EXCEPT ![p] = overlay]
  /\ server' = [server EXCEPT ![p] =
                  IF request[p].expected_revision = overlay.revision
                  THEN "merging" ELSE "refused"]
  /\ UNCHANGED <<overlay, page, request>>

(* read_overlay and validate_change_request, which also looks each value up *)
(* in the catalog                                                          *)
Read(p) ==
  /\ server[p] = "received"
  /\ Cardinality({q \in Page : server[q] = "merging"}) < MaxBusy
  /\ copy' = [copy EXCEPT ![p] = overlay]
  /\ server' = [server EXCEPT ![p] =
                  IF request[p].expected_revision = overlay.revision
                  THEN "merging" ELSE "refused"]
  /\ UNCHANGED <<overlay, page, request>>

(* Fault: the revision is not raised.                                      *)
FaultNewVersion(p) ==
  [revision |-> copy[p].revision, values |-> Merged(copy[p].values, request[p].changes)]

(* merge_changes and bump_revision                                         *)
NewVersion(p) ==
  [revision |-> copy[p].revision + 1,
   values   |-> Merged(copy[p].values, request[p].changes)]

(* write_overlay_atomic may fail before it replaces the file or after that.*)
Replace(p) ==
  /\ server[p] = "merging" /\ copy[p].revision < MaxRevision
  /\ \/ /\ overlay' = NewVersion(p)
        /\ copy' = [copy EXCEPT ![p] = NewVersion(p)]
        /\ server' = [server EXCEPT ![p] = "applied"]
     \/ /\ overlay' \in {overlay, NewVersion(p)}
        /\ server' = [server EXCEPT ![p] = "refused"]
        /\ UNCHANGED copy
  /\ UNCHANGED <<page, request>>

(* Threads end with kittd, and their requests fail.                        *)
Interrupted ==
  /\ server' = [p \in Page |-> IF server[p] = "idle" THEN "idle" ELSE "refused"]
  /\ phase' = [p \in Page |-> IF phase[p] = "previewing" THEN "editing" ELSE phase[p]]
  /\ diff' = [p \in Page |-> IF phase[p] = "previewing" THEN NoEdits ELSE diff[p]]
  /\ request' = [p \in Page |-> NoRequest]
  /\ copy' = [p \in Page |-> NoDocument]

-----------------------------------------------------------------------------
Serve(p) == Read(p) \/ Replace(p)

-----------------------------------------------------------------------------
(* Properties.                                                             *)

(* A revision names one content: pages and file agree on the values when   *)
(* they agree on the revision, which is all that a request is checked for  *)
(* (README: "revisioned atomic configuration overlays").                   *)
RevisionNamesContent ==
  \A d, e \in {snapshot[p] : p \in Page} \cup {overlay} :
    d.revision = e.revision => d.values = e.values

(* A change is written over the overlay its page has seen, and over no     *)
(* change accepted since.                                                  *)
SeenBeforeWrite ==
  [][\A p \in Page : overlay' # overlay /\ Replace(p) => snapshot[p] = overlay]_overlayVars

(* An answer makes a page forget an edit only if the overlay has it: an    *)
(* edit is kept when its save is refused or fails.                         *)
EditsKept ==
  [][\A p \in Page : Applied(p) =>
       \A s \in DOMAIN pending[p] \ DOMAIN pending'[p] :
         snapshot'[p].values[s] = pending[p][s]]_overlayVars

(* What a document or a comment says and the code does not keep: README.md, *)
(* section 6, names the instance in which TLC finds it violated.            *)

(* What is written has been shown to the user for review (README: "a diff  *)
(* viewer before writes").                                                 *)
ReviewedBeforeWrite ==
  [][\A p \in Page : Replace(p) => request[p].changes = diff[p]]_overlayVars
=============================================================================
