--------------------------- MODULE FirmwareCatalog ---------------------------
(***************************************************************************)
(* The firmware library of the host: one JSON file that lists artifacts    *)
(* by the hash of their image, a managed folder that keeps the images, and *)
(* the rollouts published from them.  Every writer reads the whole file,   *)
(* changes its copy and replaces the file.  The desktop application is one *)
(* writer (all its dialogs run on one thread), the command-line artifact   *)
(* agent another, and nothing orders the two.                              *)
(***************************************************************************)
EXTENDS Naturals, FiniteSets

CONSTANTS
  Bins,        \* images, known by their hash
  Others,      \* the images for another target than the rest
  Tokens,      \* rollout tokens
  Agent,       \* the artifact agent runs beside the application
  ReadFails,   \* reading the catalog may fail for a while
  MaxFaults    \* failed reads and writes, crashes and losses of power

FirmwareCatalogAssumption ==
  /\ Bins \subseteq Nat \ {0} /\ Others \subseteq Bins /\ MaxFaults \in Nat
  /\ {Agent, ReadFails} \subseteq BOOLEAN

Writers == IF Agent THEN {"app", "agent"} ELSE {"app"}
None == 0

VARIABLES
  disk,     \* status of each image in the catalog file, "none" when not listed
  health,   \* the file: "ok", "missing" or "corrupt"
  files,    \* images in the managed folder
  mem,      \* the copy of the catalog each writer holds
  op,       \* what each writer is doing, between two effects on the disk
  report,   \* the result each writer gave last
  torn,     \* images whose deletion has removed the file and not the entry
  rollout,  \* the two files of each published rollout
  met,      \* both writers were at work at the same time
  faults

store == <<disk, health>>
vars == <<store, files, mem, op, report, torn, rollout, met, faults>>

Statuses == {"none", "current", "beta", "obsolete"}
Empty == [b \in Bins |-> "none"]
Idle == [kind |-> "idle", bin |-> None]
Unsaid == [bin |-> None, ok |-> FALSE]
SameTarget(b, c) == b \in Others <=> c \in Others
Currents(cat, b) == {c \in Bins : SameTarget(b, c) /\ cat[c] = "current"}

Fault == faults < MaxFaults /\ faults' = faults + 1
NoFault == UNCHANGED faults
Becomes(w, o) == op' = [op EXCEPT ![w] = o]
Ends(w) == Becomes(w, Idle)
Holds(w, cat) == mem' = [mem EXCEPT ![w] = cat]
Says(w, b, ok) == report' = [report EXCEPT ![w] = [bin |-> b, ok |-> ok]]

Init ==
  /\ disk = Empty /\ health = "missing" /\ files = {} /\ met = FALSE /\ faults = 0
  /\ mem = [w \in Writers |-> Empty]
  /\ op = [w \in Writers |-> Idle]
  /\ report = [w \in Writers |-> Unsaid]
  /\ torn = {}
  /\ rollout = [t \in Tokens |-> [bin |-> None, manifest |-> None]]

TypeOK ==
  /\ disk \in [Bins -> Statuses] /\ health \in {"ok", "missing", "corrupt"}
  /\ health # "ok" => disk = Empty
  /\ files \subseteq Bins /\ torn \subseteq Bins
  /\ mem \in [Writers -> [Bins -> Statuses]]
  /\ \A w \in Writers : op[w] = Idle \/ op[w].bin \in Bins
  /\ report \in [Writers -> [bin : Bins \cup {None}, ok : BOOLEAN]]
  /\ rollout \in [Tokens -> [bin : Bins \cup {None}, manifest : Bins \cup {None}]]
  /\ met \in BOOLEAN /\ faults \in 0..MaxFaults

(* save: the whole file is replaced at once. *)
Save(w, cat) == disk' = cat /\ health' = "ok" /\ Holds(w, cat)

(* catalog_from_dict: the writer holds what the file says.                 *)
Reads(w) == health = "ok" /\ Holds(w, disk) /\ UNCHANGED store
(* _recover_from_corrupt_file: the damaged file is kept under another name *)
(* and an empty one takes its place, as for a file that is missing.        *)
Recovers(w) == health # "ok" /\ Save(w, Empty)
(* load.  A file that cannot be read counts as empty and stays.            *)
Load(w) ==
  \/ (Reads(w) \/ Recovers(w)) /\ NoFault
  \/ ReadFails /\ health = "ok" /\ Fault /\ Holds(w, Empty) /\ UNCHANGED store
(* _rollback_catalog_state, after a change that could not be saved.        *)
RollsBack(w) == Holds(w, disk) /\ UNCHANGED store

(* SLIP: the artifact that was current keeps its status *)
SetCurrentKeeps(cat, b) == [cat EXCEPT ![b] = "current"]

(* The catalog with b as the only current artifact of its target. *)
SetCurrent(cat, b) ==
  [c \in Bins |-> IF c = b THEN "current"
                  ELSE IF c \in Currents(cat, b) THEN "obsolete" ELSE cat[c]]

(* The catalog after b was imported: a known image keeps its entry. *)
Imported(cat, b, way) ==
  LET listed == IF cat[b] # "none" THEN cat
                ELSE [cat EXCEPT ![b] = IF way = "current" THEN "current" ELSE "beta"]
  IN  IF way = "mark" THEN SetCurrent(listed, b) ELSE listed

(* A new entry that would be the second current one of its target. *)
Refused(cat, b, way) == way = "current" /\ cat[b] = "none" /\ Currents(cat, b) # {}

(* import_artifact, up to reading the catalog. *)
ImportBegins(w) ==
  /\ op[w] = Idle /\ Load(w)
  /\ \E b \in Bins, way \in {"beta", "mark", "current"} :
       /\ w = "agent" => way = "beta"
       /\ Becomes(w, [kind |-> "copy", bin |-> b, way |-> way])
  /\ report' = [report EXCEPT ![w] = Unsaid]
  /\ UNCHANGED <<files, torn, rollout>>

(* An image that is already there is used as it is, and not removed later. *)
ImportCopies(w) ==
  /\ op[w].kind = "copy"
  /\ Becomes(w, [kind |-> "save", bin |-> op[w].bin, way |-> op[w].way,
                 made |-> op[w].bin \notin files])
  /\ files' = files \cup {op[w].bin}
  /\ UNCHANGED <<store, mem, report, torn, rollout, faults>>

ImportSaves(w) ==
  /\ op[w].kind = "save"
  /\ LET b == op[w].bin
         new == Imported(mem[w], b, op[w].way)
     IN  /\ ~Refused(mem[w], b, op[w].way)
         /\ IF new = mem[w] THEN UNCHANGED <<store, mem>> ELSE Save(w, new)
         /\ Says(w, b, TRUE) /\ torn' = torn \ {b}
  /\ Ends(w) /\ NoFault /\ UNCHANGED <<files, rollout>>

(* The application passes on that an import failed; the agent's commands   *)
(* print "imported" whatever the result was.                               *)
Claims(w) == w = "agent"

(* An import that fails removes the image it copied and reads the catalog  *)
(* again.                                                                  *)
ImportFails(w) ==
  /\ op[w].kind = "save"
  /\ LET b == op[w].bin
     IN  /\ IF Refused(mem[w], b, op[w].way) THEN NoFault
            ELSE Imported(mem[w], b, op[w].way) # mem[w] /\ Fault
         /\ files' = IF op[w].made THEN files \ {b} ELSE files
         /\ Says(w, b, Claims(w))
  /\ RollsBack(w) /\ Ends(w) /\ UNCHANGED <<torn, rollout>>

(* delete_artifact of an entry shown to the operator: the image goes first, *)
(* if it can be removed, and the entry after it.                            *)
DeleteBegins ==
  /\ op["app"] = Idle /\ Load("app")
  /\ \E b \in Bins :
       /\ mem["app"][b] # "none"
       /\ IF mem'["app"][b] = "none" THEN UNCHANGED <<op, files, torn>>
          ELSE /\ Becomes("app", [kind |-> "delete", bin |-> b])
               /\ files' = files \ {b} /\ torn' = torn \cup {b}
  /\ UNCHANGED <<report, rollout>>

DeleteSaves ==
  /\ op["app"].kind = "delete" /\ Ends("app")
  /\ LET b == op["app"].bin
     IN  \/ /\ Save("app", [mem["app"] EXCEPT ![b] = "none"])
            /\ torn' = torn \ {b} /\ NoFault
         \/ Fault /\ RollsBack("app") /\ UNCHANGED torn
  /\ UNCHANGED <<files, report, rollout>>

(* The image is in use and cannot be removed: nothing changes. *)
DeleteBlocked ==
  /\ op["app"] = Idle /\ Fault /\ health = "ok" /\ Holds("app", disk)
  /\ \E b \in files : mem["app"][b] # "none" /\ disk[b] # "none"
  /\ UNCHANGED <<store, files, op, report, torn, rollout>>

(* The button marks the artifact in the copy the dialog holds, as old as   *)
(* it is, and saves that copy.                                             *)
MarkCurrent ==
  /\ op["app"] = Idle
  /\ \E b \in Bins :
       LET new == SetCurrent(mem["app"], b)
       IN  /\ mem["app"][b] \notin {"none", "current"}
           /\ \/ Save("app", new) /\ NoFault
              \/ Fault /\ Holds("app", new) /\ UNCHANGED store
  /\ UNCHANGED <<files, op, report, torn, rollout>>

(* refresh_catalog, and every other part that shows the catalog. *)
Refresh ==
  /\ op["app"] = Idle /\ Load("app")
  /\ UNCHANGED <<files, op, report, torn, rollout>>

(* publish_rollout.  What was published before under the token must be the *)
(* same in both files.                                                     *)
MayPublish(t) == rollout[t].bin = None /\ rollout[t].manifest = None

PublishBegins ==
  /\ op["app"] = Idle /\ Load("app")
  /\ \E b \in Bins, t \in Tokens :
       /\ mem["app"][b] # "none"
       /\ IF mem'["app"][b] \notin {"none", "obsolete"} /\ b \in files /\ MayPublish(t)
          THEN Becomes("app", [kind |-> "publish", bin |-> b, token |-> t])
          ELSE UNCHANGED op
  /\ UNCHANGED <<files, report, torn, rollout>>

(* The image is copied first; the manifest makes it visible. *)
PublishImage ==
  /\ op["app"].kind = "publish"
  /\ \/ /\ op["app"].bin \in files /\ NoFault
        /\ rollout' = [rollout EXCEPT ![op["app"].token].bin = op["app"].bin]
        /\ Becomes("app", [op["app"] EXCEPT !.kind = "manifest"])
     \/ /\ IF op["app"].bin \in files THEN Fault ELSE NoFault
        /\ Ends("app") /\ UNCHANGED rollout
  /\ UNCHANGED <<store, files, mem, report, torn>>

(* _write_manifest_atomically, _cleanup_temp_file.                         *)
WritesManifest(t, b) == rollout' = [rollout EXCEPT ![t].manifest = b]
PublishManifest ==
  /\ op["app"].kind = "manifest" /\ Ends("app")
  /\ LET t == op["app"].token
     IN  \/ WritesManifest(t, op["app"].bin) /\ NoFault
         \/ rollout' = [rollout EXCEPT ![t] = [bin |-> None, manifest |-> None]] /\ Fault
  /\ UNCHANGED <<store, files, mem, report, torn>>

(* A writer dies between two effects. *)
Crash(w) ==
  /\ op[w] # Idle /\ Fault /\ Ends(w) /\ Holds(w, Empty)
  /\ UNCHANGED <<store, files, report, torn, rollout>>

(* The host loses power and the file is damaged. *)
PowerLoss ==
  /\ health = "ok" /\ Fault /\ health' = "corrupt" /\ disk' = Empty
  /\ op' = [w \in Writers |-> Idle] /\ mem' = [w \in Writers |-> Empty]
  /\ UNCHANGED <<files, report, torn, rollout>>

Step ==
  \/ \E w \in Writers : ImportBegins(w) \/ ImportCopies(w) \/ ImportSaves(w)
                        \/ ImportFails(w) \/ Crash(w)
  \/ DeleteBegins \/ DeleteSaves \/ DeleteBlocked \/ MarkCurrent \/ Refresh
  \/ PublishBegins \/ PublishImage \/ PublishManifest \/ PowerLoss

Meets == met' = (met \/ Cardinality({w \in Writers : op'[w] # Idle}) > 1)

Next == Step /\ Meets

Spec == Init /\ [][Next]_vars

-----------------------------------------------------------------------------
(* A target has at most one current artifact, whichever imports, marks and *)
(* deletions of several writers overwrite each other.                      *)
OneCurrent == \A b \in Bins : Cardinality(Currents(disk, b)) <= 1

(* A rollout that nodes can see has the image its manifest names: crashes  *)
(* and failed copies leave at most an image without a manifest.            *)
ServedIsWhole ==
  \A t \in Tokens : rollout[t].manifest # None => rollout[t].bin = rollout[t].manifest

(* As long as the writers take turns, an entry has its image in the managed *)
(* folder, unless its deletion was interrupted between the two: failed     *)
(* imports, roll-backs, old copies and crashes leave none without.  (When  *)
(* they meet, the save of a copy read before a deletion lists it again.)   *)
EntryHasImage == ~met => \A b \in Bins : disk[b] # "none" => b \in files \cup torn

(* What was imported stays in the catalog until the operator deletes it or *)
(* the file is damaged.                                                    *)
Outlasts ==
  \A b \in Bins :
    (disk[b] # "none" /\ disk'[b] = "none")
      => (health' = "corrupt" \/ (op["app"].kind = "delete" /\ op["app"].bin = b))
EntriesPersist == [][Outlasts]_vars

(* An import reported as done has its entry in the catalog file. *)
SuccessMeansListed ==
  [][\A w \in Writers :
       (report'[w] # report[w] /\ report'[w].ok) => disk'[report'[w].bin] # "none"]_vars

(* What nodes can see under a token never changes: a second publication    *)
(* reuses it or is refused.                                                *)
PublishedIsFinal ==
  [][\A t \in Tokens : rollout[t].manifest # None => rollout'[t] = rollout[t]]_vars
=============================================================================
