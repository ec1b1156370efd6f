----------------------------- MODULE SiteConfig -----------------------------
(***************************************************************************)
(* The configuration of a site: config.json, the dictionary the application*)
(* keeps (run_app's cfg), the one its main window keeps (MainWindow.cfg),  *)
(* the remote service started from the first, and the session, which reads *)
(* the first until a change of profile or a reload has succeeded and the   *)
(* second from then on.  All of it runs on the one thread of the user      *)
(* interface, so what can interrupt a step is the end of the process and a *)
(* failing file.                                                           *)
(*                                                                         *)
(* A configuration is what decides the program's course: the profile, the  *)
(* mode derived from it, how the remote service is exposed ("off" when it  *)
(* is not enabled) and whether the rest has been set for this site ("flaw" *)
(* when one of its groups of settings is not valid).                       *)
(***************************************************************************)
EXTENDS Naturals

CONSTANTS
    Picks,       \* the profiles an operator selects
    Remotes,     \* the exposures an operator applies; may hold "off"
    Edits,       \* hand edits of the file between two runs of the program
    Acts,        \* what the operator does in the window
    Ends,        \* ends of the process in the middle of anything
    Unreads,     \* loads that find the file unreadable for a moment
    MoveFails,   \* renaming or copying a file to its backup may fail
    SaveFails    \* writing the file may fail

SiteConfigAssumption ==
    /\ Picks \subseteq {"serial_local", "udp_jardin", "lab_sim"}
    /\ Remotes \subseteq {"off", "local_only", "tailscale_only"}
    /\ Edits \in Nat /\ Acts \in Nat /\ Ends \in Nat /\ Unreads \in Nat
    /\ {MoveFails, SaveFails} \subseteq BOOLEAN

VARIABLES
    file,      \* config.json
    backups,   \* the files kept beside it
    pen,       \* the save under way
    run,       \* where the program is
    app,       \* the dictionary of run_app and of its closures
    window,    \* the dictionary of the main window
    same,      \* both are one object
    follows,   \* the session controller reads the window's, not the application's
    svc,       \* the remote service: "stopped", "failed" or its exposure
    sess,      \* the mode the session runs in, "none" without one
    promised,  \* the profile last chosen and saved, or put in the file by hand
    unsaved,   \* the remote settings last applied could not be saved
    owed,      \* the file was last given settings of the site by hand, and no
               \* save has been cut off since
    left       \* how much of each bound is left

history == <<promised, unsaved, owed>>
vars == <<file, backups, pen, run, app, window, same, follows, svc, sess, history, left>>

ModeOf == [serial_local |-> "serial", udp_jardin |-> "udp", lab_sim |-> "udp"]

Profiles == DOMAIN ModeOf \cup {"none"}

Configs == [profile : Profiles, mode : {"none", "serial", "udp"},
            remote : {"off", "local_only", "tailscale_only"}, rest : {"default", "site"}]

(* What somebody may have written: a profile the program does not know, a  *)
(* group of settings that is not valid.                                    *)
Written == [profile : Profiles \cup {"unknown"}, mode : {"none", "serial", "udp"},
            remote : {"off", "local_only", "tailscale_only"}, rest : {"default", "site", "flaw"}]

Default == [profile |-> "none", mode |-> "none", remote |-> "off", rest |-> "default"]

Files == [kind : {"absent", "v1", "v2", "torn"}, cfg : Written]

Holds(kind, cfg) == [kind |-> kind, cfg |-> cfg]

Idle == [by |-> "nobody", at |-> "idle", cfg |-> Default]

Pens == [by : {"nobody", "load", "reload", "selector", "profile", "remote"},
         at : {"idle", "open", "write"}, cfg : Configs]

Torn == Holds("torn", Default)

Init ==
    /\ file = Holds("absent", Default)
    /\ backups = {}
    /\ pen = Idle
    /\ run = "off"
    /\ app = Default /\ window = Default /\ same = TRUE /\ follows = FALSE
    /\ svc = "stopped" /\ sess = "none"
    /\ promised = "none" /\ unsaved = FALSE /\ owed = FALSE
    /\ left = [edits |-> Edits, acts |-> Acts, ends |-> Ends, reads |-> Unreads]

Spend(what) == left[what] > 0 /\ left' = [left EXCEPT ![what] = @ - 1]

-----------------------------------------------------------------------------
(* What the loader makes of a file.                                        *)

(* SLIP: a file with a setting that is not valid is replaced as a whole *)
SlipRepaired(c) == IF c.profile = "unknown" \/ c.rest = "flaw" THEN Default ELSE c

(* An unknown profile becomes none; a group that is not valid gets its     *)
(* defaults, and the others stay.                                          *)
Repaired(c) ==
    [c EXCEPT !.profile = IF @ = "unknown" THEN "none" ELSE @, !.rest = IF @ = "flaw" THEN "site" ELSE @]

Aligned(c) == IF c.profile = "none" THEN c ELSE [c EXCEPT !.mode = ModeOf[c.profile]]

WithProfile(c, p) == [c EXCEPT !.profile = p, !.mode = ModeOf[p]]

Migrated(c) == Aligned([c EXCEPT !.profile = "none", !.remote = "off"])

(* What a load returns, and whether it writes it: r says that the file     *)
(* could be read.                                                          *)
Loaded(r) ==
    CASE file.kind = "absent" \/ ~r \/ file.kind = "torn" -> [cfg |-> Default, save |-> TRUE]
      [] file.kind = "v1" -> [cfg |-> Migrated(file.cfg), save |-> TRUE]
      [] OTHER -> LET c == Aligned(Repaired(file.cfg)) IN [cfg |-> c, save |-> c # file.cfg]

(* SLIP: a file that cannot be parsed is written over *)
SlipKept(r, m) == backups

(* A file of version 1 is copied, an unreadable one is moved away; one of   *)
(* version 2 that is only repaired is not kept.                             *)
Kept(r, m) ==
    IF m /\ (file.kind \in {"torn", "v1"} \/ (file.kind = "v2" /\ ~r))
    THEN backups \cup {file} ELSE backups

(* The unreadable file has been moved away: nothing is there until the     *)
(* defaults are written.                                                   *)
Remains(r, m) ==
    IF m /\ (file.kind = "torn" \/ (file.kind # "absent" /\ ~r))
    THEN Holds("absent", Default) ELSE file

Save(by, c) == pen' = [by |-> by, at |-> "open", cfg |-> c]

-----------------------------------------------------------------------------
(* Starting the program.                                                   *)

Launch ==
    /\ run = "off"
    /\ run' = "reading"
    /\ UNCHANGED <<file, backups, pen, app, window, same, follows, svc, sess, history, left>>

(* load_config, at the start of the program and for the window's reload.   *)
Load ==
    /\ run \in {"reading", "rereading"} /\ pen = Idle
    /\ \E r \in BOOLEAN, m \in {TRUE, ~MoveFails} :
          /\ IF r THEN UNCHANGED left ELSE file.kind # "absent" /\ Spend("reads")
          /\ backups' = Kept(r, m)
          /\ file' = Remains(r, m)
          /\ owed' = (owed /\ (m \/ (r /\ file.kind # "torn")))
          /\ IF Loaded(r).save
             THEN /\ Save(IF run = "reading" THEN "load" ELSE "reload", Loaded(r).cfg)
                  /\ UNCHANGED <<run, app, window, same, follows>>
             ELSE /\ UNCHANGED pen
                  /\ IF run = "reading"
                     THEN /\ run' = IF Loaded(r).cfg.profile = "none" THEN "choosing" ELSE "starting"
                          /\ app' = Loaded(r).cfg
                          /\ UNCHANGED <<window, same, follows>>
                     ELSE /\ run' = "up"
                          /\ window' = Loaded(r).cfg /\ same' = FALSE /\ follows' = TRUE
                          /\ UNCHANGED app
    /\ UNCHANGED <<svc, sess, promised, unsaved>>

(* The guided selector; closing it leaves the site without a profile.      *)
Select ==
    /\ run = "choosing" /\ pen = Idle
    /\ \/ \E p \in Picks :
             /\ app' = WithProfile(app, p)
             /\ Save("selector", app')
             /\ UNCHANGED run
       \/ run' = "starting" /\ UNCHANGED <<app, pen>>
    /\ UNCHANGED <<file, backups, window, same, follows, svc, sess, history, left>>

(* Stop the service, and start it as configured: it may fail to.           *)
Served(c) == IF c.remote = "off" THEN {"stopped"} ELSE {c.remote, "failed"}

(* The controller is given the application's dictionary, the window too.   *)
Show ==
    /\ run = "starting"
    /\ run' = "up"
    /\ svc' \in Served(app)
    /\ window' = app /\ same' = TRUE /\ follows' = FALSE
    /\ UNCHANGED <<file, backups, pen, app, sess, history, left>>

-----------------------------------------------------------------------------
(* What the operator does in the window.                                   *)

Ready == run = "up" /\ pen = Idle

(* What the session controller reads.                                      *)
Read == IF follows THEN window ELSE app

(* SLIP: the profile may change under a running session *)
SlipEditable == TRUE

Editable == sess = "none"

ChangeProfile ==
    /\ Ready /\ Editable /\ Spend("acts")
    /\ \E p \in Picks \ {window.profile} : window' = WithProfile(window, p)
    /\ same' = FALSE
    /\ Save("profile", window')
    /\ UNCHANGED <<file, backups, run, app, follows, svc, sess, history>>

Reload ==
    /\ Ready /\ Editable /\ Spend("acts")
    /\ run' = "rereading"
    /\ UNCHANGED <<file, backups, pen, app, window, same, follows, svc, sess, history>>

(* The application's dictionary is changed in place and saved.             *)
ApplyRemote ==
    /\ Ready /\ Editable /\ Spend("acts")
    /\ \E r \in Remotes : app' = [app EXCEPT !.remote = r]
    /\ window' = IF same THEN app' ELSE window
    /\ Save("remote", app')
    /\ UNCHANGED <<file, backups, run, same, follows, svc, sess, history>>

Blocked(c) == c.profile = "none"

StartSession ==
    /\ Ready /\ sess = "none" /\ ~Blocked(Read) /\ Spend("acts")
    /\ sess' = Read.mode
    /\ UNCHANGED <<file, backups, pen, run, app, window, same, follows, svc, history>>

StopSession ==
    /\ Ready /\ sess # "none"
    /\ sess' = "none"
    /\ UNCHANGED <<file, backups, pen, run, app, window, same, follows, svc, history, left>>

-----------------------------------------------------------------------------
(* save_config: the file is truncated when it is opened.                   *)

Truncate ==
    /\ pen.at = "open"
    /\ pen' = [pen EXCEPT !.at = "write"]
    /\ file' = Torn
    /\ UNCHANGED <<backups, run, app, window, same, follows, svc, sess, history, left>>

(* SLIP: the controller is not told of a change of profile *)
SlipTold(by) == by = "reload"

(* After these the controller reads the window's dictionary.               *)
Told(by) == by \in {"profile", "reload"}

Write ==
    /\ pen.at = "write"
    /\ pen' = Idle
    /\ file' = Holds("v2", pen.cfg)
    /\ promised' = IF pen.by \in {"selector", "profile"} THEN pen.cfg.profile ELSE promised
    /\ svc' \in IF pen.by = "remote" THEN Served(app) ELSE {svc}
    /\ app' = IF pen.by = "load" THEN pen.cfg ELSE app
    /\ window' = IF pen.by = "reload" THEN pen.cfg ELSE window
    /\ same' = (same /\ pen.by # "reload")
    /\ follows' = (follows \/ Told(pen.by))
    /\ unsaved' = (unsaved /\ pen.by # "remote")
    /\ run' = CASE pen.by = "load" /\ pen.cfg.profile = "none" -> "choosing"
                [] pen.by \in {"load", "selector"} -> "starting"
                [] pen.by = "reload" -> "up"
                [] OTHER -> run
    /\ UNCHANGED <<backups, sess, owed, left>>

(* A save that ends while it is writing leaves no settings in the file.    *)
CutOff == owed' = (owed /\ pen.at # "write")

(* An exception leaves save_config: the program does not start, or the     *)
(* window goes on with what it had changed in memory; the controller is    *)
(* told nothing, and the service goes on as it was.                        *)
SaveRaises ==
    /\ SaveFails /\ pen # Idle
    /\ pen' = Idle
    /\ run' = IF pen.by \in {"load", "selector"} THEN "off" ELSE "up"
    /\ CutOff
    /\ unsaved' = (unsaved \/ pen.by = "remote")
    /\ UNCHANGED <<file, backups, app, window, same, follows, svc, sess, promised, left>>

Gone ==
    /\ run' = "off" /\ pen' = Idle
    /\ app' = Default /\ window' = Default /\ same' = TRUE /\ follows' = FALSE
    /\ svc' = "stopped" /\ sess' = "none"
    /\ unsaved' = FALSE /\ CutOff
    /\ UNCHANGED <<file, backups, promised>>

Close == Ready /\ Gone /\ UNCHANGED left

End == run # "off" /\ Gone /\ Spend("ends")

(* Between two runs somebody writes the file: a profile beside a mode that *)
(* does not belong to it or one nobody knows, settings that are valid or   *)
(* not, a file of version 1, no file at all.                               *)
HandEdit ==
    /\ run = "off" /\ Spend("edits")
    /\ \/ \E p \in Picks \cup {"none", "unknown"}, m \in {"serial", "udp"}, q \in {"site", "flaw"} :
             /\ file' = Holds("v2", [profile |-> p, mode |-> m, remote |-> "off", rest |-> q])
             /\ promised' = IF p = "unknown" THEN "none" ELSE p
       \/ /\ file' \in {Holds("v1", [Default EXCEPT !.mode = "udp", !.rest = "site"]),
                        Holds("absent", Default)}
          /\ promised' = "none"
    /\ owed' = (file'.kind # "absent")
    /\ UNCHANGED <<backups, pen, run, app, window, same, follows, svc, sess, unsaved>>

Step == Load \/ Select \/ Show \/ Truncate \/ Write

Next ==
    \/ Step \/ Launch
    \/ ChangeProfile \/ Reload \/ ApplyRemote \/ StartSession \/ StopSession
    \/ SaveRaises \/ Close \/ End \/ HandEdit

(* The program goes on by itself; what an operator does is never owed.     *)
Spec == Init /\ [][Next]_vars /\ WF_vars(Load) /\ WF_vars(Show) /\ WF_vars(Truncate) /\ WF_vars(Write)

-----------------------------------------------------------------------------
(* Well-formedness: a save is under way only in a running program, the     *)
(* window and the application differ only once they are two objects, and   *)
(* what the program has in hand is valid.                                  *)
TypeOK ==
    /\ file \in Files /\ backups \subseteq Files /\ pen \in Pens
    /\ run \in {"off", "reading", "choosing", "starting", "up", "rereading"}
    /\ app \in Configs /\ window \in Configs /\ {same, follows, unsaved, owed} \subseteq BOOLEAN
    /\ sess \in {"none", "serial", "udp"}
    /\ svc \in {"stopped", "failed", "local_only", "tailscale_only"}
    /\ promised \in Profiles
    /\ pen # Idle => run # "off"
    /\ run = "up" /\ same => window = app

(* README: the mode is derived from the profile and synchronised by itself. *)
(* A session runs in the mode of a profile the application or its window   *)
(* has, and in that of the profile the window shows if it is the one on    *)
(* file, however the file was edited, migrated, repaired, reloaded or      *)
(* changed from the window, and whatever saves failed.  (A window that     *)
(* shows a profile which could not be saved may run another.)              *)
SessionFollowsProfile ==
    sess # "none" =>
      /\ \E c \in {app, window} : c.profile # "none" /\ sess = ModeOf[c.profile]
      /\ file.kind = "v2" /\ file.cfg.profile = window.profile =>
           window.profile # "none" /\ sess = ModeOf[window.profile]

(* Valid settings that somebody gave the site by hand outlive the starts,  *)
(* migrations, repairs, reloads and saves of the program, and loads that   *)
(* could not read them: they are in the file, in one kept beside it, or in *)
(* the save being written - until a save is cut off while it writes, or a  *)
(* file that cannot be read cannot be moved away either.  (What a repair   *)
(* replaces, an unknown profile or a setting that is not valid, is not     *)
(* kept anywhere.)                                                         *)
OfSite(c) == c.rest # "default"
SettingsSurvive ==
    owed => \/ \E f \in backups \cup {file} : OfSite(f.cfg)
            \/ pen.at = "write" /\ OfSite(pen.cfg)

(* README: the active profile is kept in config.json.  What is on file is  *)
(* the profile last selected, whatever else was saved after it.            *)
ProfileOnFile ==
    run = "up" /\ pen = Idle /\ file.kind = "v2" => file.cfg.profile = promised

(* README: the selector is not shown again once a profile has been saved.  *)
SelectorOnce == run = "choosing" /\ pen = Idle => promised = "none"

(* The service that runs is the one the application is configured for: an  *)
(* exposure that was turned off is not left listening, unless that could   *)
(* not be saved.                                                           *)
ServiceIsAsAsked ==
    Ready /\ ~unsaved => svc \in {app.remote, "failed", "stopped"} /\ (app.remote = "off" => svc = "stopped")

(* The service that runs is the one the file describes, so that the next   *)
(* start of the program brings the same one up.                            *)
ServiceIsOnFile ==
    Ready /\ file.kind = "v2" /\ svc \notin {"failed", "stopped"} => svc = file.cfg.remote

(* Whatever is on disk, and even if it can be neither read nor moved away, *)
(* the program comes up or asks for a profile.                             *)
ComesUp == run = "reading" ~> run \in {"choosing", "up", "off"}
=============================================================================
