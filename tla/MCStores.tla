----------------------------- MODULE MCStores ------------------------------
(* What the PC keeps on disk and who may change it: the accounts of the     *)
(* remote API, changed by one browser, on a fresh site, by two admins, or   *)
(* by an admin while somebody else reads; the settings of the site; the     *)
(* firmware catalog, used by the application alone or beside the artifact   *)
(* agent; and the builds of that agent, by one command at a time or by two. *)
(* A behaviour exercises one of these, chosen at the start: they share no   *)
(* state here.                                                              *)
EXTENDS Integers, FiniteSets, Sequences

CONSTANTS Names, AllOps, Picks, Remotes

VARIABLES
  part,
  users, sessions, cookie, running, pc, req, me, copy, out, logged, gone, asked, apiFaults,
  file, backups, pen, run, app, window, same, follows, svc, sess,
  promised, unsaved, owed, left,
  disk, health, files, mem, op, report, torn, rollout, met, faults,
  catalog, built, todo, at, taken, mixed

api == <<users, sessions, cookie, running, pc, req, me, copy, out, logged, gone, asked,
         apiFaults>>
site == <<file, backups, pen, run, app, window, same, follows, svc, sess, promised, unsaved,
          owed, left>>
library == <<disk, health, files, mem, op, report, torn, rollout, met, faults>>
agent == <<catalog, built, todo, at, taken, mixed>>
vars == <<part, api, site, library, agent>>

Alone == INSTANCE RemoteApi WITH
  file <- users, faults <- apiFaults, Clients <- {1}, Readers <- {}, Ops <- AllOps,
  FreshSite <- FALSE, TokenRole <- "none", MaxRequests <- 2, MaxSessions <- 3,
  Drops <- TRUE, MaxFaults <- 1
Fresh == INSTANCE RemoteApi WITH
  file <- users, faults <- apiFaults, Clients <- {1}, Readers <- {},
  Ops <- {"whoami", "login", "logout", "bootstrap", "enable", "delete"},
  FreshSite <- TRUE, TokenRole <- "none", MaxRequests <- 3, MaxSessions <- 3,
  Drops <- TRUE, MaxFaults <- 1
Pair == INSTANCE RemoteApi WITH
  file <- users, faults <- apiFaults, Clients <- {1, 2}, Readers <- {},
  Ops <- {"stat", "list", "enable", "delete"},
  FreshSite <- FALSE, TokenRole <- "tecnico", MaxRequests <- 2, MaxSessions <- 5,
  Drops <- FALSE, MaxFaults <- 0
Ended == INSTANCE RemoteApi WITH
  file <- users, faults <- apiFaults, Clients <- {1, 2}, Readers <- {2},
  Ops <- {"read", "create", "rename", "enable", "delete"},
  FreshSite <- FALSE, TokenRole <- "none", MaxRequests <- 2, MaxSessions <- 5,
  Drops <- FALSE, MaxFaults <- 0
Faulty == INSTANCE SiteConfig WITH
  Edits <- 1, Acts <- 2, Ends <- 1, Unreads <- 1, MoveFails <- FALSE, SaveFails <- TRUE
Exposed == INSTANCE SiteConfig WITH
  Remotes <- Remotes \cup {"tailscale_only"}, Edits <- 1, Acts <- 2, Ends <- 0,
  Unreads <- 1, MoveFails <- TRUE, SaveFails <- FALSE
Library == INSTANCE FirmwareCatalog WITH
  Bins <- {1, 2, 3}, Others <- {3}, Tokens <- {1}, Agent <- FALSE, ReadFails <- FALSE,
  MaxFaults <- 2
Shared == INSTANCE FirmwareCatalog WITH
  Bins <- {1, 2}, Others <- {}, Tokens <- {1}, Agent <- TRUE, ReadFails <- FALSE,
  MaxFaults <- 0
Builder == INSTANCE ArtifactAgent WITH
  Jobs <- {1}, BasePatch <- 97, MaxPatch <- 99, HandMade <- TRUE
Builders == INSTANCE ArtifactAgent WITH
  Jobs <- {1, 2}, BasePatch <- 97, MaxPatch <- 98, HandMade <- FALSE

ASSUME MCStoresAssumption ==
  /\ Alone!RemoteApiAssumption /\ Fresh!RemoteApiAssumption /\ Pair!RemoteApiAssumption
  /\ Ended!RemoteApiAssumption /\ Faulty!SiteConfigAssumption /\ Exposed!SiteConfigAssumption
  /\ Library!FirmwareCatalogAssumption /\ Shared!FirmwareCatalogAssumption
  /\ Builder!ArtifactAgentAssumption /\ Builders!ArtifactAgentAssumption

Parts == {"alone", "fresh", "pair", "ended", "faulty", "exposed", "library", "shared",
          "builder", "builders"}
Init ==
  /\ part \in Parts
  /\ IF part = "builders" THEN Builders!Init ELSE Builder!Init
  /\ IF part = "exposed" THEN Exposed!Init ELSE Faulty!Init
  /\ IF part = "shared" THEN Shared!Init ELSE Library!Init
  /\ CASE part = "alone" -> Alone!Init
       [] part = "pair" -> Pair!Init
       [] part = "ended" -> Ended!Init
       [] OTHER -> Fresh!Init

ApiOnly(p) == part = p /\ UNCHANGED <<part, site, library, agent>>
SiteOnly(p) == part = p /\ UNCHANGED <<part, api, library, agent>>
LibraryOnly(p) == part = p /\ UNCHANGED <<part, api, site, agent>>
BuilderOnly(p) == part = p /\ UNCHANGED <<part, api, site, library>>

Next ==
  \/ ApiOnly("alone") /\ Alone!Next
  \/ ApiOnly("fresh") /\ Fresh!Next
  \/ ApiOnly("pair") /\ Pair!Next
  \/ ApiOnly("ended") /\ Ended!Next
  \/ SiteOnly("faulty") /\ Faulty!Next
  \/ SiteOnly("exposed") /\ Exposed!Next
  \/ LibraryOnly("library") /\ Library!Next
  \/ LibraryOnly("shared") /\ Shared!Next
  \/ BuilderOnly("builder") /\ Builder!Next
  \/ BuilderOnly("builders") /\ Builders!Next

Spec == Init /\ [][Next]_vars

-----------------------------------------------------------------------------
(* A site that has an enabled admin keeps one, whatever admins do to each   *)
(* other at the same time and wherever a write fails; and a change by a     *)
(* single browser touches only the account it names.                        *)
AccountsStay ==
  [][/\ Alone!AdminIsKept
     /\ part \in {"alone", "fresh"} => Alone!ChangesTheNamed]_vars

(* Once the end of an account has been answered, no request is let through  *)
(* in its name until it comes back.                                         *)
EndedIsRefused == [][part = "ended" => Ended!LetsInTheLiving]_vars

(* A session runs in the mode of a profile the program was given, and in    *)
(* that of the profile on file when the window shows that one; and a remote *)
(* service that was turned off is not left listening, unless that could not *)
(* be saved: whatever writes fail and wherever the program ends.            *)
SettingsAreFollowed ==
  /\ Faulty!SessionFollowsProfile
  /\ Faulty!ServiceIsAsAsked

(* Valid settings put in the file by hand are lost only when a save is cut  *)
(* off while it writes, or with an unreadable file that cannot be moved.    *)
SettingsSurvive == Faulty!SettingsSurvive

(* Whoever writes the catalog: at most one artifact of a target is current, *)
(* and what nodes can fetch is whole.  As long as the application and the   *)
(* agent, and two commands of the agent, take turns: an entry has its image *)
(* and says what it is.  And where the application alone writes, what was   *)
(* imported stays until it is deleted or the file is damaged.               *)
CatalogIsTrue ==
  /\ [](/\ part = "shared" => Shared!OneCurrent /\ Shared!ServedIsWhole /\ Shared!EntryHasImage
        /\ part = "library" => Library!OneCurrent /\ Library!ServedIsWhole /\ Library!EntryHasImage
        /\ Builder!CatalogSaysBuilt)
  /\ [][part = "library" => Library!Outlasts]_vars
=============================================================================
