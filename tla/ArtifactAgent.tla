---------------------------- MODULE ArtifactAgent ----------------------------
(***************************************************************************)
(* The command-line agent that compiles firmware images for one node and   *)
(* lists them in the catalog: it plans builds from the version in the      *)
(* sources and the versions in the catalog, compiles each plan in the one  *)
(* build folder of the repository, copies the image out of it and imports  *)
(* it under the names of the plan.  Commands may run side by side.         *)
(***************************************************************************)
EXTENDS Naturals, Sequences, FiniteSets, SequencesExt

CONSTANTS
  Jobs,       \* commands that may run at once
  BasePatch,  \* patch number of the version in the sources
  MaxPatch,   \* bound: no version 1.0.p beyond this one, or 1.1.p beyond
              \* 1.1.1, is planned
  HandMade    \* the operator may also import images of other versions

ArtifactAgentAssumption ==
  /\ Jobs # {} /\ BasePatch \in Nat /\ MaxPatch \in Nat /\ HandMade \in BOOLEAN

VARIABLES
  catalog,   \* entries: what the image really is, and what its entry says
  built,     \* the image in the build folder, if there is one
  todo,      \* plans each command has not finished
  at,        \* the stage of the first of them
  taken,     \* the image each command copied out of the build folder
  mixed      \* two commands were under way at the same time

vars == <<catalog, built, todo, at, taken, mixed>>

Base == <<1, 0, BasePatch>>
Intents == {"clone", "comparative", "probe", "network", "hand"}
Hand == {<<1, 1, 0>>, <<1, 0, BasePatch + 1>>}
Versions == {<<1, 0, p>> : p \in 0..MaxPatch} \cup {<<1, 1, p>> : p \in 0..1}
Plans == [version : Versions, intent : Intents]
NoImage == [version |-> <<0, 0, 0>>, intent |-> "none"]
Stages == {"idle", "clean", "compile", "copy", "import"}

Less(u, v) ==
  \/ u[1] < v[1]
  \/ u[1] = v[1] /\ u[2] < v[2]
  \/ u[1] = v[1] /\ u[2] = v[2] /\ u[3] < v[3]

(* The integer nodes compare. *)
Code(v) == v[1] * 10000 + v[2] * 100 + v[3]

Listed == {e.label.version : e \in catalog}

(* The version a plan of its own resolves to, when none is given. *)
IncrementPatch(v) == [v EXCEPT ![3] = @ + 1]

(* The version after the newest of the catalog and the sources. *)
SuggestNext ==
  LET newest == CHOOSE v \in Listed \cup {Base} : \A u \in Listed \cup {Base} : ~Less(v, u)
  IN  [newest EXCEPT ![3] = @ + 1]

Clone == [version |-> Base, intent |-> "clone"]
Newer(intent) == [version |-> SuggestNext, intent |-> intent]

Init ==
  /\ catalog = {} /\ built = NoImage
  /\ todo = [j \in Jobs |-> <<>>]
  /\ at = [j \in Jobs |-> "idle"]
  /\ taken = [j \in Jobs |-> NoImage]
  /\ mixed = FALSE

TypeOK ==
  /\ catalog \subseteq [image : Plans, label : Plans]
  /\ \A d, e \in catalog : d.image = e.image => d = e
  /\ built \in Plans \cup {NoImage} /\ mixed \in BOOLEAN
  /\ \A j \in Jobs : /\ at[j] \in Stages
                     /\ todo[j] \in Seq(Plans)
                     /\ at[j] = "idle" <=> todo[j] = <<>>
                     /\ taken[j] \in Plans \cup {NoImage}
                     /\ at[j] = "import" <=> taken[j] # NoImage

Begins(j, plans) ==
  /\ at[j] = "idle"
  /\ \A i \in 1..Len(plans) : plans[i].version \in Versions
  /\ todo' = [todo EXCEPT ![j] = plans] /\ at' = [at EXCEPT ![j] = "clean"]
  /\ UNCHANGED <<catalog, built, taken>>

FirstPhysicalTestPlans == <<Newer("comparative")>>
BankProbePlans == <<Clone, Newer("probe")>>

(* The commands.  The set for another network has the versions of the bank *)
(* probe set, and images of its own.                                       *)
BuildSituational(j) ==
  Begins(j, <<Clone, [version |-> IncrementPatch(Base), intent |-> "comparative"]>>)
BuildFirstPhysicalTest(j) == Begins(j, FirstPhysicalTestPlans)
BuildBankProbeSet(j) == Begins(j, BankProbePlans)
BuildNetworkBankSet(j) ==
  Begins(j, <<[BankProbePlans[1] EXCEPT !.intent = "network"], BankProbePlans[2]>>)

(* PlatformIO removes what it built before. *)
Cleans(j) ==
  /\ at[j] = "clean" /\ built' = NoImage /\ at' = [at EXCEPT ![j] = "compile"]
  /\ UNCHANGED <<catalog, todo, taken>>

Compiles(j) ==
  /\ at[j] = "compile" /\ built' = Head(todo[j]) /\ at' = [at EXCEPT ![j] = "copy"]
  /\ UNCHANGED <<catalog, todo, taken>>

(* A failed call of PlatformIO, or no image where it should be, ends the   *)
(* command.                                                                *)
Gives(j) ==
  /\ at[j] \in {"clean", "compile"} \/ (at[j] = "copy" /\ built = NoImage)
  /\ at' = [at EXCEPT ![j] = "idle"] /\ todo' = [todo EXCEPT ![j] = <<>>]
  /\ UNCHANGED <<catalog, built, taken>>

(* The image is copied out of the folder and hashed. *)
Copies(j) ==
  /\ at[j] = "copy" /\ built # NoImage
  /\ taken' = [taken EXCEPT ![j] = built] /\ at' = [at EXCEPT ![j] = "import"]
  /\ UNCHANGED <<catalog, built, todo>>

Add(image, label) ==
  catalog' = IF \E e \in catalog : e.image = image THEN catalog
             ELSE catalog \cup {[image |-> image, label |-> label]}

(* SLIP: the names of the last plan, for all of them *)
LabelsByLast(j) == Last(todo[j])

Labels(j) == Head(todo[j])

(* An image the catalog knows keeps the entry it has. *)
Imports(j) ==
  /\ at[j] = "import"
  /\ Add(taken[j], Labels(j))
  /\ todo' = [todo EXCEPT ![j] = Tail(@)]
  /\ at' = [at EXCEPT ![j] = IF Len(todo[j]) = 1 THEN "idle" ELSE "clean"]
  /\ taken' = [taken EXCEPT ![j] = NoImage]
  /\ UNCHANGED built

(* The operator imports an image from elsewhere, or deletes an entry. *)
ByHand ==
  /\ HandMade
  /\ \/ \E v \in Hand : LET p == [version |-> v, intent |-> "hand"] IN Add(p, p)
     \/ \E e \in catalog : catalog' = catalog \ {e}
  /\ UNCHANGED <<built, todo, at, taken>>

Step ==
  \/ \E j \in Jobs : \/ BuildSituational(j) \/ BuildFirstPhysicalTest(j)
                     \/ BuildBankProbeSet(j) \/ BuildNetworkBankSet(j)
                     \/ Cleans(j) \/ Compiles(j) \/ Gives(j) \/ Copies(j) \/ Imports(j)
  \/ ByHand

Meets == mixed' = (mixed \/ Cardinality({j \in Jobs : at'[j] # "idle"}) > 1)

Next == Step /\ Meets

Spec == Init /\ [][Next]_vars

-----------------------------------------------------------------------------
(* As long as commands follow one another, an entry of the catalog says    *)
(* what its image is, whatever plans are compiled in the one folder, fail  *)
(* and are imported by hand meanwhile: a node asked for one version is not *)
(* sent another.  (Two at the same time mix up their images.)              *)
CatalogSaysBuilt == ~mixed => \A e \in catalog : e.label = e.image

(* The image built to try an update is newer than everything the catalog   *)
(* lists for the node when the command plans it.                           *)
SuggestedIsNewer ==
  [][\A j \in Jobs :
       (todo[j] = <<>> /\ todo'[j] # <<>> /\ Last(todo'[j]).intent = "probe")
         => \A v \in Listed \cup {Base} : Less(v, Last(todo'[j]).version)]_vars

(* The integer that nodes compare grows with the version. *)
CodeFollowsVersion == \A u, v \in Listed : Less(u, v) => Code(u) < Code(v)
=============================================================================
