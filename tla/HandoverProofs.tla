--------------------------- MODULE HandoverProofs ---------------------------
(***************************************************************************)
(* Proofs about Handover: the types for every instance, and, for an addon  *)
(* that runs on one cluster, that the cluster is never without the addon   *)
(* and that the catalog leaves migration mode only when the addon has      *)
(* moved; any number of migrations, pull requests and failures.            *)
(***************************************************************************)
EXTENDS Handover, TLAPS

OneCluster == \A c, d \in Clusters : c = d
Reachable  == "unreachable" \notin Faults

PRStep == {3, 5, LastStep}
Aim(s) == IF s = 3 THEN "new" ELSE IF s = 5 THEN "old" ELSE "catalog"
Undoing == {"undo", "undoDrafted", "undoOpened"}

(***************************************************************************)
(* Where the goroutine and the rollback stand.                             *)
(***************************************************************************)
PlaceInv ==
    /\ main = [f \in Files |-> main[f]]
    /\ draft # NoDraft => draft.file \in Files
    /\ at # "rest" => mig \in Record
    /\ at \in {"exec", "drafted", "opened"} => mig.status = "running"
    /\ at = "drafted" => mig.cur \in PRStep /\ draft # NoDraft /\ draft.file = Aim(mig.cur)
    /\ at = "opened" \/ mig.status = "waiting" =>
          mig.cur \in PRStep /\ mig.pr \in PRs /\ prs[mig.pr] # Nothing
                             /\ prs[mig.pr].file = Aim(mig.cur)
    /\ at = "undoDrafted" => draft # NoDraft
    /\ at = "undoOpened" => mig.pr \in PRs /\ prs[mig.pr] # Nothing
    /\ at \in Undoing => undone /\ mig.status \in {"failed", "cancelled"}

(***************************************************************************)
(* What the world is like, on cluster c, until somebody rolls back.        *)
(***************************************************************************)
Enabled(c)   == main.new[c] = "enabled"
Created(c)   == Enabled(c) /\ apps.new[c] # "none"
Disabled(c)  == main.old[c] = "disabled" /\ Created(c)
Removed(c)   == Disabled(c) /\ (Reachable => apps.old[c] = "none")
Moved(c)     == Removed(c) /\ apps.new[c] = "healthy"

\* what a change of file f that is under way takes for granted
Granted(f, c) ==
    /\ f = "old" => Created(c)
    /\ f = "catalog" => Moved(c)

\* file f with the change of the migration's step made to it
Target(f) == CASE f = "new" -> "enabled" [] f = "old" -> "disabled" [] f = "catalog" -> "done"
Made(f, content, c) == content[IF f = "catalog" THEN "addon" ELSE c] = Target(f)

MainInv(c) ==
    /\ main.old[c] \in {"enabled", "disabled"}
    /\ apps.old[c] = "none" => Disabled(c)
    /\ main.old[c] = "disabled" => Disabled(c)
    /\ main.catalog.addon = "done" => Moved(c)
DraftInv(c) ==
    draft # NoDraft => Made(draft.file, draft.content, c) /\ Granted(draft.file, c)
PRInv(c) ==
    \A p \in PRs : prs[p] # Nothing =>
        /\ Made(prs[p].file, prs[p].content, c) /\ Granted(prs[p].file, c)
        /\ Made(prs[p].file, prs[p].base, c) => Made(prs[p].file, main[prs[p].file], c)
RecordInv(c) ==
    mig \in Record =>
        /\ mig.cur > 3 => Enabled(c)
        /\ mig.cur > 4 => Created(c)
        /\ mig.cur > 5 => Disabled(c)
        /\ mig.cur > 7 => Removed(c)
        /\ mig.cur > 9 => Moved(c)

HInv == HandoverTypeOK /\ PlaceInv
WorldInv(c) == MainInv(c) /\ DraftInv(c) /\ PRInv(c) /\ RecordInv(c)
MoveInv == OneCluster /\ ~undone => \A c \in Clusters : WorldInv(c)

(***************************************************************************)
(* The operators on files and pull requests.                               *)
(***************************************************************************)
Key(f, c) == IF f = "catalog" THEN "addon" ELSE c

LEMMA ChangeOf ==
    ASSUME NEW s \in PRStep
    PROVE  /\ Aim(s) \in Files
           /\ Change(s).file = Aim(s) /\ Change(s).value = Target(Aim(s))
BY DEF PRStep, Aim, Change, Target, Files, LastStep

LEMMA ReversalOf ==
    ASSUME NEW s \in {3, 5}
    PROVE  Reversal(s).file \in {"new", "old"} /\ Reversal(s).value \in Labels
BY DEF Reversal, Labels

\* Setting one entry of a file gives a file with that entry.
LEMMA EditedTyped ==
    ASSUME NEW f \in Files, NEW c \in Clusters, NEW v, main[f] \in Content(f),
           f = "catalog" => v \in {"inMigration", "done"},
           f # "catalog" => v \in Labels
    PROVE  /\ Edited(f, c, v) \in Content(f)
           /\ Edited(f, c, v)[Key(f, c)] = v
BY DEF Edited, Content, Key

LEMMA PRTyped ==
    ASSUME NEW f \in Files, NEW b \in Content(f), NEW n \in Content(f), NEW s \in {"open", "merged"}
    PROVE  [file |-> f, base |-> b, content |-> n, status |-> s] \in PullRequest
<1> [file |-> f, base |-> b, content |-> n, status |-> s]
       \in [file : {f}, base : Content(f), content : Content(f), status : {"open", "merged"}]
  OBVIOUS
<1> QED
  BY DEF PullRequest

LEMMA PRFields ==
    ASSUME NEW r \in PullRequest
    PROVE  /\ r.file \in Files /\ r.base \in Content(r.file) /\ r.content \in Content(r.file)
           /\ r.status \in {"open", "merged"} /\ r # Nothing
           /\ r = [file |-> r.file, base |-> r.base, content |-> r.content, status |-> r.status]
<1>1. PICK f \in Files : r \in [file : {f}, base : Content(f), content : Content(f),
                                status : {"open", "merged"}]
  BY DEF PullRequest
<1> QED
  BY <1>1 DEF Nothing

(***************************************************************************)
(* Types of the world, whoever changes it.                                 *)
(***************************************************************************)
WorldOK ==
    /\ main = [f \in Files |-> main[f]]
    /\ \A f \in Files : main[f] \in Content(f)
    /\ prs \in [PRs -> PullRequest \cup {Nothing}]
    /\ apps \in [{"new", "old"} -> [Clusters -> App]]

\* A pull request stays, and stays the one it is.
PRsLast == \A p \in PRs : prs[p] # Nothing => prs'[p] # Nothing /\ prs'[p].file = prs[p].file

LEMMA StillOK == WorldOK /\ UNCHANGED world => WorldOK' /\ PRsLast
BY DEF WorldOK, PRsLast, world

LEMMA MergeOK ==
    ASSUME WorldOK, NEW p \in PRs, Merge(p), UNCHANGED apps
    PROVE  WorldOK' /\ PRsLast
<1> DEFINE r == prs[p]
<1>1. r \in PullRequest /\ r.status = "open"
  BY DEF Merge, Mergeable, WorldOK, Nothing
<1>2. /\ r.file \in Files /\ r.base \in Content(r.file) /\ r.content \in Content(r.file)
      /\ r = [file |-> r.file, base |-> r.base, content |-> r.content, status |-> r.status]
  BY <1>1, PRFields
<1>3. prs'[p] = [r EXCEPT !.status = "merged"] /\ \A q \in PRs : q # p => prs'[q] = prs[q]
  BY DEF Merge, WorldOK
<1>4. prs'[p] = [file |-> r.file, base |-> r.base, content |-> r.content, status |-> "merged"]
  BY <1>2, <1>3
<1>5. prs'[p] \in PullRequest /\ prs'[p].file = r.file
  <2>1. [file |-> r.file, base |-> r.base, content |-> r.content, status |-> "merged"] \in PullRequest
    BY <1>2, PRTyped
  <2> HIDE DEF r
  <2> QED
    BY <1>4, <2>1
<1>6. prs' \in [PRs -> PullRequest \cup {Nothing}]
  BY <1>5 DEF Merge, WorldOK
<1>7. PRsLast
  BY <1>3, <1>5, PRFields DEF PRsLast
<1>8. DOMAIN main[r.file] = DOMAIN r.base /\ DOMAIN r.base = DOMAIN r.content
  BY <1>2 DEF Content, WorldOK
<1>9. [e \in DOMAIN main[r.file] |-> IF e \in Touched(r) THEN r.content[e] ELSE main[r.file][e]]
         \in Content(r.file)
  BY <1>2, <1>8 DEF Content, WorldOK
<1>10. main' = [main EXCEPT ![r.file] =
                   [e \in DOMAIN main[r.file] |-> IF e \in Touched(r) THEN r.content[e] ELSE main[r.file][e]]]
  BY DEF Merge
<1>11. main' = [f \in Files |-> main'[f]] /\ \A f \in Files : main'[f] \in Content(f)
  BY <1>2, <1>9, <1>10 DEF WorldOK
<1> QED
  BY <1>6, <1>7, <1>11 DEF WorldOK

LEMMA OpenOK ==
    ASSUME WorldOK, NEW p \in PRs, Open(p), UNCHANGED <<main, apps>>,
           draft.file \in Files, draft.content \in Content(draft.file)
    PROVE  /\ WorldOK' /\ PRsLast
           /\ prs'[p] # Nothing /\ prs'[p].file = draft.file
<1> DEFINE r == [file |-> draft.file, base |-> main[draft.file],
                 content |-> draft.content, status |-> "open"]
<1>1. r \in PullRequest
  BY PRTyped DEF WorldOK
<1>2. prs' = [prs EXCEPT ![p] = r] /\ prs[p] = Nothing
  BY DEF Open
<1>3. prs'[p] = r /\ r # Nothing /\ r.file = draft.file
  BY <1>1, <1>2, PRFields DEF WorldOK
<1> QED
  BY <1>1, <1>2, <1>3 DEF WorldOK, PRsLast

LEMMA SetAppOK ==
    ASSUME WorldOK, NEW a \in {"new", "old"}, NEW c \in Clusters, NEW s \in App, SetApp(a, c, s)
    PROVE  WorldOK' /\ PRsLast
BY DEF WorldOK, PRsLast, SetApp

(***************************************************************************)
(* Types of the migration, its goroutine and its rollback.                 *)
(***************************************************************************)
RunOK ==
    /\ mig \in Record \cup {Nothing}
    /\ at \in Places
    /\ draft = NoDraft \/ (draft.file \in Files /\ draft.content \in Content(draft.file))
    /\ todo \subseteq {3, 5}
    /\ errors \in BOOLEAN
    /\ undone \in BOOLEAN
    /\ started \in 0..MaxMigrations

\* PlaceInv without the world, given that pull requests last
StandOK ==
    /\ at # "rest" => mig \in Record
    /\ at \in {"exec", "drafted", "opened"} => mig.status = "running"
    /\ at = "drafted" => mig.cur \in PRStep /\ draft # NoDraft /\ draft.file = Aim(mig.cur)
    /\ at = "opened" \/ mig.status = "waiting" =>
          mig.cur \in PRStep /\ mig.pr \in PRs /\ prs[mig.pr] # Nothing
                             /\ prs[mig.pr].file = Aim(mig.cur)
    /\ at = "undoDrafted" => draft # NoDraft
    /\ at = "undoOpened" => mig.pr \in PRs /\ prs[mig.pr] # Nothing
    /\ at \in Undoing => undone /\ mig.status \in {"failed", "cancelled"}

LEMMA InvParts == HInv <=> WorldOK /\ RunOK /\ StandOK
BY DEF HInv, HandoverTypeOK, PlaceInv, WorldOK, RunOK, StandOK, NoDraft

LEMMA InvJoins == WorldOK' /\ RunOK' /\ StandOK' => HInv'
BY DEF HInv, HandoverTypeOK, PlaceInv, WorldOK, RunOK, StandOK, NoDraft

LEMMA RecordFields ==
    ASSUME NEW r \in Record
    PROVE  /\ r.cluster \in Clusters /\ r.mode \in Modes
           /\ r.cur \in 1..11 /\ r.cur \in Int /\ r.pr \in 0..MaxPRs
           /\ r.status \in {"running", "waiting", "gated", "completed", "failed",
                            "cancelled", "rolled_back"}
           /\ r # Nothing
BY HandoverAssumption DEF Record, LastStep, Nothing

LEMMA RecordSet ==
    ASSUME NEW r \in Record, NEW pr \in 0..MaxPRs,
           NEW st \in {"running", "waiting", "gated", "completed", "failed", "cancelled", "rolled_back"}
    PROVE  /\ [r EXCEPT !.pr = pr, !.status = st] \in Record
           /\ [r EXCEPT !.status = st] \in Record
           /\ [r EXCEPT !.pr = pr] \in Record
<1>1. [r EXCEPT !.pr = pr, !.status = st] \in Record
  BY DEF Record
<1>2. [r EXCEPT !.status = st] \in Record
  BY DEF Record
<1>3. [r EXCEPT !.pr = pr] \in Record
  BY DEF Record
<1> QED
  BY <1>1, <1>2, <1>3

LEMMA RecordStep ==
    ASSUME NEW r \in Record, NEW cur \in 1..(LastStep + 1), NEW pr \in 0..MaxPRs,
           NEW st \in {"running", "waiting", "gated", "completed", "failed", "cancelled", "rolled_back"}
    PROVE  [r EXCEPT !.cur = cur, !.pr = pr, !.status = st] \in Record
<1> DEFINE x == [r EXCEPT !.cur = cur, !.pr = pr]
<1>1. x \in Record
  BY DEF Record
<1>2. [r EXCEPT !.cur = cur, !.pr = pr, !.status = st] = [x EXCEPT !.status = st]
  BY DEF Record
<1>3. [x EXCEPT !.status = st] \in Record
  BY <1>1 DEF Record
<1> QED
  BY <1>2, <1>3

\* The goroutine passes step s.
LEMMA PassOK ==
    ASSUME HInv, NEW s \in 1..LastStep, Pass(s), at \in {"exec", "opened"},
           WorldOK', PRsLast
    PROVE  /\ HInv'
           /\ mig \in Record /\ mig' \in Record
           /\ mig.cur = s /\ mig'.cur = s + 1 /\ draft' = NoDraft /\ undone' = undone
<1>0. mig \in Record /\ WorldOK /\ RunOK /\ StandOK
  BY InvParts DEF StandOK
<1>1. /\ mig'.cur = s + 1 /\ mig'.status \in {"gated", "running"}
      /\ at' \in {"rest", "exec"} /\ (at' # "rest" => mig'.status = "running")
  BY <1>0 DEF Pass, Record
<1>2. mig' \in Record
  <2>1. s + 1 \in 1..(LastStep + 1) /\ 0 \in 0..MaxPRs
    BY HandoverAssumption DEF LastStep
  <2> QED
    BY <1>0, <2>1, RecordStep DEF Pass
<1>3. RunOK'
  BY <1>0, <1>1, <1>2 DEF RunOK, Pass, rollback, Places
<1>4. StandOK'
  BY <1>1, <1>2 DEF StandOK, Undoing
<1> QED
  BY <1>0, <1>1, <1>2, <1>3, <1>4, InvJoins DEF Pass, rollback

\* The goroutine comes to rest.
LEMMA RestOK ==
    ASSUME NEW st \in {"completed", "failed", "cancelled"},
           HInv, mig \in Record, Rest(st), at \notin Undoing,
           WorldOK', PRsLast
    PROVE  /\ HInv' /\ mig' \in Record /\ mig'.cur = mig.cur
           /\ draft' = NoDraft /\ undone' = undone
<1>0. WorldOK /\ RunOK /\ StandOK
  BY InvParts
<1>1. mig' = [mig EXCEPT !.status = st, !.pr = 0]
  BY DEF Rest
<1>2. mig' = [mig EXCEPT !.pr = 0, !.status = st]
  BY <1>1 DEF Record
<1>3. mig' \in Record /\ mig'.status = st /\ mig'.cur = mig.cur
  <2>1. 0 \in 0..MaxPRs
    BY HandoverAssumption
  <2>2. mig' \in Record
    <3>1. st \in {"running", "waiting", "gated", "completed", "failed", "cancelled", "rolled_back"}
      OBVIOUS
    <3>2. [mig EXCEPT !.pr = 0, !.status = st] \in Record
      BY <2>1, <3>1, RecordSet
    <3> QED
      BY <1>2, <3>2
  <2> QED
    BY <1>1, <2>2 DEF Record
<1>4. RunOK'
  BY <1>0, <1>3 DEF RunOK, Rest, rollback, Places
<1>5. StandOK'
  BY <1>3 DEF StandOK, Rest, Undoing
<1> QED
  BY <1>3, <1>4, <1>5, InvJoins DEF Rest, rollback

\* Nothing of the migration changes.
LEMMA WorldOnlyOK ==
    ASSUME HInv, UNCHANGED <<mig, at, draft, rollback, started>>, WorldOK', PRsLast
    PROVE  HInv'
<1>1. RunOK /\ StandOK
  BY InvParts
<1>2. RunOK' /\ StandOK'
  BY <1>1 DEF RunOK, StandOK, PRsLast, rollback
<1> QED
  BY <1>2, InvJoins

(***************************************************************************)
(* The world goes onward: nothing that holds of cluster c is taken back.   *)
(***************************************************************************)
Onward(c) ==
    /\ Enabled(c) => Enabled(c)'
    /\ Created(c) => Created(c)'
    /\ Disabled(c) => Disabled(c)'
    /\ Removed(c) => Removed(c)'
    /\ Moved(c) => Moved(c)'
    /\ \A f \in Files : Made(f, main[f], c) => Made(f, main'[f], c)
    /\ MainInv(c)'

LEMMA StillOnward ==
    ASSUME NEW c, MainInv(c), UNCHANGED <<main, apps>>
    PROVE  Onward(c)
BY DEF Onward, MainInv, Enabled, Created, Disabled, Removed, Moved

LEMMA DraftOnward ==
    ASSUME NEW c, DraftInv(c), Onward(c), draft' \in {draft, NoDraft}
    PROVE  DraftInv(c)'
<1>1. CASE draft' = NoDraft
  BY <1>1 DEF DraftInv, NoDraft
<1>2. CASE draft' = draft
  BY <1>2 DEF DraftInv, Onward, Granted
<1> QED
  BY <1>1, <1>2

LEMMA PRsOnward ==
    ASSUME NEW c, WorldOK, PRInv(c), Onward(c), UNCHANGED prs
    PROVE  PRInv(c)'
<1> SUFFICES ASSUME NEW p \in PRs, prs[p] # Nothing
             PROVE  /\ Granted(prs[p].file, c)'
                    /\ Made(prs[p].file, prs[p].content, c)
                    /\ Made(prs[p].file, prs[p].base, c) => Made(prs[p].file, main'[prs[p].file], c)
  BY DEF PRInv, Granted
<1>1. prs[p].file \in Files
  BY PRFields DEF WorldOK
<1> QED
  BY <1>1 DEF PRInv, Granted, Onward

LEMMA RecordOnward ==
    ASSUME NEW c, RecordInv(c), Onward(c), mig \in Record, mig'.cur \in Int, mig'.cur <= mig.cur
    PROVE  RecordInv(c)'
BY RecordFields DEF RecordInv, Onward

LEMMA MergeOnward ==
    ASSUME NEW c \in Clusters, WorldOK, MainInv(c), PRInv(c),
           NEW p \in PRs, Merge(p), UNCHANGED apps
    PROVE  /\ Onward(c)
           /\ Made(prs[p].file, main'[prs[p].file], c)
           /\ PRInv(c)'
<1> DEFINE r == prs[p]
<1> DEFINE k == Key(r.file, c)
<1>1. r \in PullRequest
  BY DEF Merge, Mergeable, WorldOK, Nothing
<1>2. /\ r.file \in Files /\ r.base \in Content(r.file) /\ r.content \in Content(r.file)
      /\ r # Nothing /\ main[r.file] \in Content(r.file)
  BY <1>1, PRFields DEF WorldOK
<1>3. /\ Made(r.file, r.content, c) /\ Granted(r.file, c)
      /\ Made(r.file, r.base, c) => Made(r.file, main[r.file], c)
  BY <1>2 DEF PRInv
<1>4. k \in DOMAIN main[r.file] /\ k \in DOMAIN r.base
  BY <1>2 DEF Content, Key
<1>5. \A f \in Files : f # r.file => main'[f] = main[f]
  BY <1>2 DEF Merge, WorldOK
<1>6. main'[r.file][k] = IF k \in Touched(r) THEN r.content[k] ELSE main[r.file][k]
  BY <1>2, <1>4 DEF Merge, WorldOK
<1>7. Made(r.file, main'[r.file], c)
  BY <1>3, <1>4, <1>6 DEF Touched, Made, Key
<1>8. \A f \in Files : Made(f, main[f], c) => Made(f, main'[f], c)
  BY <1>5, <1>7
<1>9. Onward(c)
  <2>1. /\ main.new[c] = "enabled" => main'.new[c] = "enabled"
        /\ main.old[c] = "disabled" => main'.old[c] = "disabled"
        /\ main'.old[c] = "disabled" => main.old[c] = "disabled" \/ Created(c)
        /\ main'.catalog.addon = "done" => main.catalog.addon = "done" \/ Moved(c)
        /\ main'.old[c] \in {main.old[c], "disabled"}
    <3>1. /\ main.new[c] = "enabled" => main'.new[c] = "enabled"
          /\ main.old[c] = "disabled" => main'.old[c] = "disabled"
      BY <1>8 DEF Made, Target, Files
    <3>2. main'.old[c] = "disabled" => main.old[c] = "disabled" \/ Created(c)
      BY <1>3, <1>5 DEF Granted, Files
    <3>3. main'.catalog.addon = "done" => main.catalog.addon = "done" \/ Moved(c)
      BY <1>3, <1>5 DEF Granted, Files
    <3>4. main'.old[c] \in {main.old[c], "disabled"}
      BY <1>5, <1>7 DEF Made, Target, Files
    <3> QED
      BY <3>1, <3>2, <3>3, <3>4
  <2> HIDE DEF r, k
  <2> QED
    BY <1>8, <2>1 DEF Onward, MainInv, Enabled, Created, Disabled, Removed, Moved
<1>10. PRInv(c)'
  <2> SUFFICES ASSUME NEW q \in PRs, prs'[q] # Nothing
               PROVE  /\ Granted(prs[q].file, c)'
                      /\ Made(prs'[q].file, prs'[q].content, c)
                      /\ Made(prs'[q].file, prs'[q].base, c) => Made(prs'[q].file, main'[prs'[q].file], c)
    BY DEF PRInv, Granted
  <2>1. prs[q] # Nothing /\ prs'[q].file = prs[q].file
        /\ prs'[q].base = prs[q].base /\ prs'[q].content = prs[q].content
    <3>1. CASE q = p
      <4>1. prs'[p] = [r EXCEPT !.status = "merged"]
        BY DEF Merge, WorldOK
      <4>2. prs'[p] = [file |-> r.file, base |-> r.base, content |-> r.content, status |-> "merged"]
        BY <1>1, <4>1, PRFields
      <4> QED
        BY <1>2, <3>1, <4>2
    <3>2. CASE q # p
      BY <3>2 DEF Merge, WorldOK
    <3> QED
      BY <3>1, <3>2
  <2>2. prs[q].file \in Files
    BY <2>1, PRFields DEF WorldOK
  <2> QED
    BY <1>8, <1>9, <2>1, <2>2 DEF PRInv, Granted, Onward
<1> QED
  BY <1>7, <1>9, <1>10

\* A pull request is opened with the draft.
LEMMA OpenOnward ==
    ASSUME NEW c, WorldOK, MainInv(c), PRInv(c), DraftInv(c), draft # NoDraft,
           draft.file \in Files, draft.content \in Content(draft.file),
           NEW p \in PRs, Open(p), UNCHANGED <<main, apps>>
    PROVE  Onward(c) /\ PRInv(c)'
<1>1. Onward(c)
  BY StillOnward
<1>2. PRInv(c)'
  <2> SUFFICES ASSUME NEW q \in PRs, prs'[q] # Nothing
               PROVE  /\ Granted(prs[q].file, c)'
                      /\ Made(prs'[q].file, prs'[q].content, c)
                      /\ Made(prs'[q].file, prs'[q].base, c) => Made(prs'[q].file, main'[prs'[q].file], c)
    BY DEF PRInv, Granted
  <2>1. CASE q = p
    <3>1. prs'[p] = [file |-> draft.file, base |-> main[draft.file],
                     content |-> draft.content, status |-> "open"]
      BY DEF Open, WorldOK
    <3> QED
      BY <1>1, <2>1, <3>1 DEF DraftInv, Granted, Onward
  <2>2. CASE q # p
    <3>1. prs'[q] = prs[q]
      BY <2>2 DEF Open, WorldOK
    <3>2. prs[q].file \in Files
      BY <3>1, PRFields DEF WorldOK
    <3> QED
      BY <1>1, <3>1, <3>2 DEF PRInv, Granted, Onward
  <2> QED
    BY <2>1, <2>2
<1> QED
  BY <1>1, <1>2

\* Each ArgoCD follows its repository.
LEMMA SyncOnward ==
    ASSUME NEW c \in Clusters, OneCluster, WorldOK, MainInv(c),
           NEW d \in Clusters, NewSync(d) \/ OldSync(d)
    PROVE  Onward(c)
<1>1. c = d
  BY DEF OneCluster
<1>2. CASE NewSync(c)
  <2>1. main' = main /\ apps'.old = apps.old
    BY <1>2 DEF NewSync, SetApp, WorldOK
  <2>2. Enabled(c) => apps'.new[c] # "none" /\ (apps.new[c] # "none" => apps'.new[c] = "healthy")
    BY <1>2 DEF NewSync, SetApp, WorldOK, Enabled
  <2> QED
    BY <2>1, <2>2 DEF Onward, MainInv, Enabled, Created, Disabled, Removed, Moved
<1>3. CASE OldSync(c)
  <2>1. main' = main /\ apps'.new = apps.new
    BY <1>3 DEF OldSync, SetApp, WorldOK
  <2>2. apps'.old[c] = IF main.old[c] = "enabled" THEN "healthy" ELSE "none"
    BY <1>3 DEF OldSync, SetApp, WorldOK
  <2> QED
    BY <2>1, <2>2 DEF Onward, MainInv, Enabled, Created, Disabled, Removed, Moved
<1> QED
  BY <1>1, <1>2, <1>3

(***************************************************************************)
(* The goroutine's steps.                                                  *)
(***************************************************************************)
Kept == HInv' /\ MoveInv'

\* Cluster c before anybody rolled back.
Concerns(c) == OneCluster /\ ~undone /\ c \in Clusters

\* What the completion of step s adds.
Earned(s, c) ==
    /\ s = 3 => Enabled(c)'
    /\ s = 4 => Created(c)'
    /\ s = 5 => Disabled(c)'
    /\ s = 7 => Removed(c)'
    /\ s = 9 => Moved(c)'

LEMMA Here ==
    ASSUME MoveInv, NEW c, Concerns(c)
    PROVE  c \in Clusters /\ MainInv(c) /\ DraftInv(c) /\ PRInv(c) /\ RecordInv(c)
BY DEF MoveInv, Concerns, WorldInv

LEMMA MoveJoins ==
    ASSUME undone' = undone,
           \A c : Concerns(c) => MainInv(c)' /\ DraftInv(c)' /\ PRInv(c)' /\ RecordInv(c)'
    PROVE  MoveInv'
BY DEF MoveInv, Concerns, WorldInv

\* The one cluster is the migration's.
LEMMA HereIsThere ==
    ASSUME NEW c, Concerns(c), mig \in Record
    PROVE  mig.cluster = c
BY RecordFields DEF Concerns, OneCluster

LEMMA PassKept ==
    ASSUME HInv, MoveInv, NEW s \in 1..LastStep, Pass(s), at \in {"exec", "opened"},
           WorldOK', PRsLast,
           \A c : Concerns(c) => Onward(c) /\ PRInv(c)' /\ Earned(s, c)
    PROVE  Kept
<1>1. /\ HInv' /\ mig \in Record /\ mig' \in Record
      /\ mig.cur = s /\ mig'.cur = s + 1 /\ draft' = NoDraft /\ undone' = undone
  BY PassOK
<1>2. ASSUME NEW c, Concerns(c)
      PROVE  MainInv(c)' /\ DraftInv(c)' /\ PRInv(c)' /\ RecordInv(c)'
  <2>1. Onward(c) /\ PRInv(c)' /\ Earned(s, c) /\ DraftInv(c) /\ RecordInv(c)
    BY <1>2, Here
  <2>2. DraftInv(c)'
    BY <1>1, <2>1, DraftOnward
  <2>3. RecordInv(c)'
    <3>1. s \in Int
      BY DEF LastStep
    <3> QED
      BY <1>1, <2>1, <3>1 DEF RecordInv, Earned, Onward
  <2> QED
    BY <2>1, <2>2, <2>3 DEF Onward
<1>3. MoveInv'
  BY <1>1, <1>2, MoveJoins
<1> QED
  BY <1>1, <1>3 DEF Kept

LEMMA PassStillKept ==
    ASSUME HInv, MoveInv, NEW s \in 1..LastStep, Pass(s), at = "exec", UNCHANGED world,
           \A c : Concerns(c) /\ mig \in Record /\ mig.cur = s => Earned(s, c)
    PROVE  Kept
<1>1. WorldOK /\ mig \in Record /\ mig.cur = s
  BY InvParts DEF StandOK, Pass
<1>2. WorldOK' /\ PRsLast
  BY <1>1, StillOK
<1>3. ASSUME NEW c, Concerns(c)
      PROVE  Onward(c) /\ PRInv(c)' /\ Earned(s, c)
  <2>1. Onward(c)
    BY <1>3, Here, StillOnward DEF world
  <2>2. PRInv(c)'
    BY <1>1, <1>3, <2>1, Here, PRsOnward DEF world
  <2> QED
    BY <1>1, <1>3, <2>1, <2>2
<1> QED
  BY <1>2, <1>3, PassKept

LEMMA RestKept ==
    ASSUME HInv, MoveInv, NEW st \in {"completed", "failed", "cancelled"}, Rest(st),
           mig \in Record, at \notin Undoing, WorldOK', PRsLast,
           \A c : Concerns(c) => Onward(c) /\ PRInv(c)'
    PROVE  Kept
<1>1. HInv' /\ mig' \in Record /\ mig'.cur = mig.cur /\ draft' = NoDraft /\ undone' = undone
  BY RestOK
<1>2. ASSUME NEW c, Concerns(c)
      PROVE  MainInv(c)' /\ DraftInv(c)' /\ PRInv(c)' /\ RecordInv(c)'
  <2>1. Onward(c) /\ PRInv(c)' /\ DraftInv(c) /\ RecordInv(c)
    BY <1>2, Here
  <2>2. DraftInv(c)' /\ RecordInv(c)'
    BY <1>1, <2>1, DraftOnward, RecordOnward, RecordFields
  <2> QED
    BY <2>1, <2>2 DEF Onward
<1> QED
  BY <1>1, <1>2, MoveJoins DEF Kept

LEMMA RestStillKept ==
    ASSUME HInv, MoveInv, NEW st \in {"completed", "failed", "cancelled"}, Rest(st),
           mig \in Record, at \notin Undoing, UNCHANGED world
    PROVE  Kept
<1>1. WorldOK /\ WorldOK' /\ PRsLast
  BY InvParts, StillOK
<1>2. ASSUME NEW c, Concerns(c)
      PROVE  Onward(c) /\ PRInv(c)'
  BY <1>1, <1>2, Here, StillOnward, PRsOnward DEF world
<1> QED
  BY <1>1, <1>2, RestKept

\* The record, the place or the draft changes, the world does not.
LEMMA WorldStillKept ==
    ASSUME HInv, MoveInv, UNCHANGED world, undone' = undone,
           RunOK', StandOK', draft' \in {draft, NoDraft},
           mig \in Record, mig'.cur \in Int, mig'.cur <= mig.cur
    PROVE  Kept
<1>1. WorldOK /\ WorldOK'
  BY InvParts, StillOK
<1>2. ASSUME NEW c, Concerns(c)
      PROVE  MainInv(c)' /\ DraftInv(c)' /\ PRInv(c)' /\ RecordInv(c)'
  <2>1. Onward(c) /\ DraftInv(c) /\ RecordInv(c)
    BY <1>2, Here, StillOnward DEF world
  <2>2. PRInv(c)'
    BY <1>1, <1>2, <2>1, Here, PRsOnward DEF world
  <2>3. DraftInv(c)' /\ RecordInv(c)'
    BY <2>1, DraftOnward, RecordOnward
  <2> QED
    BY <2>1, <2>2, <2>3 DEF Onward
<1> QED
  BY <1>1, <1>2, InvJoins, MoveJoins DEF Kept

LEMMA AtWork ==
    ASSUME HInv, at # "rest"
    PROVE  WorldOK /\ RunOK /\ StandOK /\ mig \in Record /\ mig.cur \in 1..11
BY InvParts, RecordFields DEF StandOK

LEMMA PlainStepsKept ==
    ASSUME HInv, MoveInv,
           VerifyCatalog \/ CompareValues \/ SyncOld \/ RefreshNew \/ StepFails \/ Finish
    PROVE  Kept
<1>1. /\ UNCHANGED world /\ at \in {"exec", "drafted"}
      /\ \/ \E s \in {1, 2, 6, 8} : at = "exec" /\ Pass(s)
         \/ \E st \in {"completed", "failed"} : Rest(st)
  BY DEF VerifyCatalog, CompareValues, SyncOld, RefreshNew, StepFails, Finish
<1>2. ASSUME NEW s \in {1, 2, 6, 8}, at = "exec", Pass(s)
      PROVE  Kept
  BY <1>1, <1>2, PassStillKept DEF Earned, LastStep
<1>3. ASSUME NEW st \in {"completed", "failed"}, Rest(st)
      PROVE  Kept
  BY <1>1, <1>3, AtWork, RestStillKept DEF Undoing
<1> QED
  BY <1>1, <1>2, <1>3

LEMMA SkipPRKept ==
    ASSUME HInv, MoveInv, SkipPR
    PROVE  Kept
<1> DEFINE s == mig.cur
<1>1. at = "exec" /\ s \in {3, 5} /\ AlreadySet(s) /\ Pass(s) /\ UNCHANGED world
  BY DEF SkipPR
<1>2. ASSUME NEW c, Concerns(c), mig \in Record
      PROVE  Earned(s, c)
  <2>1. main[Aim(s)][c] = Target(Aim(s))
    BY <1>1, <1>2, HereIsThere, ChangeOf DEF AlreadySet, PRStep
  <2>2. UNCHANGED <<main, apps>> /\ MainInv(c)
    BY <1>1, <1>2, Here DEF world
  <2>3. CASE s = 3
    <3>1. main.new[c] = "enabled"
      BY <2>1, <2>3 DEF Aim, Target
    <3> QED
      BY <2>2, <2>3, <3>1 DEF Earned, Enabled
  <2>4. CASE s = 5
    <3>1. main.old[c] = "disabled"
      BY <2>1, <2>4 DEF Aim, Target
    <3>2. Disabled(c)
      BY <2>2, <3>1 DEF MainInv
    <3> QED
      BY <2>2, <2>4, <3>2 DEF Earned, Disabled, Created, Enabled
  <2> QED
    BY <1>1, <2>3, <2>4
<1>3. s \in 1..LastStep
  BY <1>1 DEF LastStep
<1> QED
  BY <1>1, <1>2, <1>3, PassStillKept

LEMMA VerifyAppCreatedKept ==
    ASSUME HInv, MoveInv, VerifyAppCreated
    PROVE  Kept
<1>1. at = "exec" /\ Pass(4) /\ UNCHANGED world /\ NewApp # "none"
  BY DEF VerifyAppCreated
<1>2. ASSUME NEW c, Concerns(c), mig \in Record, mig.cur = 4
      PROVE  Earned(4, c)
  <2>1. Enabled(c) /\ apps.new[c] # "none"
    BY <1>1, <1>2, Here, HereIsThere DEF RecordInv, NewApp
  <2> QED
    BY <1>1, <2>1 DEF Earned, Enabled, Created, world
<1> QED
  BY <1>1, <1>2, PassStillKept DEF LastStep

LEMMA VerifyRemovedKept ==
    ASSUME HInv, MoveInv, VerifyRemoved
    PROVE  Kept
<1>1. at = "exec" /\ Pass(7) /\ UNCHANGED world /\ (Reachable => OldApp = "none")
  BY DEF VerifyRemoved, Reachable
<1>2. ASSUME NEW c, Concerns(c), mig \in Record, mig.cur = 7
      PROVE  Earned(7, c)
  <2>1. Disabled(c) /\ (Reachable => apps.old[c] = "none")
    BY <1>1, <1>2, Here, HereIsThere DEF RecordInv, OldApp
  <2> QED
    BY <1>1, <2>1 DEF Earned, Enabled, Created, Disabled, Removed, world
<1> QED
  BY <1>1, <1>2, PassStillKept DEF LastStep

LEMMA VerifyHealthyKept ==
    ASSUME HInv, MoveInv, VerifyHealthy
    PROVE  Kept
<1>1. at = "exec" /\ Pass(9) /\ UNCHANGED world /\ NewApp = "healthy"
  BY DEF VerifyHealthy
<1>2. ASSUME NEW c, Concerns(c), mig \in Record, mig.cur = 9
      PROVE  Earned(9, c)
  <2>1. Removed(c) /\ apps.new[c] = "healthy"
    BY <1>1, <1>2, Here, HereIsThere DEF RecordInv, NewApp
  <2> QED
    BY <1>1, <2>1 DEF Earned, Enabled, Created, Disabled, Removed, Moved, world
<1> QED
  BY <1>1, <1>2, PassStillKept DEF LastStep

\* A draft is the file of the step's change, with the change made.
LEMMA PrepareKept ==
    ASSUME HInv, MoveInv, Prepare
    PROVE  Kept
<1> DEFINE s == mig.cur
<1> DEFINE new == Edited(Aim(s), mig.cluster, Target(Aim(s)))
<1>1. WorldOK /\ RunOK /\ StandOK /\ mig \in Record /\ mig.cluster \in Clusters /\ s \in PRStep
  BY AtWork, RecordFields DEF Prepare, PRStep
<1>2. draft' = [file |-> Aim(s), content |-> new] /\ at = "exec" /\ at' = "drafted"
      /\ UNCHANGED <<world, mig, rollback, started>>
  BY <1>1, ChangeOf DEF Prepare
<1>3. Aim(s) \in Files
  BY <1>1, ChangeOf
<1>4. new \in Content(Aim(s)) /\ new[Key(Aim(s), mig.cluster)] = Target(Aim(s))
  <2>1. /\ Aim(s) = "catalog" => Target(Aim(s)) \in {"inMigration", "done"}
        /\ Aim(s) # "catalog" => Target(Aim(s)) \in Labels
    BY <1>3 DEF Target, Labels, Files
  <2> QED
    BY <1>1, <1>3, <2>1, EditedTyped DEF WorldOK
<1>5. draft'.file = Aim(s) /\ draft'.content = new /\ draft' # NoDraft
  <2> HIDE DEF new
  <2> QED
    BY <1>2, <1>3 DEF NoDraft, Files
<1>6. HInv'
  <2>1. RunOK'
    BY <1>1, <1>2, <1>3, <1>4, <1>5 DEF RunOK, rollback, Places
  <2>2. StandOK'
    BY <1>1, <1>2, <1>5 DEF StandOK, rollback, world, Undoing
  <2> QED
    BY <1>1, <1>2, <2>1, <2>2, StillOK, InvJoins
<1>7. ASSUME NEW c, Concerns(c)
      PROVE  MainInv(c)' /\ DraftInv(c)' /\ PRInv(c)' /\ RecordInv(c)'
  <2>1. mig.cluster = c /\ RecordInv(c)
    BY <1>1, <1>7, Here, HereIsThere
  <2>2. Onward(c)
    BY <1>2, <1>7, Here, StillOnward DEF world
  <2>3. PRInv(c)'
    BY <1>1, <1>2, <1>7, <2>2, Here, PRsOnward DEF world
  <2>4. Made(Aim(s), new, c)
    BY <1>4, <2>1 DEF Made, Key
  <2>5. Granted(Aim(s), c)
    BY <1>1, <2>1 DEF Granted, Aim, PRStep, LastStep, RecordInv
  <2>6. DraftInv(c)'
    <3> HIDE DEF new
    <3>1. Granted(Aim(s), c)'
      BY <1>2, <2>2, <2>5 DEF Granted, Onward
    <3> QED
      BY <1>2, <1>5, <2>4, <3>1 DEF DraftInv
  <2>7. RecordInv(c)'
    BY <1>1, <1>2, <2>1, <2>2, RecordOnward, RecordFields
  <2> QED
    BY <2>2, <2>3, <2>6, <2>7 DEF Onward
<1> QED
  BY <1>2, <1>6, <1>7, MoveJoins DEF Kept, rollback

\* The pull request's number reaches the record, or the step fails and it stays
\* without an owner.
LEMMA OpenPRKept ==
    ASSUME HInv, MoveInv, OpenPR
    PROVE  Kept
<1>1. WorldOK /\ RunOK /\ StandOK /\ mig \in Record /\ at = "drafted"
  BY AtWork DEF OpenPR
<1>2. /\ mig.cur \in PRStep /\ draft # NoDraft /\ draft.file = Aim(mig.cur)
      /\ draft.file \in Files /\ draft.content \in Content(draft.file)
  BY <1>1, ChangeOf DEF StandOK, RunOK
<1>3. PICK p \in PRs :
         /\ Open(p)
         /\ \/ /\ mig' = [mig EXCEPT !.pr = p,
                                     !.status = IF mig.mode = "yolo" THEN "running" ELSE "waiting"]
               /\ at' = (IF mig.mode = "yolo" THEN "opened" ELSE "rest")
               /\ draft' = NoDraft
               /\ UNCHANGED <<rollback, started>>
            \/ "lost" \in Faults /\ Rest("failed")
  BY DEF OpenPR
<1>4. UNCHANGED <<main, apps>>
  BY DEF OpenPR
<1>5. WorldOK' /\ PRsLast /\ prs'[p] # Nothing /\ prs'[p].file = draft.file
  BY <1>1, <1>2, <1>3, <1>4, OpenOK
<1>6. ASSUME NEW c, Concerns(c)
      PROVE  Onward(c) /\ PRInv(c)'
  BY <1>1, <1>2, <1>3, <1>4, <1>6, Here, OpenOnward
<1>7. CASE Rest("failed")
  BY <1>1, <1>5, <1>6, <1>7, RestKept DEF Undoing
<1>8. CASE /\ mig' = [mig EXCEPT !.pr = p,
                                 !.status = IF mig.mode = "yolo" THEN "running" ELSE "waiting"]
           /\ at' = (IF mig.mode = "yolo" THEN "opened" ELSE "rest")
           /\ draft' = NoDraft
           /\ UNCHANGED <<rollback, started>>
  <2>1. p \in 0..MaxPRs
    BY HandoverAssumption DEF PRs
  <2>2. mig' \in Record
    BY <1>1, <1>8, <2>1, RecordSet
  <2>3. mig'.cur = mig.cur /\ mig'.pr = p /\ mig'.status \in {"running", "waiting"}
        /\ (at' = "opened" => mig'.status = "running")
    BY <1>1, <1>8 DEF Record
  <2>4. RunOK'
    BY <1>1, <1>8, <2>2 DEF RunOK, rollback, Places
  <2>5. StandOK'
    BY <1>2, <1>5, <1>8, <2>2, <2>3 DEF StandOK, Undoing
  <2>6. ASSUME NEW c, Concerns(c)
        PROVE  MainInv(c)' /\ DraftInv(c)' /\ PRInv(c)' /\ RecordInv(c)'
    <3>1. Onward(c) /\ PRInv(c)' /\ DraftInv(c) /\ RecordInv(c)
      BY <1>6, <2>6, Here
    <3>2. DraftInv(c)' /\ RecordInv(c)'
      BY <1>1, <1>8, <2>2, <2>3, <3>1, DraftOnward, RecordOnward, RecordFields
    <3> QED
      BY <3>1, <3>2 DEF Onward
  <2> QED
    BY <1>5, <1>8, <2>4, <2>5, <2>6, InvJoins, MoveJoins DEF Kept, rollback
<1> QED
  BY <1>3, <1>7, <1>8

LEMMA AutoMergeKept ==
    ASSUME HInv, MoveInv, AutoMerge
    PROVE  Kept
<1>1. WorldOK /\ RunOK /\ StandOK /\ mig \in Record /\ at = "opened"
  BY AtWork DEF AutoMerge
<1>2. /\ mig.cur \in PRStep /\ mig.pr \in PRs /\ prs[mig.pr] # Nothing
      /\ prs[mig.pr].file = Aim(mig.cur) /\ mig.status = "running"
  BY <1>1 DEF StandOK
<1>3. CASE Merge(mig.pr) /\ Pass(mig.cur) /\ UNCHANGED apps
  <2>1. WorldOK' /\ PRsLast
    BY <1>1, <1>2, <1>3, MergeOK
  <2>2. ASSUME NEW c, Concerns(c)
        PROVE  Onward(c) /\ PRInv(c)' /\ Earned(mig.cur, c)
    <3>1. /\ Onward(c) /\ PRInv(c)'
          /\ Made(Aim(mig.cur), main'[Aim(mig.cur)], c)
      BY <1>1, <1>2, <1>3, <2>2, Here, MergeOnward
    <3>2. CASE mig.cur = 3
      BY <3>1, <3>2 DEF Earned, Enabled, Made, Aim, Target
    <3>3. CASE mig.cur = 5
      <4>1. main'.old[c] = "disabled"
        BY <3>1, <3>3 DEF Made, Aim, Target
      <4> QED
        BY <3>1, <3>3, <4>1 DEF Earned, Onward, MainInv
    <3>4. CASE mig.cur = 10
      BY <3>1, <3>4 DEF Earned
    <3> QED
      BY <1>2, <3>1, <3>2, <3>3, <3>4 DEF PRStep, LastStep, Earned
  <2>3. mig.cur \in 1..LastStep
    BY <1>2 DEF PRStep, LastStep
  <2> QED
    BY <1>1, <1>3, <2>1, <2>2, <2>3, PassKept
<1>4. CASE Rest("waiting") /\ UNCHANGED world
  <2>1. mig' = [mig EXCEPT !.status = "waiting", !.pr = mig.pr] /\ at' = "rest" /\ draft' = NoDraft
        /\ UNCHANGED <<rollback, started>>
    BY <1>4 DEF Rest
  <2>2. mig' = [mig EXCEPT !.status = "waiting"]
    BY <1>1, <2>1 DEF Record
  <2>3. mig' \in Record
    BY <1>1, <2>2, RecordSet, RecordFields
  <2>4. mig'.cur = mig.cur /\ mig'.pr = mig.pr /\ mig'.status = "waiting"
    BY <1>1, <2>2 DEF Record
  <2>5. RunOK'
    BY <1>1, <2>1, <2>3 DEF RunOK, rollback, Places
  <2>6. StandOK'
    BY <1>2, <1>4, <2>1, <2>3, <2>4 DEF StandOK, world, Undoing
  <2> QED
    BY <1>1, <1>4, <2>1, <2>3, <2>4, <2>5, <2>6, WorldStillKept, RecordFields DEF rollback
<1> QED
  BY <1>3, <1>4 DEF AutoMerge

LEMMA GoroutineKept ==
    ASSUME HInv, MoveInv, Goroutine
    PROVE  Kept
BY PlainStepsKept, SkipPRKept, PrepareKept, OpenPRKept, AutoMergeKept,
   VerifyAppCreatedKept, VerifyRemovedKept, VerifyHealthyKept DEF Goroutine

(***************************************************************************)
(* Requests.                                                               *)
(***************************************************************************)
LEMMA StartKept ==
    ASSUME HInv, MoveInv, NEW d \in Clusters, NEW mode \in Modes, Start(d, mode)
    PROVE  Kept
<1>1. WorldOK /\ RunOK /\ StandOK /\ UNCHANGED world
  BY InvParts DEF Start
<1>2. mig' = [cluster |-> d, mode |-> mode, cur |-> 1, pr |-> 0, status |-> "running"]
  BY DEF Start
<1>3. mig' \in Record /\ mig'.cur = 1 /\ mig'.status = "running"
  BY <1>2, HandoverAssumption DEF Record, LastStep
<1>4. WorldOK' /\ PRsLast
  BY <1>1, StillOK
<1>5. RunOK'
  BY <1>1, <1>3, HandoverAssumption DEF RunOK, Start, rollback, Places
<1>6. StandOK'
  BY <1>3 DEF StandOK, Start, Undoing
<1>7. ASSUME NEW c, Concerns(c)
      PROVE  MainInv(c)' /\ DraftInv(c)' /\ PRInv(c)' /\ RecordInv(c)'
  <2>1. Onward(c)
    BY <1>1, <1>7, Here, StillOnward DEF world
  <2>2. PRInv(c)' /\ DraftInv(c)'
    BY <1>1, <1>7, <2>1, Here, PRsOnward, DraftOnward DEF Start, world
  <2>3. RecordInv(c)'
    BY <1>3 DEF RecordInv
  <2> QED
    BY <2>1, <2>2, <2>3 DEF Onward
<1> QED
  BY <1>4, <1>5, <1>6, <1>7, InvJoins, MoveJoins DEF Kept, Start, rollback

LEMMA Recorded ==
    ASSUME HInv, mig.status # "none"
    PROVE  mig \in Record
BY InvParts DEF RunOK, Nothing

LEMMA ContinueKept ==
    ASSUME HInv, MoveInv, Continue
    PROVE  Kept
<1>1. WorldOK /\ RunOK /\ StandOK /\ mig \in Record
  BY InvParts, Recorded DEF Continue
<1>2. /\ mig' = [mig EXCEPT !.status = "running"] /\ at' = "exec"
      /\ UNCHANGED world /\ UNCHANGED <<draft, rollback, started>>
  BY DEF Continue, Go
<1>3. mig' \in Record /\ mig'.status = "running" /\ mig'.cur = mig.cur
  <2>1. mig' \in Record
    BY <1>1, <1>2, RecordSet, RecordFields
  <2> QED
    BY <1>1, <1>2, <2>1 DEF Record
<1>4. RunOK'
  BY <1>1, <1>2, <1>3 DEF RunOK, rollback, Places
<1>5. StandOK'
  BY <1>2, <1>3 DEF StandOK, Undoing
<1> QED
  BY <1>1, <1>2, <1>3, <1>4, <1>5, WorldStillKept, RecordFields DEF rollback

LEMMA ContinueAfterPRKept ==
    ASSUME HInv, MoveInv, ContinueAfterPR
    PROVE  Kept
<1>1. WorldOK /\ RunOK /\ StandOK /\ mig \in Record /\ at = "rest" /\ mig.status = "waiting"
  BY InvParts, Recorded DEF ContinueAfterPR
<1>2. /\ mig.cur \in PRStep /\ mig.pr \in PRs /\ prs[mig.pr].file = Aim(mig.cur)
  BY <1>1 DEF StandOK
<1>3. CASE Rest("failed") /\ UNCHANGED world
  BY <1>1, <1>3, RestStillKept DEF Undoing
<1>4. CASE /\ Merge(mig.pr)
           /\ mig' = [mig EXCEPT !.status = "running", !.pr = 0, !.cur = mig.cur + 1]
           /\ Go
           /\ UNCHANGED apps
  <2>1. /\ at' = "exec" /\ UNCHANGED <<draft, rollback, started>>
        /\ mig' = [mig EXCEPT !.cur = mig.cur + 1, !.pr = 0, !.status = "running"]
    BY <1>1, <1>4 DEF Go, Record
  <2>2. mig' \in Record
    <3>1. mig.cur + 1 \in 1..(LastStep + 1) /\ 0 \in 0..MaxPRs
      BY <1>2, HandoverAssumption DEF PRStep, LastStep
    <3>2. [mig EXCEPT !.cur = mig.cur + 1, !.pr = 0, !.status = "running"] \in Record
      BY <1>1, <3>1, RecordStep
    <3> QED
      BY <2>1, <3>2
  <2>3. mig'.cur = mig.cur + 1 /\ mig'.status = "running"
    BY <1>1, <2>1 DEF Record
  <2>4. WorldOK' /\ PRsLast
    BY <1>1, <1>2, <1>4, MergeOK
  <2>5. RunOK'
    BY <1>1, <2>1, <2>2 DEF RunOK, rollback, Places
  <2>6. StandOK'
    BY <2>1, <2>2, <2>3 DEF StandOK, Undoing
  <2>7. ASSUME NEW c, Concerns(c)
        PROVE  MainInv(c)' /\ DraftInv(c)' /\ PRInv(c)' /\ RecordInv(c)'
    <3>1. /\ Onward(c) /\ PRInv(c)'
          /\ Made(Aim(mig.cur), main'[Aim(mig.cur)], c)
      BY <1>1, <1>2, <1>4, <2>7, Here, MergeOnward
    <3>2. DraftInv(c)' /\ RecordInv(c)
      BY <2>1, <2>7, <3>1, Here, DraftOnward
    <3>3. /\ mig.cur = 3 => Enabled(c)'
          /\ mig.cur = 5 => main'.old[c] = "disabled"
      BY <3>1 DEF Enabled, Made, Aim, Target
    <3>4. mig.cur = 5 => Disabled(c)'
      BY <3>1, <3>3 DEF Onward, MainInv
    <3>5. RecordInv(c)'
      BY <1>1, <1>2, <2>3, <3>1, <3>2, <3>3, <3>4 DEF RecordInv, Onward, PRStep, LastStep
    <3> QED
      BY <3>1, <3>2, <3>5 DEF Onward
  <2> QED
    BY <2>1, <2>4, <2>5, <2>6, <2>7, InvJoins, MoveJoins DEF Kept, rollback
<1> QED
  BY <1>3, <1>4 DEF ContinueAfterPR

LEMMA CancelKept ==
    ASSUME HInv, MoveInv, Cancel
    PROVE  Kept
BY Recorded, RestStillKept DEF Cancel, Undoing

(***************************************************************************)
(* A rollback: only the types matter, nothing is promised any more.        *)
(***************************************************************************)
LEMMA UndoneKept ==
    ASSUME WorldOK', RunOK', StandOK', undone'
    PROVE  Kept
BY InvJoins DEF Kept, MoveInv

LEMMA RollbackKept ==
    ASSUME HInv, Rollback
    PROVE  Kept
<1>1. WorldOK /\ RunOK /\ mig \in Record
  BY InvParts, Recorded DEF Rollback
<1>2. WorldOK' /\ PRsLast
  BY <1>1, StillOK DEF Rollback
<1>3. RunOK'
  BY <1>1 DEF RunOK, Rollback, CompletedChanges, Places
<1>4. StandOK'
  BY <1>1 DEF StandOK, Rollback, Undoing
<1> QED
  BY <1>2, <1>3, <1>4, UndoneKept DEF Rollback

LEMMA UndoStands ==
    ASSUME HInv, at \in Undoing
    PROVE  /\ WorldOK /\ RunOK /\ mig \in Record /\ undone
           /\ mig.status \in {"failed", "cancelled"}
           /\ at = "undoDrafted" => draft # NoDraft
           /\ at = "undoOpened" => mig.pr \in PRs /\ prs[mig.pr] # Nothing
BY InvParts DEF StandOK, Undoing

\* The rollback stands at one of its places; the migration is at rest.
LEMMA UndoGoes ==
    ASSUME mig \in Record, mig' \in Record, mig'.status \in {"failed", "cancelled"},
           at' \in Undoing, undone', RunOK', WorldOK',
           at' = "undoDrafted" => draft' # NoDraft,
           at' = "undoOpened" => mig'.pr \in PRs /\ prs'[mig'.pr] # Nothing
    PROVE  Kept
<1>1. StandOK'
  BY DEF StandOK, Undoing
<1> QED
  BY <1>1, UndoneKept

LEMMA UndoPrepareKept ==
    ASSUME HInv, UndoPrepare
    PROVE  Kept
<1>1. /\ WorldOK /\ RunOK /\ mig \in Record /\ undone
      /\ mig.status \in {"failed", "cancelled"} /\ mig.cluster \in Clusters
  BY UndoStands, RecordFields DEF UndoPrepare, Undoing
<1>2. PICK s \in todo :
         draft' = [file |-> Reversal(s).file,
                   content |-> Edited(Reversal(s).file, mig.cluster, Reversal(s).value)]
  BY DEF UndoPrepare
<1>3. Reversal(s).file \in {"new", "old"} /\ Reversal(s).value \in Labels
  BY <1>1, ReversalOf DEF RunOK
<1>4. Edited(Reversal(s).file, mig.cluster, Reversal(s).value) \in Content(Reversal(s).file)
  BY <1>1, <1>3, EditedTyped DEF WorldOK, Files
<1>5. draft'.file \in Files /\ draft'.content \in Content(draft'.file) /\ draft' # NoDraft
  BY <1>2, <1>3, <1>4 DEF Files, NoDraft
<1>6. RunOK'
  BY <1>1, <1>5 DEF RunOK, UndoPrepare, rollback, Places
<1>7. WorldOK'
  BY <1>1, StillOK DEF UndoPrepare
<1> QED
  BY <1>1, <1>5, <1>6, <1>7, UndoGoes DEF UndoPrepare, rollback, Undoing

LEMMA UndoOpenPRKept ==
    ASSUME HInv, UndoOpenPR
    PROVE  Kept
<1>1. /\ WorldOK /\ RunOK /\ mig \in Record /\ undone
      /\ mig.status \in {"failed", "cancelled"} /\ draft # NoDraft
  BY UndoStands DEF UndoOpenPR, Undoing
<1>2. PICK p \in PRs :
         /\ Open(p)
         /\ IF mig.mode = "yolo"
            THEN at' = "undoOpened" /\ mig' = [mig EXCEPT !.pr = p]
            ELSE at' = "undo" /\ UNCHANGED mig
  BY DEF UndoOpenPR
<1>3. WorldOK' /\ prs'[p] # Nothing
  BY <1>1, <1>2, OpenOK DEF UndoOpenPR, RunOK
<1>4. /\ mig' \in Record /\ mig'.status = mig.status
      /\ at' \in {"undo", "undoOpened"} /\ (at' = "undoOpened" => mig'.pr = p)
  <2>1. CASE mig.mode = "yolo"
    <3>1. p \in 0..MaxPRs
      BY HandoverAssumption DEF PRs
    <3>2. [mig EXCEPT !.pr = p] \in Record
      BY <1>1, <3>1, RecordSet
    <3> QED
      BY <1>1, <1>2, <2>1, <3>2 DEF Record
  <2>2. CASE mig.mode # "yolo"
    BY <1>1, <1>2, <2>2
  <2> QED
    BY <2>1, <2>2
<1>5. RunOK'
  BY <1>1, <1>4 DEF RunOK, UndoOpenPR, Reversed, Places, NoDraft
<1> QED
  BY <1>1, <1>3, <1>4, <1>5, UndoGoes DEF UndoOpenPR, Undoing

LEMMA UndoMergeKept ==
    ASSUME HInv, UndoMerge
    PROVE  Kept
<1>1. /\ WorldOK /\ RunOK /\ mig \in Record /\ undone
      /\ mig.status \in {"failed", "cancelled"} /\ mig.pr \in PRs
  BY UndoStands DEF UndoMerge, Undoing
<1>2. WorldOK'
  BY <1>1, MergeOK, StillOK DEF UndoMerge, world
<1>3. mig' \in Record /\ mig'.status = mig.status
  <2>1. 0 \in 0..MaxPRs
    BY HandoverAssumption
  <2>2. [mig EXCEPT !.pr = 0] \in Record
    BY <1>1, <2>1, RecordSet
  <2> QED
    BY <1>1, <2>2 DEF UndoMerge, Record
<1>4. RunOK'
  BY <1>1, <1>3 DEF RunOK, UndoMerge, rollback, Places
<1> QED
  BY <1>1, <1>2, <1>3, <1>4, UndoGoes DEF UndoMerge, rollback, Undoing

LEMMA UndoFailsKept ==
    ASSUME HInv, UndoFails
    PROVE  Kept
<1>1. /\ WorldOK /\ RunOK /\ mig \in Record /\ undone
      /\ mig.status \in {"failed", "cancelled"}
  BY UndoStands DEF UndoFails, Undoing
<1>2. WorldOK'
  BY <1>1, StillOK DEF UndoFails
<1>3. RunOK'
  BY <1>1 DEF RunOK, UndoFails, Reversed, Places
<1> QED
  BY <1>1, <1>2, <1>3, UndoGoes DEF UndoFails, Undoing

LEMMA UndoEndKept ==
    ASSUME HInv, UndoEnd
    PROVE  Kept
<1>1. WorldOK /\ RunOK /\ mig \in Record /\ undone
  BY UndoStands DEF UndoEnd, Undoing
<1>2. WorldOK'
  BY <1>1, StillOK DEF UndoEnd
<1>3. mig' \in Record /\ mig'.status \in {"failed", "rolled_back"}
  <2>1. mig' \in Record
    BY <1>1, RecordSet, RecordFields DEF UndoEnd
  <2> QED
    BY <1>1, <2>1 DEF UndoEnd, Record
<1>4. RunOK'
  BY <1>1, <1>3 DEF RunOK, UndoEnd, Places
<1>5. StandOK'
  BY <1>3 DEF StandOK, UndoEnd, Undoing
<1> QED
  BY <1>1, <1>2, <1>4, <1>5, UndoneKept DEF UndoEnd

(***************************************************************************)
(* The environment.                                                        *)
(***************************************************************************)
LEMMA WorldMoves ==
    ASSUME HInv, MoveInv, UNCHANGED <<mig, at, draft, rollback, started>>,
           WorldOK', PRsLast,
           \A c : Concerns(c) => Onward(c) /\ PRInv(c)'
    PROVE  Kept
<1>1. ASSUME NEW c, Concerns(c)
      PROVE  MainInv(c)' /\ DraftInv(c)' /\ PRInv(c)' /\ RecordInv(c)'
  <2>1. Onward(c) /\ PRInv(c)' /\ DraftInv(c) /\ RecordInv(c)
    BY <1>1, Here
  <2>2. DraftInv(c)'
    BY <2>1, DraftOnward
  <2>3. RecordInv(c)'
    BY <2>1 DEF RecordInv, Onward
  <2> QED
    BY <2>1, <2>2, <2>3 DEF Onward
<1> QED
  BY <1>1, WorldOnlyOK, MoveJoins DEF Kept, rollback

LEMMA HostMergeKept ==
    ASSUME HInv, MoveInv, NEW p \in PRs, HostMerge(p)
    PROVE  Kept
<1>1. WorldOK /\ Merge(p) /\ UNCHANGED apps
  BY InvParts DEF HostMerge
<1>2. WorldOK' /\ PRsLast
  BY <1>1, MergeOK
<1>3. ASSUME NEW c, Concerns(c)
      PROVE  Onward(c) /\ PRInv(c)'
  BY <1>1, <1>3, Here, MergeOnward
<1> QED
  BY <1>2, <1>3, WorldMoves DEF HostMerge

LEMMA SyncKept ==
    ASSUME HInv, MoveInv, NEW d \in Clusters, NewSync(d) \/ OldSync(d)
    PROVE  Kept
<1>1. WorldOK
  BY InvParts
<1>2. PICK a \in {"new", "old"}, s \in App : SetApp(a, d, s)
  BY DEF NewSync, OldSync, App
<1>3. WorldOK' /\ PRsLast /\ UNCHANGED <<main, prs, mig, at, draft, rollback, started>>
  BY <1>1, <1>2, SetAppOK DEF SetApp
<1>4. ASSUME NEW c, Concerns(c)
      PROVE  Onward(c) /\ PRInv(c)'
  <2>1. Onward(c)
    BY <1>1, <1>4, Here, SyncOnward DEF Concerns
  <2> QED
    BY <1>1, <1>3, <1>4, <2>1, Here, PRsOnward
<1> QED
  BY <1>3, <1>4, WorldMoves

LEMMA StutterKept ==
    ASSUME HInv, MoveInv, UNCHANGED vars
    PROVE  Kept
<1>1. WorldOK /\ UNCHANGED world /\ UNCHANGED <<mig, at, draft, rollback, started>>
  BY InvParts DEF vars, world, rollback
<1>2. ASSUME NEW c, Concerns(c)
      PROVE  Onward(c) /\ PRInv(c)'
  BY <1>1, <1>2, Here, StillOnward, PRsOnward DEF world
<1> QED
  BY <1>1, <1>2, StillOK, WorldMoves

LEMMA InitHInv == Init => HInv
<1> SUFFICES ASSUME Init PROVE HInv
  OBVIOUS
<1>1. WorldOK
  BY DEF Init, WorldOK, Files, Content, Labels, App
<1>2. RunOK
  <2>1. 0 \in 0..MaxMigrations
    BY HandoverAssumption
  <2>2. /\ mig = Nothing /\ at = "rest" /\ draft = NoDraft /\ todo = {}
        /\ errors = FALSE /\ started = 0 /\ undone = FALSE
    BY DEF Init
  <2> QED
    BY <2>1, <2>2 DEF RunOK, Places
<1>3. StandOK
  BY DEF Init, StandOK, Nothing, Undoing
<1> QED
  BY <1>1, <1>2, <1>3, InvParts

LEMMA InitMoveInv == Init => MoveInv
<1> SUFFICES ASSUME Init, NEW c \in Clusters PROVE WorldInv(c)
  BY DEF MoveInv
<1>1. MainInv(c)
  BY DEF Init, MainInv
<1>2. DraftInv(c) /\ PRInv(c)
  BY DEF Init, DraftInv, PRInv
<1>3. RecordInv(c)
  BY RecordFields DEF Init, RecordInv
<1> QED
  BY <1>1, <1>2, <1>3 DEF WorldInv

LEMMA HandoverInvariance == Spec => [](HInv /\ MoveInv)
<1>1. Init => HInv /\ MoveInv
  BY InitHInv, InitMoveInv
<1>2. HInv /\ MoveInv /\ [Next]_vars => (HInv /\ MoveInv)'
  <2> SUFFICES ASSUME HInv, MoveInv, [Next]_vars
               PROVE  Kept
    BY DEF Kept
  <2>1. CASE Goroutine
    BY <2>1, GoroutineKept
  <2>2. CASE Requests
    BY <2>2, StartKept, ContinueKept, ContinueAfterPRKept, CancelKept, RollbackKept,
       UndoPrepareKept, UndoOpenPRKept, UndoMergeKept, UndoFailsKept, UndoEndKept DEF Requests
  <2>3. CASE \E p \in PRs : HostMerge(p)
    BY <2>3, HostMergeKept
  <2>4. CASE \E c \in Clusters : NewSync(c) \/ OldSync(c)
    BY <2>4, SyncKept
  <2>5. CASE UNCHANGED vars
    BY <2>5, StutterKept
  <2> QED
    BY <2>1, <2>2, <2>3, <2>4, <2>5 DEF Next
<1> QED
  BY <1>1, <1>2, PTL DEF Spec

(***************************************************************************)
(* The theorems.                                                           *)
(***************************************************************************)
\* Types, for any number of clusters: in particular a pull request keeps to
\* the file it was opened for, and the goroutine and the rollback never run on
\* a record that is not there.
THEOREM HandoverTypes == Spec => []HandoverTypeOK
<1>1. HInv => HandoverTypeOK
  BY DEF HInv
<1> QED
  BY <1>1, HandoverInvariance, PTL

\* Until somebody rolls back, the addon of the cluster is the application of
\* one ArgoCD at least: the label is taken from OLD only when NEW has the
\* application and keeps it, in whatever order leftover pull requests of failed,
\* cancelled and restarted migrations are merged, and even when an error of
\* OLD's API counts as "not found".  For one cluster: with a second one a stale
\* draft can take back the label of the first.
THEOREM AlwaysManaged ==
    ASSUME OneCluster
    PROVE  Spec => []NeverUnmanaged
<1>1. HInv /\ MoveInv => NeverUnmanaged
  BY DEF MoveInv, NeverUnmanaged, WorldInv, MainInv, Disabled, Created
<1> QED
  BY <1>1, HandoverInvariance, PTL

\* Until somebody rolls back, the catalog is out of migration mode only when the
\* application has left OLD and is healthy in NEW, provided OLD's API answers: no
\* leftover pull request of an earlier attempt finalizes too early.
THEOREM FinalizedMeansMoved ==
    ASSUME OneCluster, Reachable
    PROVE  Spec => []FinalizedWhenMoved
<1>1. HInv /\ MoveInv => FinalizedWhenMoved
  BY DEF MoveInv, FinalizedWhenMoved, WorldInv, MainInv, Moved, Removed, HasMoved
<1> QED
  BY <1>1, HandoverInvariance, PTL
=============================================================================
