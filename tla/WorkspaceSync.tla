---------------------------- MODULE WorkspaceSync ----------------------------
(***************************************************************************)
(* The saved workspace of one project: users save their edits of it        *)
(* (routes/projects/register-project-routes.ts), and every run that ends   *)
(* merges its results into it (routes/runs/project-workspace-sync.ts with  *)
(* routes/projects/workspace-snapshot-restore.ts).  Every save names the   *)
(* version it was made from (auth/postgres-auth-repository.ts).            *)
(*                                                                         *)
(* What the workspace holds is a text with its rules (input) and, for each *)
(* part, who made it: model, traceability and fingerprints of a diagram    *)
(* are one part; whether a requirement diagram has its PlantUML and SVG is *)
(* told apart (drawn).  Left out: baselines and review candidates, code    *)
(* metadata other than the files, the seeding of example projects, retries *)
(* and the offline demo's runs, answers that do not reach the client, and  *)
(* what a cancelled pipeline still writes into its snapshot.               *)
(***************************************************************************)
EXTENDS Naturals

CONSTANTS
  Runs,             \* numbered in the order of their creation
  Users,
  ReqDiagrams,      \* kinds of requirement diagrams
  DesignDiagrams,   \* kinds of design diagrams
  Inputs,           \* requirement texts with their rules
  NoInput,          \* a workspace without text and rules
  Unruled,          \* a text without rules
  Nobody,           \* the maker of a part that is not there
  Edited,           \* the maker of a part a user changed by hand
  MaxVersion        \* bound: saves of the workspace

ASSUME RunsAssumption == Runs \subseteq Nat
ASSUME InputAssumption == NoInput \notin Inputs /\ Unruled \notin Inputs \cup {NoInput}

VARIABLES
  workspace,  \* [version, source, input, art, drawn]
  snapshot,   \* [Runs]: [status, mode, selected, input, context, made, failed]
  sync,       \* [Runs]: [step, attempt, base, first]: where its sync is
  client      \* [Users]: the workspace as the user's client knows it

vars == <<workspace, snapshot, sync, client>>

Parts == ReqDiagrams \cup DesignDiagrams \cup {"code", "context", "plan"}

\* What a run is started for: requirement diagrams, or the rules alone if none is
\* selected; code that goes on with the files there are ("continue") or anew.
Modes == {"requirements", "design", "continue", "regenerate", "feasibility"}

\* The kind of run that is told from the fields of a snapshot.
inferRestorableRunKind(mode) ==
  IF mode \in {"continue", "regenerate"} THEN "code" ELSE mode

Makers == Runs \cup {Nobody, Edited}

Workspaces == [version : Nat, source : Runs \cup {Nobody},
               input : Inputs \cup {NoInput, Unruled}, art : [Parts -> Makers],
               drawn : SUBSET ReqDiagrams]

\* The requirement diagrams selected, those of them that failed, what the run was
\* given (context), and what it has made.
Snapshots == [status : {"new", "running", "ended"}, mode : Modes,
              selected : SUBSET ReqDiagrams, failed : SUBSET ReqDiagrams,
              input : Inputs \cup {NoInput, Unruled}, made : SUBSET Parts,
              context : [Parts -> Makers]]

Syncs == [step : {"idle", "started", "read", "skipped", "synced", "lost", "failed"},
          attempt : Nat, first : Nat, base : Workspaces]

defaultProjectWorkspace ==
  [version |-> 0, source |-> Nobody, input |-> NoInput,
   art |-> [p \in Parts |-> Nobody], drawn |-> {}]

\* A sync that is not under way holds nothing.
NotUnderWay(step) ==
  [step |-> step, attempt |-> 0, first |-> 0, base |-> defaultProjectWorkspace]

\* The parts a run may deliver.
PartsOf(mode) ==
  CASE inferRestorableRunKind(mode) = "requirements" -> ReqDiagrams
    [] mode = "design" -> DesignDiagrams
    [] inferRestorableRunKind(mode) = "code" -> {"code"}
    [] OTHER -> {"context", "plan"}

-----------------------------------------------------------------------------
(***************************************************************************)
(* What the end of run r makes of the workspace w.                         *)
(***************************************************************************)
\* The requirement diagrams whose models r was given: its snapshot starts with them.
givenModels(r) == {p \in ReqDiagrams : snapshot[r].context[p] # Nobody}

\* Parts that come with r's snapshot though r has not made them.  Of a requirements
\* run that has drawn nothing: the models it was given of the diagrams it was to
\* draw, or of all if it was to find rules only.  Of a code run: the design models
\* it was given, and the files to go on with, in the place of all that are there.
\* A design snapshot carries neither text nor rules, so its requirement models
\* are never merged.
ContextParts(r) ==
  CASE snapshot[r].mode = "requirements" /\ snapshot[r].made = {} ->
         IF snapshot[r].selected = {} THEN givenModels(r)
         ELSE givenModels(r) \cap (snapshot[r].selected \ snapshot[r].failed)
    [] snapshot[r].mode = "continue" -> DesignDiagrams \cup {"code"}
    [] snapshot[r].mode = "regenerate" -> DesignDiagrams
    [] OTHER -> {}

isRulesOnlyRequirementSnapshot(r) ==
  snapshot[r].selected = {} /\ givenModels(r) = {}

\* Rules a requirements run has found, or was given, replace text and rules; a run
\* without any leaves its text without rules where there was nothing, or if it was
\* to find rules only and was given no models.
mergedInput(r, w) ==
  IF snapshot[r].mode # "requirements" THEN w.input
  ELSE IF snapshot[r].input \in Inputs THEN snapshot[r].input
  ELSE IF isRulesOnlyRequirementSnapshot(r) \/ w.input = NoInput THEN Unruled
  ELSE w.input

\* restoreRunSnapshotToWorkspaceState, or mergeFeasibilitySnapshot, as saved.  A
\* model a run was given has no PlantUML and no SVG in its snapshot.
merged(r, w) ==
  [version |-> w.version + 1, source |-> r, input |-> mergedInput(r, w),
   art |-> [p \in Parts |-> IF p \in snapshot[r].made THEN r
                            ELSE IF p \in ContextParts(r)
                            THEN snapshot[r].context[p] ELSE w.art[p]],
   drawn |-> (w.drawn \ ContextParts(r)) \cup (snapshot[r].made \cap ReqDiagrams)]

SameKind(q, r) ==
  inferRestorableRunKind(snapshot[q].mode) = inferRestorableRunKind(snapshot[r].mode)

\* Mutant: the newer run is asked for before the first attempt only.
shouldSkipOlderSameKindSnapshot_once(r, w) ==
  /\ w.source \in Runs /\ SameKind(w.source, r) /\ w.source > r
  /\ sync[r].attempt = 0

\* The workspace was last saved by a newer run of the same kind.
shouldSkipOlderSameKindSnapshot(r, w) ==
  w.source \in Runs /\ SameKind(w.source, r) /\ w.source > r

-----------------------------------------------------------------------------
\* Mutant: the version is not compared.
isCurrent_never_compared(w) == TRUE

\* saveProjectWorkspace updates the row where the version is the base's.
isCurrent(w) == w.version = workspace.version

\* A client reads the workspace.
Loads(u) ==
  /\ client' = [client EXCEPT ![u] = workspace]
  /\ UNCHANGED <<workspace, snapshot, sync>>

\* An edit of the text or of a part that is there, saved, with the run the client
\* has restored last, if any; a client that was too late is sent
\* the current workspace with the 409.
Saves(u, source) ==
  /\ workspace.version < MaxVersion
  /\ \/ /\ isCurrent(client[u])
        /\ \/ \E i \in Inputs : workspace' =
                [client[u] EXCEPT !.version = @ + 1, !.source = source, !.input = i]
           \/ \E p \in Parts : client[u].art[p] # Nobody /\ workspace' =
                [client[u] EXCEPT !.version = @ + 1, !.source = source,
                                  !.art[p] = Edited]
        /\ client' = [client EXCEPT ![u] = workspace']
     \/ /\ ~isCurrent(client[u])
        /\ client' = [client EXCEPT ![u] = workspace]
        /\ UNCHANGED workspace
  /\ UNCHANGED <<snapshot, sync>>

-----------------------------------------------------------------------------
\* A run is started from what a client has; it may be out of date.  A text that is
\* not saved yet has no rules; a design or code run is given the models alone.
Starts(r, u, mode, selected) ==
  /\ snapshot[r].status = "new"
  /\ \A q \in Runs : q < r => snapshot[q].status # "new"
  /\ mode # "requirements" => selected = {}
  /\ snapshot' = [snapshot EXCEPT ![r].status = "running", ![r].mode = mode,
       ![r].selected = selected, ![r].context = client[u].art,
       ![r].input = IF mode # "requirements" THEN NoInput
                    ELSE IF client[u].input = NoInput THEN Unruled
                    ELSE client[u].input]
  /\ UNCHANGED <<workspace, sync, client>>

\* It ends with some of its parts: failed and cancelled runs keep what they had
\* finished, and a code run that is to regenerate delivers no files then.  The
\* persist wrapper starts the sync, unless the last save is rejected or the record
\* ends through an object a refresh has made.
Ends(r, made, failed, input) ==
  /\ snapshot[r].status = "running"
  /\ snapshot' = [snapshot EXCEPT ![r].status = "ended", ![r].made = made,
                                  ![r].failed = failed, ![r].input = input]
  /\ \/ sync' = [sync EXCEPT ![r].step = "started"]
     \/ UNCHANGED sync
  /\ UNCHANGED <<workspace, client>>

SyncReads(r) ==
  /\ sync[r].step = "started"
  /\ sync' = [sync EXCEPT ![r].step = "read", ![r].base = workspace,
                          ![r].first = workspace.version]
  /\ UNCHANGED <<workspace, snapshot, client>>

SyncSkips(r) ==
  /\ sync[r].step = "read"
  /\ shouldSkipOlderSameKindSnapshot(r, sync[r].base)
  /\ sync' = [sync EXCEPT ![r] = NotUnderWay("skipped")]
  /\ UNCHANGED <<workspace, snapshot, client>>

\* The save counts even if the query after it, the project's date or the entry in
\* the audit log, is rejected.
SyncSaves(r) ==
  /\ sync[r].step = "read"
  /\ ~shouldSkipOlderSameKindSnapshot(r, sync[r].base)
  /\ isCurrent(sync[r].base)
  /\ workspace.version < MaxVersion
  /\ workspace' = merged(r, sync[r].base)
  /\ sync' = [sync EXCEPT ![r] = NotUnderWay("synced")]
  /\ UNCHANGED <<snapshot, client>>

\* Mutant: the second attempt is made from what was read at first.
SyncConflicts_stale(r) ==
  /\ sync[r].step = "read"
  /\ ~shouldSkipOlderSameKindSnapshot(r, sync[r].base)
  /\ ~isCurrent(sync[r].base)
  /\ sync' = [sync EXCEPT ![r].step = IF sync[r].attempt = 0 THEN "read" ELSE "lost",
                          ![r].attempt = @ + 1]
  /\ UNCHANGED <<workspace, snapshot, client>>

\* The save that was too late returns the current workspace; after the second
\* the results are given up, with an entry in the audit log.
SyncConflicts(r) ==
  /\ sync[r].step = "read"
  /\ ~shouldSkipOlderSameKindSnapshot(r, sync[r].base)
  /\ ~isCurrent(sync[r].base)
  /\ sync' = [sync EXCEPT ![r].step = IF sync[r].attempt = 0 THEN "read" ELSE "lost",
                          ![r].attempt = @ + 1, ![r].base = workspace]
  /\ UNCHANGED <<workspace, snapshot, client>>

\* A query is rejected, or the merge refuses the state: the error is logged and
\* the results are given up, without an entry in the audit log.
SyncFails(r) ==
  /\ sync[r].step \in {"started", "read"}
  /\ sync' = [sync EXCEPT ![r] = NotUnderWay("failed")]
  /\ UNCHANGED <<workspace, snapshot, client>>

-----------------------------------------------------------------------------
Init ==
  /\ workspace = defaultProjectWorkspace
  /\ snapshot = [r \in Runs |-> [status |-> "new", mode |-> "requirements",
                                 selected |-> {}, failed |-> {},
                                 input |-> NoInput, made |-> {},
                                 context |-> [p \in Parts |-> Nobody]]]
  /\ sync = [r \in Runs |-> NotUnderWay("idle")]
  /\ client = [u \in Users |-> defaultProjectWorkspace]

User(u) ==
  \/ Loads(u)
  \/ \E s \in {r \in Runs : snapshot[r].status = "ended"} \cup {Nobody} : Saves(u, s)
  \/ \E r \in Runs, mode \in Modes, selected \in SUBSET ReqDiagrams :
       Starts(r, u, mode, selected)

\* The rules are looked for if none were given or no diagram was selected.
LooksForRules(r) ==
  snapshot[r].mode = "requirements" /\ (snapshot[r].input = Unruled \/ snapshot[r].selected = {})

End(r) ==
  \E made \in SUBSET PartsOf(snapshot[r].mode), failed \in SUBSET snapshot[r].selected,
     i \in Inputs \cup {NoInput, Unruled} :
    /\ i = snapshot[r].input \/ (LooksForRules(r) /\ i # NoInput)
    /\ snapshot[r].mode = "requirements" => made \subseteq snapshot[r].selected \ failed
    /\ Ends(r, made, failed, i)

Sync(r) == SyncReads(r) \/ SyncSkips(r) \/ SyncSaves(r) \/ SyncConflicts(r) \/ SyncFails(r)

Next == (\E u \in Users : User(u)) \/ (\E r \in Runs : End(r) \/ Sync(r))

Spec == Init /\ [][Next]_vars

-----------------------------------------------------------------------------
(***************************************************************************)
(* Properties.                                                             *)
(***************************************************************************)
\* Types of the workspace, of the snapshots, and of what is being merged.
TypeOK ==
  /\ workspace \in Workspaces
  /\ snapshot \in [Runs -> Snapshots]
  /\ sync \in [Runs -> Syncs]
  /\ client \in [Users -> Workspaces]

\* What a run that has not made p may put back over it, exactly as it was given
\* it: a requirements run that has drawn nothing its requirement models, a code
\* run the design models and the files.
PutsBack(r, p) ==
  /\ workspace'.art[p] = snapshot[r].context[p]
  /\ \/ /\ snapshot[r].mode = "requirements" /\ snapshot[r].made = {}
        /\ p \in ReqDiagrams \ snapshot[r].failed /\ snapshot[r].context[p] # Nobody
     \/ /\ inferRestorableRunKind(snapshot[r].mode) = "code"
        /\ p \in DesignDiagrams \cup {"code"}

\* Who may change a part and the input in a step: a user who has seen the
\* workspace as it is, and the run whose sync takes the step.
MayChange(p) ==
  \/ \E u \in Users : client[u] = workspace /\ client'[u] = workspace'
  \/ \E r \in Runs : /\ sync'[r] # sync[r]
                     /\ p \in snapshot[r].made \/ PutsBack(r, p)

MayChangeInput ==
  \/ \E u \in Users : client[u] = workspace /\ client'[u] = workspace'
  \/ \E r \in Runs : /\ sync'[r] # sync[r] /\ snapshot[r].mode = "requirements"
                     /\ workspace'.input = snapshot[r].input

\* No save loses a part or a drawing another has saved, although every save writes
\* the whole workspace, read some awaits before: only a user who has seen it and a
\* run that has made the part replace it.  The exceptions are those of the merge
\* itself, which is not told what was edited since the run was started: a run puts
\* back what it was given in the cases of PutsBack, and a requirements run its text
\* and rules.  Nothing else is touched.
NoSaveIsLost ==
  [][ /\ \A p \in Parts :
           workspace'.art[p] # workspace.art[p]
           \/ p \in workspace.drawn \ workspace'.drawn => MayChange(p)
      /\ workspace'.input # workspace.input => MayChangeInput ]_vars

\* A run never saves over a newer one of its kind, not even on the second
\* attempt, when the newer one has come in between.
OlderNeverReplacesNewer ==
  [][ \A r \in Runs :
        sync[r].step # "synced" /\ sync'[r].step = "synced"
        => ~(/\ workspace.source \in Runs /\ workspace.source > r
             /\ SameKind(workspace.source, r)) ]_vars

\* Results that are given up for a version conflict, as the audit log then says,
\* have lost to two other saves since the sync began.  Results given up because a
\* query was rejected have not, and are not meant (SyncFails).
ConflictTakesTwoSaves ==
  \A r \in Runs :
    sync[r].step = "lost" => workspace.version >= sync[r].first + 2
=============================================================================
