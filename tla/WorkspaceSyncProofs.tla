------------------------- MODULE WorkspaceSyncProofs -------------------------
(***************************************************************************)
(* Theorems about WorkspaceSync, for any set of runs, users and parts and  *)
(* any number of saves.                                                    *)
(***************************************************************************)
EXTENDS WorkspaceSync, TLAPS

\* A copy of the workspace: whoever has its version has it as it is.
Copy(w) ==
  /\ w.version <= workspace.version
  /\ w.version = workspace.version => w = workspace

Copies == /\ \A u \in Users : Copy(client[u])
          /\ \A r \in Runs : Copy(sync[r].base)
          /\ Copy(defaultProjectWorkspace)

\* Every failed attempt of a sync is a version it has seen go by.
Attempts ==
  \A r \in Runs :
    /\ snapshot[r].status # "ended" => sync[r].step = "idle"
    /\ sync[r].step \in {"idle", "started"} => sync[r].attempt = 0
    /\ sync[r].step = "read" => /\ sync[r].attempt \in {0, 1}
                                /\ sync[r].first + sync[r].attempt
                                     <= sync[r].base.version
    /\ sync[r].step = "lost" => sync[r].first + 2 <= workspace.version

\* A requirements run has a text, and a diagram fails only where it was selected.
SnapshotsOK ==
  \A r \in Runs :
    /\ snapshot[r].mode = "requirements" /\ snapshot[r].status # "new"
       => snapshot[r].input # NoInput
    /\ snapshot[r].status = "new" => snapshot[r].failed = {}
    /\ snapshot[r].failed \subseteq snapshot[r].selected

IInv == TypeOK /\ Copies /\ Attempts /\ SnapshotsOK

-----------------------------------------------------------------------------
LEMMA DefaultOK == defaultProjectWorkspace \in Workspaces
BY DEF defaultProjectWorkspace, Workspaces, Makers

LEMMA NotUnderWayOK ==
  ASSUME NEW s \in {"idle", "skipped", "synced", "failed"}
  PROVE  /\ NotUnderWay(s) \in Syncs /\ NotUnderWay(s).step = s
         /\ NotUnderWay(s).base = defaultProjectWorkspace
         /\ NotUnderWay(s).attempt = 0
BY DefaultOK DEF NotUnderWay, Syncs

LEMMA AWorkspace ==
  ASSUME NEW v \in Nat, NEW s \in Runs \cup {Nobody}, NEW i \in Inputs \cup {NoInput, Unruled},
         NEW a \in [Parts -> Makers], NEW d \in SUBSET ReqDiagrams
  PROVE  [version |-> v, source |-> s, input |-> i, art |-> a, drawn |-> d] \in Workspaces
BY DEF Workspaces

\* A saved edit is the next version of the workspace it was made from.
LEMMA EditOK ==
  ASSUME NEW w \in Workspaces, NEW s \in Runs \cup {Nobody},
         NEW i \in Inputs \cup {NoInput, Unruled}, NEW a \in [Parts -> Makers],
         NEW d \in SUBSET ReqDiagrams, NEW e,
         e = [version |-> w.version + 1, source |-> s, input |-> i, art |-> a, drawn |-> d]
  PROVE  e \in Workspaces /\ e.version = w.version + 1
<1>1. w.version + 1 \in Nat
  BY DEF Workspaces
<1>2. e \in Workspaces
  BY <1>1, AWorkspace
<1> QED BY <1>2

LEMMA InitInv == Init => IInv
<1> SUFFICES ASSUME Init PROVE IInv
  OBVIOUS
<1>1. TypeOK
  <2>1. [status |-> "new", mode |-> "requirements", selected |-> {}, failed |-> {},
         input |-> NoInput, made |-> {},
         context |-> [p \in Parts |-> Nobody]] \in Snapshots
    BY DEF Snapshots, Modes, Makers
  <2>2. NotUnderWay("idle") \in Syncs
    BY NotUnderWayOK
  <2> QED BY <2>1, <2>2, DefaultOK DEF Init, TypeOK
<1>2. \A r \in Runs : /\ sync[r].step = "idle" /\ sync[r].attempt = 0
                      /\ sync[r].base = defaultProjectWorkspace
  BY NotUnderWayOK DEF Init
<1>3. Copies
  BY <1>2, DefaultOK DEF Init, Copies, Copy, Workspaces
<1>4. Attempts /\ SnapshotsOK
  BY <1>2 DEF Init, Attempts, SnapshotsOK
<1> QED BY <1>1, <1>3, <1>4 DEF IInv

\* What a run makes of a workspace is the next version of it, and differs in the
\* run's parts only, in those it puts back, and in its text and rules.
LEMMA MergedOK ==
  ASSUME TypeOK, SnapshotsOK, NEW r \in Runs, snapshot[r].status # "new", NEW w \in Workspaces
  PROVE  /\ merged(r, w) \in Workspaces
         /\ merged(r, w).version = w.version + 1
         /\ \A p \in Parts : \/ merged(r, w).art[p] # w.art[p]
                           \/ p \in w.drawn \ merged(r, w).drawn
              => \/ p \in snapshot[r].made
                 \/ /\ p \in ContextParts(r)
                    /\ merged(r, w).art[p] = snapshot[r].context[p]
         /\ merged(r, w).input # w.input
              => /\ snapshot[r].mode = "requirements"
                 /\ merged(r, w).input = snapshot[r].input
<1>1. /\ w.version + 1 \in Nat /\ w.input \in Inputs \cup {NoInput, Unruled}
      /\ w.art \in [Parts -> Makers] /\ snapshot[r].context \in [Parts -> Makers]
      /\ snapshot[r].input \in Inputs \cup {NoInput, Unruled} /\ r \in Makers
      /\ w.drawn \in SUBSET ReqDiagrams
  BY DEF Workspaces, Snapshots, TypeOK, Makers
<1>2. /\ mergedInput(r, w) \in Inputs \cup {NoInput, Unruled}
      /\ mergedInput(r, w) # w.input
           => /\ snapshot[r].mode = "requirements"
              /\ mergedInput(r, w) = snapshot[r].input
  BY <1>1 DEF mergedInput, SnapshotsOK
<1> DEFINE new == [p \in Parts |-> IF p \in snapshot[r].made THEN r
                                   ELSE IF p \in ContextParts(r)
                                   THEN snapshot[r].context[p] ELSE w.art[p]]
           drawn == (w.drawn \ ContextParts(r)) \cup (snapshot[r].made \cap ReqDiagrams)
<1>3. /\ new \in [Parts -> Makers]
      /\ \A p \in Parts : new[p] # w.art[p] \/ p \in ContextParts(r)
           => \/ p \in snapshot[r].made
              \/ p \in ContextParts(r) /\ new[p] = snapshot[r].context[p]
  <2> HIDE DEF Parts, Makers, ContextParts
  <2> QED BY <1>1
<1>4. merged(r, w) = [version |-> w.version + 1, source |-> r,
                      input |-> mergedInput(r, w), art |-> new, drawn |-> drawn]
  BY DEF merged
<1>5. /\ drawn \in SUBSET ReqDiagrams
      /\ \A p \in w.drawn \ drawn : p \in ContextParts(r)
  BY <1>1
<1> HIDE DEF new, drawn
<1>6. merged(r, w) \in Workspaces
  BY <1>1, <1>2, <1>3, <1>4, <1>5 DEF Workspaces
<1> QED BY <1>2, <1>3, <1>4, <1>5, <1>6

\* A save makes the next version; all copies but the saver's are then older.
LEMMA CopiesAge ==
  ASSUME TypeOK, Copies, workspace'.version = workspace.version + 1
  PROVE  /\ \A u \in Users : client[u].version < workspace'.version
         /\ \A r \in Runs : sync[r].base.version < workspace'.version
         /\ defaultProjectWorkspace.version < workspace'.version
BY DefaultOK DEF TypeOK, Copies, Copy, Syncs, Workspaces

\* What a user saves was made from the workspace as it is.
LEMMA UserSave ==
  ASSUME IInv, NEW u \in Users, NEW s \in Runs \cup {Nobody}, Saves(u, s),
         isCurrent(client[u])
  PROVE  /\ client[u] = workspace /\ client' = [client EXCEPT ![u] = workspace']
         /\ workspace' \in Workspaces
         /\ workspace'.version = workspace.version + 1
<1>1. client[u] = workspace
  BY DEF IInv, Copies, Copy, isCurrent
<1>2. client' = [client EXCEPT ![u] = workspace']
  BY DEF Saves
<1>3. \/ \E i \in Inputs : workspace' =
           [workspace EXCEPT !.version = @ + 1, !.source = s, !.input = i]
      \/ \E p \in Parts : workspace' =
           [workspace EXCEPT !.version = @ + 1, !.source = s, !.art[p] = Edited]
  BY <1>1 DEF Saves
<1>4. workspace \in Workspaces /\ Edited \in Makers
  BY DEF IInv, TypeOK, Makers
<1>5. ASSUME NEW i \in Inputs, workspace' =
             [workspace EXCEPT !.version = @ + 1, !.source = s, !.input = i]
      PROVE  workspace' \in Workspaces /\ workspace'.version = workspace.version + 1
  <2>1. workspace' = [version |-> workspace.version + 1, source |-> s, input |-> i,
                      art |-> workspace.art, drawn |-> workspace.drawn]
    BY <1>4, <1>5 DEF Workspaces
  <2>2. workspace.art \in [Parts -> Makers] /\ workspace.drawn \in SUBSET ReqDiagrams
    BY <1>4 DEF Workspaces
  <2> QED BY <1>4, <2>1, <2>2, EditOK
<1>6. ASSUME NEW p \in Parts, workspace' =
             [workspace EXCEPT !.version = @ + 1, !.source = s, !.art[p] = Edited]
      PROVE  workspace' \in Workspaces /\ workspace'.version = workspace.version + 1
  <2>1. [workspace.art EXCEPT ![p] = Edited] \in [Parts -> Makers]
    BY <1>4 DEF Workspaces
  <2>2. workspace' = [version |-> workspace.version + 1, source |-> s,
                      input |-> workspace.input,
                      art |-> [workspace.art EXCEPT ![p] = Edited],
                      drawn |-> workspace.drawn]
    BY <1>4, <1>6 DEF Workspaces
  <2>3. /\ workspace.input \in Inputs \cup {NoInput, Unruled}
        /\ workspace.drawn \in SUBSET ReqDiagrams
    BY <1>4 DEF Workspaces
  <2> QED BY <1>4, <2>1, <2>2, <2>3, EditOK
<1> QED BY <1>1, <1>2, <1>3, <1>5, <1>6

\* So was what a sync saves.
LEMMA SyncSave ==
  ASSUME IInv, NEW r \in Runs, SyncSaves(r)
  PROVE  /\ sync[r].base = workspace /\ workspace' = merged(r, workspace)
         /\ snapshot[r].status = "ended" /\ workspace' \in Workspaces
         /\ workspace'.version = workspace.version + 1
<1>1. sync[r].base = workspace
  BY DEF IInv, Copies, Copy, isCurrent, SyncSaves
<1>2. workspace' = merged(r, workspace) /\ workspace \in Workspaces
  BY <1>1 DEF SyncSaves, IInv, TypeOK
<1>3. snapshot[r].status = "ended"
  BY DEF IInv, Attempts, SyncSaves
<1> QED BY <1>1, <1>2, <1>3, MergedOK DEF IInv

-----------------------------------------------------------------------------
LEMMA SavesInv ==
  ASSUME IInv, NEW u \in Users, NEW s \in Runs \cup {Nobody}, Saves(u, s)
  PROVE  IInv'
<1>1. CASE isCurrent(client[u])
  <2>1. /\ client' = [client EXCEPT ![u] = workspace'] /\ workspace' \in Workspaces
        /\ workspace'.version = workspace.version + 1
        /\ UNCHANGED <<snapshot, sync>>
    BY <1>1, UserSave DEF Saves
  <2>2. TypeOK'
    BY <2>1 DEF IInv, TypeOK
  <2>3. Copies'
    BY <2>1, CopiesAge, DefaultOK DEF IInv, TypeOK, Copies, Copy, Syncs, Workspaces
  <2>4. Attempts'
    BY <2>1 DEF IInv, TypeOK, Attempts, Syncs, Workspaces
  <2>5. SnapshotsOK'
    BY <2>1 DEF IInv, SnapshotsOK
  <2> QED BY <2>2, <2>3, <2>4, <2>5 DEF IInv
<1>2. CASE ~isCurrent(client[u])
  <2>1. /\ client' = [client EXCEPT ![u] = workspace]
        /\ UNCHANGED <<workspace, snapshot, sync>>
    BY <1>2 DEF Saves
  <2> QED BY <2>1 DEF IInv, TypeOK, Copies, Copy, Attempts, SnapshotsOK, Syncs, Workspaces
<1> QED BY <1>1, <1>2

\* Clients that read, runs that start and runs that end.
LEMMA RunsInv ==
  ASSUME IInv,
         \/ \E u \in Users : Loads(u)
         \/ \E r \in Runs, u \in Users, mode \in Modes, selected \in SUBSET ReqDiagrams :
              Starts(r, u, mode, selected)
         \/ \E r \in Runs : End(r)
  PROVE  IInv'
<1>1. ASSUME NEW u \in Users, Loads(u) PROVE IInv'
  BY <1>1 DEF Loads, IInv, TypeOK, Copies, Copy, Attempts, SnapshotsOK, Syncs, Workspaces
<1>2. ASSUME NEW r \in Runs, NEW u \in Users, NEW mode \in Modes,
             NEW selected \in SUBSET ReqDiagrams, Starts(r, u, mode, selected)
      PROVE  IInv'
  <2> DEFINE text == IF mode # "requirements" THEN NoInput
                     ELSE IF client[u].input = NoInput THEN Unruled ELSE client[u].input
             new == [snapshot[r] EXCEPT !.status = "running", !.mode = mode,
                       !.selected = selected, !.context = client[u].art, !.input = text]
  <2>1. /\ snapshot' = [snapshot EXCEPT ![r] = new]
        /\ new \in Snapshots /\ new.status # "ended" /\ snapshot[r].status # "ended"
        /\ new.mode = "requirements" => new.input # NoInput
        /\ new.failed = {}
    <3>1. client[u].input \in Inputs \cup {NoInput, Unruled} /\ client[u].art \in [Parts -> Makers]
      BY DEF IInv, TypeOK, Workspaces
    <3>2. /\ text \in Inputs \cup {NoInput, Unruled}
          /\ mode = "requirements" => text # NoInput
      BY <3>1, InputAssumption
    <3> HIDE DEF text
    <3>3. /\ new \in Snapshots /\ new.status = "running"
          /\ new.mode = mode /\ new.input = text /\ new.failed = snapshot[r].failed
      <4>1. snapshot[r] \in Snapshots
        BY DEF IInv, TypeOK
      <4>2. new \in Snapshots
        BY <3>1, <3>2, <4>1 DEF Snapshots
      <4>3. /\ new.status = "running" /\ new.mode = mode
            /\ new.input = text /\ new.failed = snapshot[r].failed
        BY <4>1 DEF Snapshots
      <4> QED BY <4>2, <4>3
    <3>4. snapshot' = [snapshot EXCEPT ![r] = new] /\ snapshot[r].status = "new"
      BY <1>2 DEF Starts, IInv, TypeOK, text
    <3>5. snapshot[r].failed = {}
      BY <3>4 DEF IInv, SnapshotsOK
    <3> QED BY <3>2, <3>3, <3>4, <3>5
  <2> HIDE DEF new, text
  <2>2. \A q \in Runs : snapshot'[q] = IF q = r THEN new ELSE snapshot[q]
    BY <2>1 DEF IInv, TypeOK
  <2>3. UNCHANGED <<workspace, sync, client>>
    BY <1>2 DEF Starts
  <2>4. TypeOK'
    BY <2>1, <2>3 DEF IInv, TypeOK
  <2>5. Copies'
    BY <2>3 DEF IInv, Copies, Copy
  <2>6. Attempts'
    BY <2>1, <2>2, <2>3 DEF IInv, Attempts
  <2>7. SnapshotsOK'
    BY <2>1, <2>2 DEF IInv, SnapshotsOK
  <2> QED BY <2>4, <2>5, <2>6, <2>7 DEF IInv
<1>3. ASSUME NEW r \in Runs, End(r) PROVE IInv'
  <2>1. PICK made \in SUBSET PartsOf(snapshot[r].mode), failed \in SUBSET snapshot[r].selected,
             i \in Inputs \cup {NoInput, Unruled} :
               /\ i = snapshot[r].input \/ (LooksForRules(r) /\ i # NoInput)
               /\ Ends(r, made, failed, i)
    BY <1>3 DEF End
  <2>2. made \subseteq Parts
    BY DEF PartsOf, Parts
  <2> DEFINE new == [snapshot[r] EXCEPT !.status = "ended", !.made = made,
                                        !.failed = failed, !.input = i]
  <2>3. /\ snapshot' = [snapshot EXCEPT ![r] = new]
        /\ new \in Snapshots /\ snapshot[r].status = "running" /\ new.status = "ended"
        /\ new.mode = "requirements" => new.input # NoInput
        /\ new.failed \subseteq new.selected
    <3>1. failed \subseteq ReqDiagrams /\ snapshot[r].status = "running"
      BY <2>1 DEF Ends, IInv, TypeOK, Snapshots
    <3>2. /\ new \in Snapshots /\ new.status = "ended"
          /\ new.mode = snapshot[r].mode /\ new.input = i
          /\ new.failed = failed /\ new.selected = snapshot[r].selected
      <4>1. snapshot[r] \in Snapshots
        BY DEF IInv, TypeOK
      <4>2. new \in Snapshots
        BY <2>2, <3>1, <4>1 DEF Snapshots
      <4>3. /\ new.status = "ended" /\ new.mode = snapshot[r].mode /\ new.input = i
            /\ new.failed = failed /\ new.selected = snapshot[r].selected
        BY <4>1 DEF Snapshots
      <4> QED BY <4>2, <4>3
    <3>3. snapshot[r].mode = "requirements" => i # NoInput
      BY <2>1, <3>1 DEF IInv, SnapshotsOK
    <3>4. snapshot' = [snapshot EXCEPT ![r] = new]
      BY <2>1 DEF Ends, IInv, TypeOK
    <3> QED BY <3>1, <3>2, <3>3, <3>4
  <2> HIDE DEF new
  <2>4. \/ sync' = [sync EXCEPT ![r].step = "started"]
        \/ sync' = sync
    BY <2>1 DEF Ends
  <2>5. UNCHANGED <<workspace, client>>
    BY <2>1 DEF Ends
  <2>8. SnapshotsOK'
    BY <2>3 DEF IInv, TypeOK, SnapshotsOK
  <2>6. CASE sync' = sync
    BY <2>3, <2>5, <2>6, <2>8 DEF IInv, TypeOK, Copies, Copy, Attempts
  <2>7. CASE sync' = [sync EXCEPT ![r].step = "started"]
    <3> DEFINE new2 == [sync[r] EXCEPT !.step = "started"]
    <3>1. /\ sync[r] \in Syncs /\ sync[r].step = "idle" /\ sync[r].attempt = 0
      BY <2>3 DEF IInv, TypeOK, Attempts
    <3>2. sync' = [sync EXCEPT ![r] = new2]
      BY <2>7 DEF IInv, TypeOK
    <3>3. /\ new2 \in Syncs /\ new2.step = "started" /\ new2.base = sync[r].base
          /\ new2.attempt = 0
      BY <3>1 DEF Syncs
    <3> HIDE DEF new2
    <3>4. /\ \A q \in Runs : sync'[q] = IF q = r THEN new2 ELSE sync[q]
          /\ \A q \in Runs : snapshot'[q] = IF q = r THEN new ELSE snapshot[q]
      BY <2>3, <3>2 DEF IInv, TypeOK
    <3>5. TypeOK'
      BY <2>3, <2>5, <3>2, <3>3 DEF IInv, TypeOK
    <3>6. Copies'
      BY <2>5, <3>3, <3>4 DEF IInv, Copies, Copy
    <3>7. Attempts'
      BY <2>3, <2>5, <3>3, <3>4 DEF IInv, Attempts
    <3> QED BY <2>8, <3>5, <3>6, <3>7 DEF IInv
  <2> QED BY <2>4, <2>6, <2>7
<1> QED BY <1>1, <1>2, <1>3

\* A step of r's sync that leaves the workspace alone.
LEMMA OneSync ==
  ASSUME IInv, NEW r \in Runs, NEW new \in Syncs, sync' = [sync EXCEPT ![r] = new],
         UNCHANGED <<workspace, snapshot, client>>,
         sync[r].step # "idle", Copy(new.base), new.step \notin {"idle", "started"},
         new.step = "read" => /\ new.attempt \in {0, 1}
                              /\ new.first + new.attempt <= new.base.version,
         new.step = "lost" => new.first + 2 <= workspace.version
  PROVE  IInv'
<1>1. TypeOK'
  BY DEF IInv, TypeOK
<1>2. \A q \in Runs : sync'[q] = IF q = r THEN new ELSE sync[q]
  BY DEF IInv, TypeOK
<1>3. Copies'
  BY <1>2 DEF IInv, Copies, Copy
<1>4. Attempts'
  BY <1>2 DEF IInv, Attempts
<1>5. SnapshotsOK'
  BY DEF IInv, SnapshotsOK
<1> QED BY <1>1, <1>3, <1>4, <1>5 DEF IInv

LEMMA SyncInv ==
  ASSUME IInv, NEW r \in Runs, Sync(r)
  PROVE  IInv'
<1>1. /\ sync[r] \in Syncs /\ sync[r].base \in Workspaces /\ workspace \in Workspaces
      /\ sync[r].attempt \in Nat /\ sync[r].first \in Nat
      /\ sync[r].base.version \in Nat /\ workspace.version \in Nat
  BY DEF IInv, TypeOK, Syncs, Workspaces
<1>2. Copy(workspace) /\ Copy(sync[r].base) /\ Copy(defaultProjectWorkspace)
  BY <1>1 DEF IInv, Copies, Copy
<1>3. CASE SyncReads(r)
  <2> DEFINE new == [sync[r] EXCEPT !.step = "read", !.base = workspace,
                                    !.first = workspace.version]
  <2>1. /\ new \in Syncs /\ new.step = "read" /\ new.base = workspace
        /\ new.first = workspace.version /\ new.attempt = sync[r].attempt
    BY <1>1 DEF Syncs
  <2>2. sync[r].step = "started" /\ sync[r].attempt = 0
    BY <1>3 DEF SyncReads, IInv, Attempts
  <2>3. sync' = [sync EXCEPT ![r] = new] /\ UNCHANGED <<workspace, snapshot, client>>
    BY <1>3 DEF SyncReads, IInv, TypeOK
  <2> HIDE DEF new
  <2>4. /\ sync[r].step # "idle" /\ Copy(new.base)
        /\ new.step \notin {"idle", "started"} /\ new.step # "lost"
        /\ new.attempt \in {0, 1} /\ new.first + new.attempt <= new.base.version
    BY <1>1, <1>2, <2>1, <2>2
  <2> QED BY <2>1, <2>3, <2>4, OneSync
<1>4. CASE SyncSkips(r)
  <2> DEFINE new == NotUnderWay("skipped")
  <2>1. new \in Syncs /\ new.step = "skipped" /\ new.base = defaultProjectWorkspace
    BY NotUnderWayOK
  <2>2. sync' = [sync EXCEPT ![r] = new] /\ UNCHANGED <<workspace, snapshot, client>>
    BY <1>4 DEF SyncSkips, IInv, TypeOK
  <2>3. sync[r].step = "read"
    BY <1>4 DEF SyncSkips
  <2> HIDE DEF new
  <2> QED BY <1>2, <2>1, <2>2, <2>3, OneSync
<1>5. CASE SyncSaves(r)
  <2> DEFINE new == NotUnderWay("synced")
  <2>1. /\ workspace' \in Workspaces /\ workspace'.version = workspace.version + 1
        /\ UNCHANGED <<snapshot, client>> /\ sync[r].step = "read"
    BY <1>5, SyncSave DEF SyncSaves
  <2>2. new \in Syncs /\ new.step = "synced" /\ new.base = defaultProjectWorkspace
    BY NotUnderWayOK
  <2>3. sync' = [sync EXCEPT ![r] = new]
    BY <1>5 DEF SyncSaves, IInv, TypeOK
  <2> HIDE DEF new
  <2>4. \A q \in Runs : sync'[q] = IF q = r THEN new ELSE sync[q]
    BY <2>3 DEF IInv, TypeOK
  <2>5. TypeOK'
    BY <2>1, <2>2, <2>3 DEF IInv, TypeOK
  <2>6. Copies'
    <3>1. /\ \A u \in Users : client[u].version \in Nat
          /\ \A q \in Runs : sync[q].base.version \in Nat
          /\ defaultProjectWorkspace.version \in Nat
      BY DefaultOK DEF IInv, TypeOK, Syncs, Workspaces
    <3> QED BY <1>1, <2>1, <2>2, <2>4, <3>1, CopiesAge DEF IInv, Copies, Copy
  <2>7. Attempts'
    <3>1. \A q \in Runs : sync[q].first \in Nat
      BY DEF IInv, TypeOK, Syncs
    <3> QED BY <1>1, <2>1, <2>2, <2>4, <3>1 DEF IInv, Attempts
  <2>8. SnapshotsOK'
    BY <2>1 DEF IInv, SnapshotsOK
  <2> QED BY <2>5, <2>6, <2>7, <2>8 DEF IInv
<1>6. CASE SyncConflicts(r)
  <2> DEFINE new == [sync[r] EXCEPT
                       !.step = IF sync[r].attempt = 0 THEN "read" ELSE "lost",
                       !.attempt = sync[r].attempt + 1, !.base = workspace]
  <2>1. /\ new \in Syncs /\ new.base = workspace /\ new.first = sync[r].first
        /\ new.step = IF sync[r].attempt = 0 THEN "read" ELSE "lost"
        /\ new.attempt = sync[r].attempt + 1
    <3>1. /\ (IF sync[r].attempt = 0 THEN "read" ELSE "lost") \in {"read", "lost"}
          /\ sync[r].attempt + 1 \in Nat
      BY <1>1
    <3> QED BY <1>1, <3>1 DEF Syncs
  <2>2. sync' = [sync EXCEPT ![r] = new] /\ UNCHANGED <<workspace, snapshot, client>>
    BY <1>6 DEF SyncConflicts, IInv, TypeOK
  <2>3. sync[r].base.version < workspace.version
    BY <1>1, <1>2, <1>6 DEF SyncConflicts, isCurrent, Copy
  <2>4. /\ sync[r].step = "read" /\ sync[r].attempt \in {0, 1}
        /\ sync[r].first + sync[r].attempt <= sync[r].base.version
    BY <1>6 DEF SyncConflicts, IInv, Attempts
  <2> HIDE DEF new
  <2>5. /\ sync[r].step # "idle" /\ Copy(new.base)
        /\ new.step \notin {"idle", "started"}
    BY <1>2, <2>1, <2>4
  <2>6. new.step = "read" => /\ new.attempt \in {0, 1}
                             /\ new.first + new.attempt <= new.base.version
    BY <1>1, <2>1, <2>3, <2>4
  <2>7. new.step = "lost" => new.first + 2 <= workspace.version
    BY <1>1, <2>1, <2>3, <2>4
  <2> QED BY <2>1, <2>2, <2>5, <2>6, <2>7, OneSync
<1>7. CASE SyncFails(r)
  <2> DEFINE new == NotUnderWay("failed")
  <2>1. new \in Syncs /\ new.step = "failed" /\ new.base = defaultProjectWorkspace
    BY NotUnderWayOK
  <2>2. sync' = [sync EXCEPT ![r] = new] /\ UNCHANGED <<workspace, snapshot, client>>
    BY <1>7 DEF SyncFails, IInv, TypeOK
  <2>3. sync[r].step # "idle"
    BY <1>7 DEF SyncFails
  <2> HIDE DEF new
  <2> QED BY <1>2, <2>1, <2>2, <2>3, OneSync
<1> QED BY <1>3, <1>4, <1>5, <1>6, <1>7 DEF Sync

LEMMA Invariance == Spec => []IInv
<1>1. IInv /\ [Next]_vars => IInv'
  <2> SUFFICES ASSUME IInv, [Next]_vars PROVE IInv'
    OBVIOUS
  <2>1. CASE UNCHANGED vars
    BY <2>1 DEF vars, IInv, TypeOK, Copies, Copy, Attempts, SnapshotsOK
  <2>2. CASE Next
    <3>1. ASSUME NEW u \in Users, User(u) PROVE IInv'
      BY <3>1, SavesInv, RunsInv DEF User
    <3>2. ASSUME NEW r \in Runs, End(r) \/ Sync(r) PROVE IInv'
      BY <3>2, RunsInv, SyncInv
    <3> QED BY <2>2, <3>1, <3>2 DEF Next
  <2> QED BY <2>1, <2>2
<1> QED BY <1>1, InitInv, PTL DEF Spec

-----------------------------------------------------------------------------
\* The steps that save; the others leave the workspace alone, and end no sync.
LEMMA WhoSaves ==
  ASSUME IInv, [Next]_vars
  PROVE  \/ \E u \in Users, s \in Runs \cup {Nobody} :
              Saves(u, s) /\ isCurrent(client[u])
         \/ \E r \in Runs : SyncSaves(r)
         \/ /\ workspace' = workspace
            /\ \A r \in Runs : sync'[r].step = "synced" => sync[r].step = "synced"
<1>1. sync \in [Runs -> Syncs]
  BY DEF IInv, TypeOK
<1>2. CASE UNCHANGED vars
  BY <1>2 DEF vars
<1>3. ASSUME NEW u \in Users, Loads(u)
      PROVE  UNCHANGED <<workspace, sync>>
  BY <1>3 DEF Loads
<1>4. ASSUME NEW u \in Users, NEW s \in Runs \cup {Nobody}, Saves(u, s),
             ~isCurrent(client[u])
      PROVE  UNCHANGED <<workspace, sync>>
  BY <1>4 DEF Saves
<1>5. ASSUME NEW r \in Runs, NEW u \in Users, NEW mode \in Modes,
             NEW selected \in SUBSET ReqDiagrams, Starts(r, u, mode, selected)
      PROVE  UNCHANGED <<workspace, sync>>
  BY <1>5 DEF Starts
<1>6. ASSUME NEW r \in Runs, End(r) \/ SyncReads(r) \/ SyncSkips(r) \/ SyncConflicts(r)
                           \/ SyncFails(r)
      PROVE  /\ workspace' = workspace
             /\ \A q \in Runs : sync'[q].step = "synced" => sync[q].step = "synced"
  <2>1. CASE End(r)
    BY <1>1, <2>1 DEF End, Ends, Syncs
  <2>2. CASE SyncReads(r)
    BY <1>1, <2>2 DEF SyncReads, Syncs
  <2>3. CASE SyncSkips(r)
    BY <1>1, <2>3, NotUnderWayOK DEF SyncSkips
  <2>4. CASE SyncConflicts(r)
    BY <1>1, <2>4 DEF SyncConflicts, Syncs
  <2>5. CASE SyncFails(r)
    BY <1>1, <2>5, NotUnderWayOK DEF SyncFails
  <2> QED BY <1>6, <2>1, <2>2, <2>3, <2>4, <2>5
<1>7. CASE Next
  <2>1. CASE \E u \in Users : User(u)
    BY <2>1, <1>3, <1>4, <1>5 DEF User
  <2>2. CASE \E r \in Runs : End(r) \/ Sync(r)
    BY <2>2, <1>6 DEF Sync
  <2> QED BY <1>7, <2>1, <2>2 DEF Next
<1> QED BY <1>2, <1>7

\* A saving user has no sync finish, and a finishing sync is the one that saves.
LEMMA Savers ==
  ASSUME IInv, NEW r \in Runs, sync[r].step # "synced", sync'[r].step = "synced",
         [Next]_vars
  PROVE  SyncSaves(r)
<1>1. ASSUME NEW u \in Users, NEW s \in Runs \cup {Nobody}, Saves(u, s) PROVE FALSE
  BY <1>1 DEF Saves
<1>2. PICK q \in Runs : SyncSaves(q)
  BY <1>1, WhoSaves
<1>3. q = r
  BY <1>2 DEF SyncSaves, IInv, TypeOK
<1> QED BY <1>2, <1>3

-----------------------------------------------------------------------------
\* TypeOK holds for any number of runs, users, parts and saves.
THEOREM TypeCorrect == Spec => []TypeOK
BY Invariance, PTL DEF IInv

\* A sync that ends in a version conflict has seen two saves of others go by, in
\* every behaviour (project-workspace-sync.ts, the loop of two attempts).
THEOREM ConflictsTakeTwoSaves == Spec => []ConflictTakesTwoSaves
<1>1. IInv => ConflictTakesTwoSaves
  <2> SUFFICES ASSUME IInv, NEW r \in Runs, sync[r].step = "lost"
               PROVE  workspace.version >= sync[r].first + 2
    BY DEF ConflictTakesTwoSaves
  <2>1. sync[r].first + 2 <= workspace.version
    BY DEF IInv, Attempts
  <2>2. sync[r].first \in Nat /\ workspace.version \in Nat
    BY DEF IInv, TypeOK, Syncs, Workspaces
  <2> QED BY <2>1, <2>2
<1> QED BY <1>1, Invariance, PTL

\* A part that comes with a snapshot is one of those PutsBack names.
LEMMA WhatIsPutBack ==
  ASSUME IInv, NEW r \in Runs, NEW p \in ContextParts(r),
         workspace'.art[p] = snapshot[r].context[p]
  PROVE  PutsBack(r, p)
<1>1. snapshot[r].failed \subseteq snapshot[r].selected
  BY DEF IInv, SnapshotsOK
<1> QED BY <1>1 DEF ContextParts, givenModels, PutsBack, inferRestorableRunKind

\* No save loses what another has saved, but for what a run puts back, for any
\* number of users and runs: a save that passes the comparison of versions was
\* made from the workspace as it is.
THEOREM NoSaveIsEverLost == Spec => NoSaveIsLost
<1> DEFINE Step == /\ \A p \in Parts :
                        workspace'.art[p] # workspace.art[p]
                        \/ p \in workspace.drawn \ workspace'.drawn => MayChange(p)
                   /\ workspace'.input # workspace.input => MayChangeInput
<1>1. ASSUME IInv, [Next]_vars PROVE [Step]_vars
  <2>1. ASSUME NEW u \in Users, NEW s \in Runs \cup {Nobody}, Saves(u, s),
               isCurrent(client[u])
        PROVE  Step
    <3>1. client[u] = workspace /\ client' = [client EXCEPT ![u] = workspace']
      BY <1>1, <2>1, UserSave
    <3>2. client'[u] = workspace'
      BY <1>1, <3>1 DEF IInv, TypeOK
    <3> QED BY <3>1, <3>2 DEF MayChange, MayChangeInput
  <2>2. ASSUME NEW r \in Runs, SyncSaves(r) PROVE Step
    <3>1. /\ workspace \in Workspaces /\ workspace' = merged(r, workspace)
          /\ snapshot[r].status # "new"
      BY <1>1, <2>2, SyncSave DEF IInv, TypeOK
    <3>2. sync'[r] # sync[r]
      <4>1. sync' = [sync EXCEPT ![r] = NotUnderWay("synced")] /\ sync[r].step = "read"
        BY <2>2 DEF SyncSaves
      <4>2. sync \in [Runs -> Syncs]
        BY <1>1 DEF IInv, TypeOK
      <4>3. sync'[r].step = "synced"
        BY <4>1, <4>2, NotUnderWayOK
      <4> QED BY <4>1, <4>3
    <3>3. /\ \A p \in Parts : \/ workspace'.art[p] # workspace.art[p]
                            \/ p \in workspace.drawn \ workspace'.drawn
               => \/ p \in snapshot[r].made
                  \/ p \in ContextParts(r) /\ workspace'.art[p] = snapshot[r].context[p]
          /\ workspace'.input # workspace.input
               => /\ snapshot[r].mode = "requirements"
                  /\ workspace'.input = snapshot[r].input
      BY <1>1, <3>1, MergedOK DEF IInv
    <3>4. ASSUME NEW p \in Parts, \/ workspace'.art[p] # workspace.art[p]
                                  \/ p \in workspace.drawn \ workspace'.drawn
          PROVE  MayChange(p)
      <4>1. p \in snapshot[r].made \/ PutsBack(r, p)
        BY <1>1, <3>3, <3>4, WhatIsPutBack
      <4> QED BY <3>2, <4>1 DEF MayChange
    <3>5. ASSUME workspace'.input # workspace.input PROVE MayChangeInput
      BY <3>2, <3>3, <3>5 DEF MayChangeInput
    <3> QED BY <3>4, <3>5
  <2>3. CASE workspace' = workspace
    BY <2>3
  <2> QED BY <1>1, <2>1, <2>2, <2>3, WhoSaves
<1> QED BY <1>1, Invariance, PTL DEF Spec, NoSaveIsLost

\* A run never saves over a newer run of its kind, on neither attempt: the source
\* it has looked at is still the source when its save goes through.
THEOREM OlderNeverReplacesANewerRun == Spec => OlderNeverReplacesNewer
<1> DEFINE Step == \A r \in Runs :
        sync[r].step # "synced" /\ sync'[r].step = "synced"
        => ~(/\ workspace.source \in Runs /\ workspace.source > r
             /\ SameKind(workspace.source, r))
<1>1. ASSUME IInv, [Next]_vars PROVE [Step]_vars
  <2>1. ASSUME NEW r \in Runs, sync[r].step # "synced", sync'[r].step = "synced"
        PROVE  ~(/\ workspace.source \in Runs /\ workspace.source > r
                 /\ SameKind(workspace.source, r))
    <3>1. SyncSaves(r)
      BY <1>1, <2>1, Savers
    <3>2. sync[r].base = workspace
      BY <1>1, <3>1, SyncSave
    <3> QED BY <3>1, <3>2 DEF SyncSaves, shouldSkipOlderSameKindSnapshot
  <2> QED BY <2>1
<1> QED BY <1>1, Invariance, PTL DEF Spec, OlderNeverReplacesNewer
=============================================================================
