----------------------------- MODULE PiProvider -----------------------------
(***************************************************************************)
(* pi install, pi status and pi uninstall: one provider entry inside a     *)
(* models.json that belongs to the user, and the recovery state by which   *)
(* the commands know what they wrote.  A lock lets one command run at a    *)
(* time; each may be killed between any two steps, each save may fail, and *)
(* the user edits the file at any moment: a write of a file that changed   *)
(* since it was read is refused.  The recovery state is replaced whole.    *)
(***************************************************************************)
EXTENDS Naturals, FiniteSets

CONSTANTS PiCatalogs,     \* the providers that a catalog can give, one for each version of it
          MaxPiRuns,      \* bound: commands started
          MaxPiEdits,     \* bound: edits of models.json
          MaxPiFaults     \* bound: kills and failing saves

ASSUME PiBounds == MaxPiRuns \in Nat /\ MaxPiEdits \in Nat /\ MaxPiFaults \in Nat

VARIABLES
    models,     \* models.json: whether it is there, the user's entries, the provider entry
    recovery,   \* the recovery state, or NoRecovery
    pi,         \* the command that runs
    piPast      \* history: what the user put there, the first original, how the last command ended

piVars == <<models, recovery, pi, piPast>>

NoProvider == "none"
Foreign    == "foreign"          \* an entry of that name which the user wrote or changed

\* What the user wrote is not what a catalog gives.
ASSUME PiProviders == PiCatalogs \cap {NoProvider, Foreign} = {}

NoModels == [there |-> FALSE, others |-> {}, provider |-> NoProvider]
Found(f) == f.provider # NoProvider

NoPiRecord == [kept |-> FALSE, original |-> NoModels, files |-> {}, providers |-> {},
               pendingFile |-> NoModels, pendingProvider |-> NoProvider]
Pending(r) == r.pendingProvider # NoProvider
ClearPending(r) == [r EXCEPT !.pendingFile = NoModels, !.pendingProvider = NoProvider]
PiRecorded(r) == ClearPending([r EXCEPT !.files = @ \cup {r.pendingFile}, !.providers = @ \cup {r.pendingProvider}])

PiIdle == [op |-> "none", at |-> "idle", read |-> NoModels, save |-> NoPiRecord, goal |-> NoModels]
PiAt(op, step) == pi.op = op /\ pi.at = step
PiEnd(rc) == pi' = PiIdle /\ piPast' = [piPast EXCEPT !.ended = [op |-> pi.op, rc |-> rc]]

\* Replace and Remove refuse a file that is no longer the one that was read.
Unchanged == models = pi.read

PiFault == /\ piPast.faults < MaxPiFaults
           /\ piPast' = [piPast EXCEPT !.faults = @ + 1, !.ended = [op |-> pi.op, rc |-> 1]]

-----------------------------------------------------------------------------
(* install                                                                 *)

WithProvider(f, provider) == [f EXCEPT !.there = TRUE, !.provider = provider]
WithoutProvider(f) == [f EXCEPT !.provider = NoProvider]

\* An interrupted install is taken to have happened only if the file is exactly the one it meant.
Reconciled(r, f) ==
    IF f = r.pendingFile /\ f.provider = r.pendingProvider THEN PiRecorded(r) ELSE ClearPending(r)

RefusesInstall(r, f) ==
    /\ Found(f)
    /\ \/ ~r.kept
       \/ f.provider \notin (IF Pending(r) THEN Reconciled(r, f) ELSE r).providers

Staged(r, f, provider) ==
    LET known == IF r.kept THEN ClearPending(r) ELSE [NoPiRecord EXCEPT !.kept = TRUE, !.original = f]
    IN  [known EXCEPT !.pendingFile = WithProvider(f, provider), !.pendingProvider = provider]

Install(provider) ==
    /\ pi.op = "none" /\ piPast.runs < MaxPiRuns
    /\ pi' = IF RefusesInstall(recovery, models) THEN PiIdle
             ELSE [op |-> "install", at |-> IF Pending(recovery) THEN "reconcile" ELSE "stage", read |-> models,
                   save |-> IF Pending(recovery) THEN Reconciled(recovery, models) ELSE recovery,
                   goal |-> WithProvider(models, provider)]
    /\ piPast' = [piPast EXCEPT
                    !.runs = @ + 1,
                    !.quiet = @ \/ (~recovery.kept /\ ~Found(models)),
                    !.first = IF ~recovery.kept THEN models ELSE @,
                    !.absorbed = IF recovery.kept /\ ~RefusesInstall(recovery, models)
                                 THEN @ \cup (models.others \ recovery.original.others) ELSE @,
                    !.ended = [op |-> "install", rc |-> IF RefusesInstall(recovery, models) THEN 1 ELSE 0]]
    /\ UNCHANGED <<models, recovery>>

SaveReconciled ==
    /\ PiAt("install", "reconcile")
    /\ recovery' = pi.save /\ pi' = [pi EXCEPT !.at = "stage"]
    /\ UNCHANGED <<models, piPast>>

\* What is about to be written is on record before it is written.
SavePending ==
    /\ PiAt("install", "stage")
    /\ recovery' = Staged(pi.save, pi.read, pi.goal.provider)
    /\ pi' = [pi EXCEPT !.at = "write", !.save = recovery']
    /\ UNCHANGED <<models, piPast>>

WriteProvider ==
    /\ PiAt("install", "write")
    /\ \/ pi.goal = pi.read /\ UNCHANGED models /\ pi' = [pi EXCEPT !.at = "finalize"] /\ UNCHANGED piPast
       \/ /\ pi.goal # pi.read /\ Unchanged
          /\ models' = pi.goal /\ pi' = [pi EXCEPT !.at = "finalize"] /\ UNCHANGED piPast
       \/ pi.goal # pi.read /\ ~Unchanged /\ UNCHANGED models /\ PiEnd(1)
    /\ UNCHANGED recovery

SaveFinal ==
    /\ PiAt("install", "finalize")
    /\ recovery' = PiRecorded(pi.save) /\ PiEnd(0)
    /\ UNCHANGED models

-----------------------------------------------------------------------------
(* uninstall and status                                                    *)

RefusesUninstall(r, f) ==
    \/ ~r.kept /\ Found(f)
    \/ /\ r.kept
       /\ \/ Pending(r)
          \/ r.original.there /\ ~f.there
          \/ f \notin r.files /\ Found(f) /\ f.provider \notin r.providers

Uninstall ==
    /\ pi.op = "none" /\ piPast.runs < MaxPiRuns
    /\ LET ends == RefusesUninstall(recovery, models) \/ ~recovery.kept
           goal == IF models \in recovery.files THEN recovery.original ELSE WithoutProvider(models)
       IN  /\ pi' = IF ends THEN PiIdle
                    ELSE [op |-> "uninstall", at |-> IF goal = models THEN "drop" ELSE "restore", read |-> models,
                          save |-> recovery, goal |-> goal]
           /\ piPast' = [piPast EXCEPT !.runs = @ + 1,
                           !.ended = [op |-> "uninstall", rc |-> IF RefusesUninstall(recovery, models) THEN 1 ELSE 0]]
    /\ UNCHANGED <<models, recovery>>

RestoreModels ==
    /\ PiAt("uninstall", "restore")
    /\ IF Unchanged THEN models' = pi.goal /\ pi' = [pi EXCEPT !.at = "drop"] /\ UNCHANGED piPast
       ELSE UNCHANGED models /\ PiEnd(1)
    /\ UNCHANGED recovery

DropRecovery ==
    /\ PiAt("uninstall", "drop")
    /\ recovery' = NoPiRecord /\ PiEnd(0)
    /\ UNCHANGED models

Installed == Found(models)
Healthy == Installed /\ recovery.kept /\ ~Pending(recovery) /\ models.provider \in recovery.providers

-----------------------------------------------------------------------------
(* What happens around the commands.                                       *)

\* A save, a write or a removal fails, or the command is killed; neither leaves half a file.
PiFails ==
    /\ pi.op # "none" /\ PiFault
    /\ pi' = PiIdle /\ UNCHANGED <<models, recovery>>

\* The user adds or removes an entry of another name, writes or removes the provider entry, or
\* removes the file.
EditModels ==
    /\ piPast.edits < MaxPiEdits
    /\ LET n == piPast.edits + 1
           entries == {[models EXCEPT !.there = TRUE, !.others = @ \cup {n}]} \cup
                      {[models EXCEPT !.others = @ \ {o}] : o \in models.others}
           provider == {[models EXCEPT !.there = TRUE, !.provider = Foreign], [models EXCEPT !.provider = NoProvider]}
       IN  /\ models' \in entries \cup provider \cup {NoModels}
           /\ models' # models
           /\ piPast' = [piPast EXCEPT !.edits = n, !.mine = models'.others, !.quiet = FALSE,
                            !.foreign = models'.provider = Foreign]
    /\ UNCHANGED <<recovery, pi>>

-----------------------------------------------------------------------------
ModelFiles == [there : BOOLEAN, others : SUBSET (0..MaxPiEdits), provider : PiCatalogs \cup {NoProvider, Foreign}]

\* Every variable keeps the type the code gives it.
PiTypeOK ==
    /\ models \in ModelFiles /\ recovery.original \in ModelFiles /\ recovery.pendingFile \in ModelFiles
    /\ recovery.files \subseteq ModelFiles /\ recovery.providers \subseteq PiCatalogs
    /\ pi.read \in ModelFiles /\ pi.goal \in ModelFiles

\* The file may be missing, hold another provider, or hold an entry of the same name.
PiInit ==
    /\ models \in {NoModels, [there |-> TRUE, others |-> {0}, provider |-> NoProvider],
                   [there |-> TRUE, others |-> {}, provider |-> Foreign]}
    /\ recovery = NoPiRecord /\ pi = PiIdle
    /\ piPast = [mine |-> models.others, foreign |-> models.provider = Foreign, first |-> NoModels,
                 quiet |-> FALSE, absorbed |-> {}, ended |-> [op |-> "none", rc |-> 0],
                 runs |-> 0, edits |-> 0, faults |-> 0]

PiNext ==
    \/ \E provider \in PiCatalogs : Install(provider)
    \/ SaveReconciled \/ SavePending \/ WriteProvider \/ SaveFinal
    \/ Uninstall \/ RestoreModels \/ DropRecovery
    \/ PiFails \/ EditModels

PiSpec == PiInit /\ [][PiNext]_piVars

-----------------------------------------------------------------------------
\* An entry that the user wrote or changed under the provider's name is never replaced or removed
\* (pi_store.go:94-101, 131-136, 292-297).
ForeignKept == piPast.foreign => models.provider = Foreign

\* Whatever was killed or failed, a provider entry that these commands wrote is on record, as written
\* or as about to be: a later command can tell that it is theirs.
OursOnRecord ==
    models.provider \in PiCatalogs =>
        recovery.kept /\ models.provider \in recovery.providers \cup {recovery.pendingProvider}

\* A successful uninstall, when nobody edited the file since the first install, leaves the file as
\* that install found it, however many installs came between and wherever they were killed.
ExactRestore ==
    piPast.ended = [op |-> "uninstall", rc |-> 0] /\ pi.op = "none" /\ piPast.quiet => models = piPast.first

\* The user's other entries stay, whatever runs; but see EntriesKept for those that were there when
\* the provider was installed again.
OtherEntriesKept == piPast.mine \ piPast.absorbed \subseteq models.others

\* What status calls healthy, uninstall does not refuse.
HealthyRemovable == Healthy /\ pi.op = "none" => ~RefusesUninstall(recovery, models)

PiSound == ForeignKept /\ OursOnRecord /\ ExactRestore /\ OtherEntriesKept /\ HealthyRemovable

\* Refuted: a second install records the hash of the edited file as its own (pi_store.go:154), and
\* uninstall then restores the first original over the edits, where a test has "unrelated drift was
\* lost" for a failure (pi_store_test.go:151).
EntriesKept == piPast.mine \subseteq models.others

\* Refuted: status and uninstall advise to run install again after an interrupted one (pi_store.go:205,
\* 258); with any other edit in between, that install refuses too, though the entry is the one written.
AdviceWorks ==
    recovery.kept /\ Pending(recovery) /\ models.provider = recovery.pendingProvider /\ pi.op = "none"
    => ~RefusesInstall(recovery, models)
=============================================================================
