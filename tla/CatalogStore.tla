---------------------------- MODULE CatalogStore ----------------------------
(***************************************************************************)
(* Model catalogs of the router: a snapshot of layers per provider, the    *)
(* two loops that refresh the live layers (the authenticated Baseten       *)
(* catalog and the public models.dev one), and the caches on disk from     *)
(* which a restarted router starts.                                        *)
(*                                                                         *)
(* The content of a public catalog is its version, which is also its       *)
(* validator (ETag); the content of an account's catalog is the account.   *)
(***************************************************************************)
EXTENDS Integers, Sequences, FiniteSets, Functions

CONSTANTS Order,          \* the slices of the public catalog, as they are written
          Baseten,        \* the one that accounts have a catalog of as well
          Models,
          MaxVersion,     \* versions the public catalog goes through
          PublicModels,   \* PublicModels[v][p]: the models in version v
          Accounts,
          AccountModels,  \* AccountModels[a]: the models of an account
          VendoredModels, \* those built into the program
          None,
          MaxCatalogFaults       \* failed requests and writes, crashes, switches

Providers == Range(Order)
Origins == {"vendored", "modelsdev", "baseten"}   \* where a record's metadata comes from

ASSUME CatalogAssumption ==
    /\ Order \in Seq(Range(Order)) /\ Baseten \in Providers
    /\ MaxVersion \in Nat \ {0} /\ MaxCatalogFaults \in Nat
    /\ \A v \in 1..MaxVersion, p \in Providers :
          PublicModels[v][p] # {} /\ PublicModels[v][p] \subseteq Models
    /\ \A a \in Accounts : AccountModels[a] \subseteq Models
    /\ VendoredModels \subseteq Models
    /\ None \notin Accounts /\ None \notin 1..MaxVersion /\ None \notin Origins

VARIABLES
    published,  \* the version models.dev serves
    account,    \* the account whose credential the router holds
    layers,     \* layers[p]: the providerLayers of the snapshot
    cacheFile,  \* cacheFile[p]: what the cache file holds, or NoLayer
    kick,       \* the channel of one kick
    triedFor,   \* the account of the last authenticated attempt
    basetenLoop, publicLoop,
    saving,     \* the holder of catalogCacheMu, its snapshot and what is left
    lost,       \* history: the last save failed
    catalogFaults

catalogVars == <<published, account, layers, cacheFile, kick, triedFor, basetenLoop, publicLoop,
          saving, lost, catalogFaults>>

----------------------------------------------------------------------------
(***************************************************************************)
(* Records, layers and their merge.                                        *)
(***************************************************************************)
NoPrice  == [source |-> None, of |-> None]
NoModels == [m \in {} |-> None]
NoLayer  == [models |-> NoModels, replacesAccount |-> FALSE, replacesPricing |-> FALSE]

\* A record: whose metadata it carries, its public and account evidence, its
\* price and where that comes from.
Record(source, public, acct, price) ==
    [source |-> source, public |-> public, account |-> acct, price |-> price]

VendoredLayer(p) ==
    [NoLayer EXCEPT !.models =
        [m \in IF p = Baseten THEN VendoredModels ELSE {} |->
            Record("vendored", None, None, [source |-> "vendored", of |-> None])]]

modelsDevLayer(p, v) ==
    [NoLayer EXCEPT !.models =
        [m \in PublicModels[v][p] |->
            Record("modelsdev", v, None, [source |-> "modelsdev", of |-> v])]]

basetenProviderCatalog(a) ==
    [models |-> [m \in AccountModels[a] |->
                    Record("baseten", None, a, [source |-> "baseten", of |-> a])],
     replacesAccount |-> TRUE, replacesPricing |-> TRUE]

Authority(source) ==
    CASE source = "baseten" -> 30 [] source = "modelsdev" -> 20 [] OTHER -> 0

mergeModelRecord(lower, higher) ==
    Record(IF Authority(higher.source) >= Authority(lower.source)
             THEN higher.source ELSE lower.source,
           IF higher.public # None THEN higher.public ELSE lower.public,
           IF higher.account # None THEN higher.account ELSE lower.account,
           IF higher.price # NoPrice THEN higher.price ELSE lower.price)

\* Variant: a layer that replaces prices leaves the account evidence alone.
ClearedPricesOnly(r, layer) ==
    [r EXCEPT !.price = IF layer.replacesPricing THEN NoPrice ELSE @]

\* What a layer leaves of a record below it.
Cleared(r, layer) ==
    [r EXCEPT !.account = IF layer.replacesAccount THEN None ELSE @,
              !.price   = IF layer.replacesPricing THEN NoPrice ELSE @]

Overlay(below, layer) ==
    [m \in DOMAIN below \cup DOMAIN layer.models |->
        IF m \notin DOMAIN layer.models THEN Cleared(below[m], layer)
        ELSE IF m \notin DOMAIN below THEN layer.models[m]
        ELSE mergeModelRecord(Cleared(below[m], layer), layer.models[m])]

\* The layers of a provider above the given one, each on top of the last.
Stack(bottom, ls) ==
    Overlay(Overlay(Overlay(bottom, ls.cache), ls.modelsdev), ls.baseten)

activeProviderCatalogs(ls) == Stack(Overlay(NoModels, ls.vendored), ls)

\* What the snapshot says of provider p.
ActiveCatalog(p) == activeProviderCatalogs(layers[p])

\* The cache of a provider is the merge of everything but the vendored layer.
ExportProviderCache(ls) ==
    LET merged == Stack(NoModels, ls)
    IN  [models |-> merged,
         replacesAccount |-> \E m \in DOMAIN merged : merged[m].account # None,
         replacesPricing |-> \/ ls.cache.replacesPricing \/ ls.modelsdev.replacesPricing
                             \/ ls.baseten.replacesPricing]

\* The cache without what came from models.dev.
WithoutPublic(r) ==
    Record(r.source, None, r.account, IF r.price.source = "modelsdev" THEN NoPrice ELSE r.price)

withoutCachedModelsDev(layer) ==
    LET kept == {m \in DOMAIN layer.models : layer.models[m].source # "modelsdev"}
    IN  IF kept = {} THEN NoLayer
        ELSE [layer EXCEPT !.models = [m \in kept |-> WithoutPublic(layer.models[m])]]

\* The public versions found in the slice of p.
Validators(p) == {ActiveCatalog(p)[m].public : m \in DOMAIN ActiveCatalog(p)} \ {None}

\* Variant: the validator of one slice stands for all.
RootETagOfOne ==
    IF Cardinality(Validators(Baseten)) = 1
    THEN CHOOSE v \in Validators(Baseten) : TRUE ELSE None

\* The validator of the whole: only when all slices have one and agree.
ModelsDevRootETag ==
    IF \E v \in 1..MaxVersion : \A p \in Providers : Validators(p) = {v}
    THEN CHOOSE v \in 1..MaxVersion : \A p \in Providers : Validators(p) = {v}
    ELSE None

----------------------------------------------------------------------------
Imported(p) == [vendored |-> VendoredLayer(p), cache |-> cacheFile[p],
                modelsdev |-> NoLayer, baseten |-> NoLayer]

LoopIdle == [at |-> "idle"]

\* A new process: pricing.New, then loadProviderCatalogCaches; both loops
\* begin with an attempt.
Boot ==
    /\ kick' = FALSE /\ triedFor' = None
    /\ basetenLoop' = [at |-> "start"] /\ publicLoop' = [at |-> "start"]
    /\ saving' = LoopIdle /\ lost' = FALSE
    /\ layers' = [p \in Providers |-> Imported(p)]

CatalogInit ==
    /\ published = 1 /\ account \in Accounts
    /\ cacheFile = [p \in Providers |-> NoLayer]
    /\ layers = [p \in Providers |-> Imported(p)]
    /\ kick = FALSE /\ triedFor = None
    /\ basetenLoop = [at |-> "start"] /\ publicLoop = [at |-> "start"]
    /\ saving = LoopIdle /\ lost = FALSE
    /\ catalogFaults = 0

CatalogFault == catalogFaults < MaxCatalogFaults /\ catalogFaults' = catalogFaults + 1

(***************************************************************************)
(* The authenticated loop.                                                 *)
(***************************************************************************)
\* An attempt: at the start, for a kick, or when the timer fires.  Another
\* kick may come while it runs.
BasetenAsks ==
    /\ \/ basetenLoop.at = "start" /\ UNCHANGED kick
       \/ basetenLoop.at = "idle" /\ kick' = FALSE
    /\ triedFor' = account
    /\ basetenLoop' = [at |-> "answered", of |-> account]
    /\ UNCHANGED <<published, account, layers, cacheFile, publicLoop, saving, lost, catalogFaults>>

ReplaceBasetenCatalog ==
    /\ basetenLoop.at = "answered"
    /\ layers' = [layers EXCEPT ![Baseten].baseten = basetenProviderCatalog(basetenLoop.of)]
    /\ basetenLoop' = [at |-> "save"]
    /\ UNCHANGED <<published, account, cacheFile, kick, triedFor, publicLoop, saving, lost, catalogFaults>>

CatalogFails ==
    /\ basetenLoop.at = "answered" /\ CatalogFault
    /\ basetenLoop' = LoopIdle
    /\ UNCHANGED <<published, account, layers, cacheFile, kick, triedFor, publicLoop, saving, lost>>

(***************************************************************************)
(* The public loop.  The request carries the validator of its snapshot.    *)
(***************************************************************************)
PublicAsks ==
    /\ publicLoop.at \in {"start", "idle"}
    /\ publicLoop' = [at |-> "answered", version |-> published,
                      notModified |-> ModelsDevRootETag = published]
    /\ UNCHANGED <<published, account, layers, cacheFile, kick, triedFor, basetenLoop,
                   saving, lost, catalogFaults>>

ReplaceModelsDev ==
    /\ publicLoop.at = "answered" /\ ~publicLoop.notModified
    /\ layers' = [p \in Providers |->
                    [layers[p] EXCEPT !.cache = withoutCachedModelsDev(@),
                                      !.modelsdev = modelsDevLayer(p, publicLoop.version)]]
    /\ publicLoop' = [at |-> "save"]
    /\ UNCHANGED <<published, account, cacheFile, kick, triedFor, basetenLoop, saving, lost, catalogFaults>>

\* Not modified: only the time of validation is new.
RevalidateModelsDev ==
    /\ publicLoop.at = "answered" /\ publicLoop.notModified
    /\ publicLoop' = [at |-> IF ModelsDevRootETag = None THEN "idle" ELSE "save"]
    /\ UNCHANGED <<published, account, layers, cacheFile, kick, triedFor, basetenLoop,
                   saving, lost, catalogFaults>>

PublicFails ==
    /\ publicLoop.at = "answered" /\ CatalogFault
    /\ publicLoop' = LoopIdle
    /\ UNCHANGED <<published, account, layers, cacheFile, kick, triedFor, basetenLoop, saving, lost>>

(***************************************************************************)
(* persistProviderCatalogCaches, called by both loops.                     *)
(***************************************************************************)
\* Under the lock a snapshot is captured.
Capture(loop) ==
    /\ saving = LoopIdle
    /\ saving' = [at |-> "write", loop |-> loop, snapshot |-> layers, left |-> Order]
    /\ UNCHANGED <<published, account, layers, cacheFile, kick, triedFor, lost, catalogFaults>>

BasetenSaves ==
    /\ basetenLoop.at = "save" /\ Capture("baseten")
    /\ basetenLoop' = [at |-> "saving"] /\ UNCHANGED publicLoop
PublicSaves ==
    /\ publicLoop.at = "save" /\ Capture("public")
    /\ publicLoop' = [at |-> "saving"] /\ UNCHANGED basetenLoop

\* Variant: a catalog that is empty ends the loop.
AfterFileStops(exported) == IF exported.models = NoModels THEN << >> ELSE Tail(saving.left)

AfterFile(exported) == Tail(saving.left)

\* One file after the other; an empty catalog is not written.  Each is
\* replaced by a rename.
WriteCache ==
    /\ saving.at = "write" /\ saving.left # << >>
    /\ LET p == Head(saving.left)
           exported == ExportProviderCache(saving.snapshot[p])
       IN  /\ saving' = [saving EXCEPT !.left = AfterFile(exported)]
           /\ cacheFile' = IF exported.models = NoModels THEN cacheFile
                      ELSE [cacheFile EXCEPT ![p] = exported]
    /\ UNCHANGED <<published, account, layers, kick, triedFor, basetenLoop, publicLoop,
                   lost, catalogFaults>>

Release ==
    /\ saving' = LoopIdle
    /\ basetenLoop' = IF saving.loop = "baseten" THEN LoopIdle ELSE basetenLoop
    /\ publicLoop' = IF saving.loop = "public" THEN LoopIdle ELSE publicLoop

Saved ==
    /\ saving.at = "write" /\ saving.left = << >>
    /\ Release /\ lost' = FALSE
    /\ UNCHANGED <<published, account, layers, cacheFile, kick, triedFor, catalogFaults>>

SaveFails ==
    /\ saving.at = "write" /\ saving.left # << >> /\ CatalogFault
    /\ Release /\ lost' = TRUE
    /\ UNCHANGED <<published, account, layers, cacheFile, kick, triedFor>>

(***************************************************************************)
(* Around the loops.                                                       *)
(***************************************************************************)
\* Variant: the kick is dropped while an attempt is under way.
KickedWhenIdle == IF basetenLoop = LoopIdle THEN TRUE ELSE kick

\* kickCatalogRefresh: a kick that is not yet consumed serves for both.
Kicked == TRUE

\* A credential is published (refreshAuthLocked) and the loop is kicked
\* before authMu is released.
CredentialSwitches ==
    /\ CatalogFault
    /\ account' \in Accounts \ {account}
    /\ kick' = Kicked
    /\ UNCHANGED <<published, layers, cacheFile, triedFor, basetenLoop, publicLoop, saving, lost>>

PublicCatalogChanges ==
    /\ published < MaxVersion /\ published' = published + 1
    /\ UNCHANGED <<account, layers, cacheFile, kick, triedFor, basetenLoop, publicLoop,
                   saving, lost, catalogFaults>>

CatalogCrash ==
    /\ CatalogFault /\ Boot
    /\ UNCHANGED <<published, account, cacheFile>>

CatalogNext ==
    \/ BasetenAsks \/ ReplaceBasetenCatalog \/ CatalogFails
    \/ PublicAsks \/ ReplaceModelsDev \/ RevalidateModelsDev \/ PublicFails
    \/ BasetenSaves \/ PublicSaves \/ WriteCache \/ Saved \/ SaveFails
    \/ CredentialSwitches \/ PublicCatalogChanges \/ CatalogCrash

CatalogSpec == CatalogInit /\ [][CatalogNext]_catalogVars

----------------------------------------------------------------------------
Prices  == [source : Origins \cup {None}, of : Accounts \cup (1..MaxVersion) \cup {None}]
Records == [source : Origins, public : (1..MaxVersion) \cup {None},
            account : Accounts \cup {None}, price : Prices]
Catalogs  == UNION {[ms -> Records] : ms \in SUBSET Models}
Layers    == [models : Catalogs, replacesAccount : BOOLEAN, replacesPricing : BOOLEAN]
ProviderLayers == [vendored : Layers, cache : Layers, modelsdev : Layers, baseten : Layers]
Snapshots == [Providers -> ProviderLayers]

\* What the sources offer, what is shown of it and kept, and the work of the loops.
SourceType  == published \in 1..MaxVersion /\ account \in Accounts
ContentType == layers \in Snapshots /\ cacheFile \in [Providers -> Layers]
LoopType ==
    /\ basetenLoop \in [at : {"start", "idle", "save", "saving"}] \cup
                       [at : {"answered"}, of : Accounts]
    /\ publicLoop \in [at : {"start", "idle", "save", "saving"}] \cup
                      [at : {"answered"}, version : 1..MaxVersion, notModified : BOOLEAN]
SavingType ==
    \/ saving = LoopIdle
    \/ /\ saving \in [at : {"write"}, loop : {"baseten", "public"},
                      snapshot : Snapshots, left : Seq(Providers)]
       /\ (IF saving.loop = "baseten" THEN basetenLoop ELSE publicLoop).at = "saving"
FlagType ==
    /\ kick \in BOOLEAN /\ triedFor \in Accounts \cup {None} /\ lost \in BOOLEAN
    /\ catalogFaults \in 0..MaxCatalogFaults

CatalogTypeOK ==
    SourceType /\ ContentType /\ LoopType /\ SavingType /\ FlagType

\* The validator the router sends is true: if it names a version, then every
\* slice shows exactly that version's models as public, so that "not
\* modified" means there is nothing to fetch, also after a crash between the
\* cache files of two providers (ModelsDevRootETag).
PublicOf(p) == {m \in DOMAIN ActiveCatalog(p) : ActiveCatalog(p)[m].public # None}

RootETagTrue ==
    ModelsDevRootETag # None =>
        \A p \in Providers : PublicOf(p) = PublicModels[ModelsDevRootETag][p]

\* Once an account's catalog is fetched, nothing of another account shows:
\* no availability and no price, whichever cache the process started from
\* (replacesAccountAvailability, replacesPricing).
NoForeignAccount ==
    layers[Baseten].baseten # NoLayer =>
        \A m \in DOMAIN ActiveCatalog(Baseten) :
            LET r == ActiveCatalog(Baseten)[m]
                a == CHOOSE a \in Accounts : layers[Baseten].baseten = basetenProviderCatalog(a)
            IN  /\ r.account \in {None, a}
                /\ r.price.source = "baseten" => r.price.of = a
                /\ m \in AccountModels[a] => r.account = a

\* A credential that was switched while an attempt was under way is followed
\* by an attempt with the new one (kickCatalogRefresh): when the loop waits
\* for its timer and no kick is left, the last attempt was for this account.
KickNotLost ==
    basetenLoop.at = "idle" /\ ~kick => triedFor = account

\* The files on disk follow the snapshot: once both loops wait, and the last
\* save did not fail, a restart would start from what is shown now, whichever
\* loop saved last (catalogCacheMu, the snapshot taken inside).
DiskCurrent ==
    basetenLoop = LoopIdle /\ publicLoop = LoopIdle /\ ~lost =>
        \A p \in Providers :
            LET exported == ExportProviderCache(layers[p])
            IN  exported.models # NoModels => cacheFile[p] = exported

\* What the catalog shows is true of its sources: the validator sent and the
\* account shown.
CatalogTrue == RootETagTrue /\ NoForeignAccount

\* Loops and files do not fall behind: the two invariants above.
CachesFollow == KickNotLost /\ DiskCurrent

\* What is shown and what is kept: both of the above.
CatalogSound == CatalogTrue /\ CachesFollow
=============================================================================
