----------------------------- MODULE ChoicesMC -----------------------------
(***************************************************************************)
(* One run for what becomes of the user's choices: in the menu bar app, in *)
(* its catalog, in the entry by which requests are routed, and in the      *)
(* files of Codex and Pi.  In each behaviour one component moves and the   *)
(* others rest.                                                            *)
(***************************************************************************)
EXTENDS MenuApp, MenuCatalog, RouteResolution, CodexOverlay, PiProvider

MCRecoveries == <<"r1", "r2">>

VARIABLE part    \* the component that moves

fileVars == <<codexVars, piVars>>
choicesVars == <<part, menuVars, catalogVars, routeVars, fileVars>>

\* A component that rests has no state to speak of.
MenuRests ==
    /\ router = 0 /\ reads = 0 /\ inFlight = 0 /\ acceptance = 0 /\ reader = 0 /\ menu = 0
    /\ ops = [o \in AppOps |-> IdleOp] /\ recovering = 0 /\ begun = 0 /\ gate = 0 /\ lane = 0
CatalogRests ==
    /\ auth = 0 /\ shown = 0 /\ statuses = 0 /\ catalog = 0 /\ generation = 0 /\ again = 0
    /\ fetches = 0 /\ page = 0 /\ keyChange = 0
RoutesRest ==
    /\ file = 0 /\ live = 0 /\ families = 0 /\ kept = 0 /\ lists = 0 /\ listing = 0
    /\ discovery = 0 /\ call = 0 /\ routeEdits = 0
CodexRests ==
    /\ overlay = 0 /\ overlayBackup = 0 /\ doorPort = 0 /\ client = 0 /\ codex = 0 /\ told = 0
    /\ overlayPast = 0
PiRests    == models = 0 /\ recovery = 0 /\ pi = 0 /\ piPast = 0

ChoicesInit ==
    /\ part \in {"changes", "catalog", "routes", "codex", "pi"}
    /\ IF part = "changes" THEN MenuInit        ELSE MenuRests
    /\ IF part = "catalog" THEN MenuCatalogInit ELSE CatalogRests
    /\ IF part = "routes"  THEN RouteInit       ELSE RoutesRest
    /\ IF part = "codex"   THEN CodexInit       ELSE CodexRests
    /\ IF part = "pi"      THEN PiInit          ELSE PiRests

ChangesMove == part = "changes" /\ MenuNext /\ UNCHANGED <<part, catalogVars, routeVars, fileVars>>
CatalogMoves == part = "catalog" /\ MenuCatalogNext /\ UNCHANGED <<part, menuVars, routeVars, fileVars>>
RoutesMove == part = "routes" /\ RouteNext /\ UNCHANGED <<part, menuVars, catalogVars, fileVars>>
FilesMove ==
    /\ \/ part = "codex" /\ CodexNext /\ UNCHANGED piVars
       \/ part = "pi"    /\ PiNext    /\ UNCHANGED codexVars
    /\ UNCHANGED <<part, menuVars, catalogVars, routeVars>>

ChoicesNext == ChangesMove \/ CatalogMoves \/ RoutesMove \/ FilesMove

ChoicesSpec == ChoicesInit /\ [][ChoicesNext]_choicesVars

\* The parts that rest keep the state they began with.
TypesOK ==
    /\ part = "changes" => MenuTypeOK
    /\ part = "catalog" => MenuCatalogTypeOK
    /\ part = "routes"  => RouteTypeOK
    /\ part = "codex"   => CodexTypeOK
    /\ part = "pi"      => PiTypeOK

\* The controls stay closed over an unfinished change, a cancelled recovery runs nothing, and
\* the catalog on screen is not that of an older key.
AppSound == (part = "changes" => MenuSound) /\ (part = "catalog" => MenuCatalogSound)

\* Requests go where the entry says; the commands for Codex and Pi lose nothing that the user wrote
\* and know what is theirs.
ChoicesKept ==
    /\ part = "routes" => RouteSound
    /\ part = "codex"  => OverlaySafe
    /\ part = "pi"     => PiSound
=============================================================================
