----------------------------- MODULE TraceDecode -----------------------------
(***************************************************************************)
(* What traces package writes and traces decode reads (internal/           *)
(* tracepackage: create.go, scanner.go, decode.go, decode_pipeline.go, the *)
(* workspace and the identity of files on Unix; traces_native.go and       *)
(* traces_decode.go).  A package is made of traces and of turns that the   *)
(* collectors found; the decoder checks all of it twice, before and after  *)
(* the operator confirms, while the file may be rewritten or replaced.     *)
(***************************************************************************)
EXTENDS Integers, Sequences, FiniteSets

CONSTANTS MaxSourceEdits,   \* bound: times that the package's file changes
          MaxDecodeFaults   \* bound: calls that fail, kills

ASSUME DecodeBounds == MaxSourceEdits \in Nat /\ MaxDecodeFaults \in Nat

MatchModes(client) ==
    {"explicit_session"} \cup (IF client = "codex" THEN {"canonical_request", "turn_hash"} ELSE {"response_id"})
Statuses == {"completed", "failed", "aborted"}

\* How the body of a trace was captured: not at all, plain, compressed, compressed in several
\* members, or in an encoding that the scanner cannot read.
Bodies == {"omitted", "plain", "gzip", "members", "br"}

VARIABLES material,     \* what the package is made from
          archive,      \* the package that was made, as the manifest and its members
          inodes,       \* inode -> which package the file holds, and its time of modification
          packagePath,  \* the inode at the package's path
          decoder,      \* traces decode
          decodeStage,  \* its staging directory is there
          outputDir,    \* what is at the output's path
          decodePast    \* history: bounds

decodeVars == <<material, archive, inodes, packagePath, decoder, decodeStage, outputDir, decodePast>>

-----------------------------------------------------------------------------
(* traces package: the turns of the collectors, and the package.           *)

\* A turn of a session is collected if a trace is linked to it or the operator selected the session,
\* and its records could all be read.
Collected(m) == {turn \in m.turns : (turn.events # {} \/ turn.explicit) /\ ~turn.unsupported}

MatchMode(turn) ==
    IF turn.events = {} THEN "explicit_session"
    ELSE IF turn.client = "codex" THEN "canonical_request" ELSE "response_id"

NativeRow(turn) ==
    [turn |-> turn.id, client |-> turn.client, events |-> turn.events, mode |-> MatchMode(turn), status |-> turn.status]
NativeRows(m) == {NativeRow(turn) : turn \in Collected(m)}
RowsOf(rows, client) == {row \in rows : row.client = client}

LinkedEvents(rows) == UNION {row.events : row \in rows}
NativeLinks(rows) == [e \in LinkedEvents(rows) |-> (CHOOSE row \in rows : e \in row.events).turn]

\* resolveNativeCollectionStatus: what the collector left out, and whether it found a turn.
CollectionStatus(drift, turns) ==
    IF drift = 0 THEN "complete" ELSE IF turns > 0 THEN "partial" ELSE "unavailable"

Drift(m, client) == Cardinality({turn \in m.turns : turn.client = client /\ turn.unsupported})

\* A client of whom nothing was selected has no collector.
Collectors(m) ==
    [client \in {turn.client : turn \in m.turns} |->
        LET rows == RowsOf(NativeRows(m), client)
        IN  [member |-> rows # {}, drift |-> Drift(m, client),
             status |-> CollectionStatus(Drift(m, client), Cardinality(rows))]]

\* decodedBodyReader: an unknown encoding is not scanned.
Scans(body) == body \in {"plain", "gzip", "members"}
Scanner(m) ==
    LET unscanned == Cardinality({e \in DOMAIN m.bodies : m.bodies[e] = "br"})
        detected == Cardinality({e \in DOMAIN m.bodies : m.secret /\ Scans(m.bodies[e])})
    IN  [unscanned |-> unscanned, detected |-> detected,
         allowUnscannedUsed |-> unscanned > 0 /\ m.allowUnscanned, allowDetectedUsed |-> detected > 0 /\ m.allowDetected]

\* validateNativeLinkage: a trace's link and its turn's name each other, and the turns without a
\* trace are those that the operator selected.
LinkageHolds(rows, links, operatorSelected) ==
    /\ \A e \in DOMAIN links : \E row \in rows : row.turn = links[e] /\ e \in row.events
    /\ \A row \in rows : \A e \in row.events : e \in DOMAIN links /\ links[e] = row.turn
    /\ \A row \in rows : row.mode = "explicit_session" => row.events = {}
    /\ operatorSelected = {row.turn : row \in {r \in rows : r.mode = "explicit_session"}}

Blocked(scanner) ==
    \/ scanner.unscanned > 0 /\ ~scanner.allowUnscannedUsed
    \/ scanner.detected > 0 /\ ~scanner.allowDetectedUsed

OperatorSelected(rows) == {row.turn : row \in {r \in rows : r.mode = "explicit_session"}}

PackageOf(m) ==
    LET rows == NativeRows(m)
        links == NativeLinks(rows)
    IN  [traces |-> [e \in DOMAIN m.bodies |-> [body |-> m.bodies[e], link |-> IF e \in DOMAIN links THEN links[e] ELSE "none"]],
         telemetry |-> DOMAIN m.bodies, rows |-> rows, operatorSelected |-> OperatorSelected(rows),
         collectors |-> Collectors(m), scanner |-> Scanner(m)]

CreateRefuses(m) ==
    \/ ~LinkageHolds(NativeRows(m), NativeLinks(NativeRows(m)), OperatorSelected(NativeRows(m)))
    \/ ~(LinkedEvents(NativeRows(m)) \subseteq DOMAIN m.bodies)
    \/ Blocked(Scanner(m))

-----------------------------------------------------------------------------
(* What traces decode accepts.                                             *)

\* validateDecodeManifest: the overrides that were used are those that were needed, each collector's
\* status follows from its drift and its rows, and each native member has its collector.
ManifestHolds(p) ==
    /\ (p.scanner.unscanned > 0) = p.scanner.allowUnscannedUsed
    /\ (p.scanner.detected > 0) = p.scanner.allowDetectedUsed
    /\ \A client \in DOMAIN p.collectors :
         LET c == p.collectors[client]
             turns == IF c.member THEN Cardinality(RowsOf(p.rows, client)) ELSE 0
         IN  c.status = CollectionStatus(c.drift, turns)
    /\ \A row \in p.rows : row.client \in DOMAIN p.collectors /\ p.collectors[row.client].member

TelemetryHolds(p) == p.telemetry \subseteq DOMAIN p.traces

\* validateNativeRows
RowHolds(row) ==
    /\ row.status = "completed"
    /\ row.mode \in MatchModes(row.client)
    /\ (row.mode = "explicit_session") = (row.events = {})

\* validateDecodedNativeLinkage, from the links that the traces' rows carry.
TraceLinks(p) == [e \in {t \in DOMAIN p.traces : p.traces[t].link # "none"} |-> p.traces[e].link]

\* decodeContentEncoding: one encoding, of one member.
DecodesBody(body) == body \in {"omitted", "plain", "gzip"}

DecodedLinkageHolds(p) == LinkageHolds(p.rows, TraceLinks(p), p.operatorSelected)

MembersHold(p) == TelemetryHolds(p) /\ (\A row \in p.rows : RowHolds(row)) /\ DecodedLinkageHolds(p)

BodiesHold(p) == \A e \in DOMAIN p.traces : DecodesBody(p.traces[e].body)

Decodable(p) == ManifestHolds(p) /\ MembersHold(p) /\ BodiesHold(p)

-----------------------------------------------------------------------------
(* traces decode.                                                          *)

NoPackage == [traces |-> <<>>]
NoInode == 0
NoPlan == [identity |-> <<NoInode, 0>>, hash |-> "none", archive |-> "none"]
DecoderIdle == [at |-> "idle", pass |-> "inspect", inode |-> NoInode, identity |-> <<NoInode, 0>>,
                hash |-> "none", archive |-> "none", plan |-> NoPlan, error |-> FALSE, clean |-> TRUE]

DecodeFault == decodePast.faults < MaxDecodeFaults
DecodeFaultCounted == decodePast' = [decodePast EXCEPT !.faults = @ + 1]
FilesRest == UNCHANGED <<material, archive, inodes, packagePath>>
DecoderGoes(at) == decoder' = [decoder EXCEPT !.at = at]
DecodeFails == decoder' = [decoder EXCEPT !.at = "clean", !.error = TRUE]

\* A file is the same if its inode, its size and its time of modification are.
Identity(inode) == <<inode, inodes[inode].stamp>>
FilesRead == UNCHANGED <<decodeStage, outputDir, decodePast>> /\ FilesRest

\* A package is made of what was captured, or refused, and is at its path.
MakePackage ==
    /\ archive = NoPackage /\ ~CreateRefuses(material)
    /\ archive' = PackageOf(material)
    /\ UNCHANGED <<material, inodes, packagePath, decoder, decodeStage, outputDir, decodePast>>

\* ValidateDecodeOutputPath, before the package is opened.
ValidateOutput ==
    /\ decoder.at = "idle" /\ archive # NoPackage
    /\ decoder' = IF outputDir = "absent" THEN [decoder EXCEPT !.at = "open"] ELSE [decoder EXCEPT !.at = "done", !.error = TRUE]
    /\ FilesRead

\* InspectDecode opens the package for its identity, makes a workspace for the inspection in the
\* temporary directory, and decodeLegacy opens the package again.
IdentifyPackage ==
    /\ decoder.at = "open" /\ decoder.pass = "inspect"
    /\ IF packagePath = NoInode
       THEN decoder' = [decoder EXCEPT !.at = "done", !.error = TRUE] /\ UNCHANGED decodeStage
       ELSE decoder' = [decoder EXCEPT !.at = "reopen", !.identity = Identity(packagePath)] /\ decodeStage' = TRUE
    /\ UNCHANGED <<outputDir, decodePast>> /\ FilesRest

\* The expected identity is that of the first open, or the plan's.
OpenPackage ==
    /\ decoder.at = "reopen" \/ (decoder.at = "open" /\ decoder.pass = "materialize")
    /\ LET expected == IF decoder.pass = "inspect" THEN decoder.identity ELSE decoder.plan.identity IN
       IF packagePath = NoInode \/ (outputDir # "absent" /\ decoder.pass = "materialize") THEN DecodeFails
       ELSE IF Identity(packagePath) # expected THEN DecodeFails
       ELSE decoder' = [decoder EXCEPT !.at = "hash", !.inode = packagePath, !.identity = expected]
    /\ FilesRead

HashPackage ==
    /\ decoder.at = "hash"
    /\ decoder' = [decoder EXCEPT !.at = "manifest", !.hash = inodes[decoder.inode].holds]
    /\ FilesRead

\* What packages hold: the first is the one that was made, the second another one that can be decoded.
Passes(holds, firstPasses) == holds = "second" \/ (holds = "first" /\ firstPasses)

ReadManifest ==
    /\ decoder.at = "manifest"
    /\ LET holds == inodes[decoder.inode].holds IN
       IF Passes(holds, ManifestHolds(archive)) THEN decoder' = [decoder EXCEPT !.at = "workspace", !.archive = holds] ELSE DecodeFails
    /\ FilesRead

\* createDecodeWorkspace: a private directory beside the output, which must not be there; that of an
\* inspection is inside the inspection's own.
CreateWorkspace ==
    /\ decoder.at = "workspace"
    /\ IF outputDir # "absent" /\ decoder.pass = "materialize"
       THEN DecodeFails /\ UNCHANGED decodeStage
       ELSE DecoderGoes("read") /\ decodeStage' = TRUE
    /\ UNCHANGED <<outputDir, decodePast>> /\ FilesRest

\* The members, each against its hash in the manifest, and everything that they must agree on.
ReadMembers ==
    /\ decoder.at = "read"
    /\ LET holds == inodes[decoder.inode].holds IN
       IF holds = decoder.archive /\ Passes(holds, MembersHold(archive)) THEN DecoderGoes("bodies") ELSE DecodeFails
    /\ FilesRead

\* From the workspace's copy of the members; the second pass writes what it decodes.
DecodeBodies ==
    /\ decoder.at = "bodies"
    /\ \/ /\ IF Passes(decoder.archive, BodiesHold(archive)) THEN DecoderGoes("unchanged") ELSE DecodeFails
          /\ UNCHANGED decodePast
       \/ DecodeFault /\ DecodeFaultCounted /\ DecodeFails
    /\ UNCHANGED <<decodeStage, outputDir>> /\ FilesRest

\* sameDecodePreflight: what was read again is what the operator confirmed.
SamePreflight == decoder.archive = decoder.plan.archive /\ decoder.hash = decoder.plan.hash

\* verifyOpenPackageUnchanged: the file that is open is as it was hashed.
OpenUnchanged == inodes[decoder.inode].holds = decoder.hash /\ Identity(decoder.inode) = decoder.identity

VerifyUnchanged ==
    /\ decoder.at = "unchanged"
    /\ IF ~OpenUnchanged \/ (decoder.pass = "materialize" /\ ~SamePreflight) THEN DecodeFails
       ELSE DecoderGoes(IF decoder.pass = "inspect" THEN "reinspect" ELSE "publish")
    /\ FilesRead

\* The path is opened once more before the plan is shown.
Reinspect ==
    /\ decoder.at = "reinspect"
    /\ IF packagePath # NoInode /\ Identity(packagePath) = decoder.identity /\ inodes[packagePath].holds = decoder.hash
       THEN decoder' = [DecoderIdle EXCEPT !.at = "clean",
                          !.plan = [identity |-> decoder.identity, hash |-> decoder.hash, archive |-> decoder.archive]]
       ELSE DecodeFails
    /\ FilesRead

Confirm ==
    /\ decoder.at = "confirm"
    /\ \/ decoder' = [decoder EXCEPT !.at = "open", !.pass = "materialize"]
       \/ DecoderGoes("done")
    /\ FilesRead

\* The bodies, the other members and their manifest: what the output is of is the archive.
Written == decoder.archive

\* renameDecodeDirectoryNoReplace; what fails after it leaves the output.
PublishDecoded ==
    /\ decoder.at = "publish"
    /\ IF outputDir = "absent"
       THEN /\ outputDir' = Written /\ decodeStage' = FALSE
            /\ \/ DecoderGoes("clean") /\ UNCHANGED decodePast
               \/ DecodeFault /\ DecodeFaultCounted /\ DecodeFails
       ELSE DecodeFails /\ UNCHANGED <<outputDir, decodeStage, decodePast>>
    /\ FilesRest

\* The workspace's cleanup, whatever happened: that of an inspection comes before the question.
CleanWorkspace ==
    /\ decoder.at = "clean"
    /\ LET asks == decoder.pass = "inspect" /\ ~decoder.error
           end == [DecoderIdle EXCEPT !.at = IF asks THEN "confirm" ELSE "done", !.plan = decoder.plan, !.error = decoder.error]
       IN  \/ /\ decodeStage' = FALSE /\ decoder' = end
              /\ UNCHANGED decodePast
           \/ /\ decodeStage /\ DecodeFault /\ DecodeFaultCounted
              /\ decoder' = [end EXCEPT !.at = "done", !.error = TRUE, !.clean = FALSE]
              /\ UNCHANGED decodeStage
    /\ UNCHANGED outputDir /\ FilesRest

KillDecoder ==
    /\ decoder.at \notin {"idle", "done", "killed"} /\ DecodeFault /\ DecodeFaultCounted
    /\ decoder' = [DecoderIdle EXCEPT !.at = "killed", !.plan = decoder.plan]
    /\ UNCHANGED <<decodeStage, outputDir>> /\ FilesRest

-----------------------------------------------------------------------------
(* The package's file, and the user.                                       *)

Edit == decodePast.edits < MaxSourceEdits /\ decodePast' = [decodePast EXCEPT !.edits = @ + 1]
NobodyElse == UNCHANGED <<material, archive, decoder, decodeStage>>

\* A write in place passes through what is no package, and a copy that keeps times hides it.
RewritePackage ==
    /\ packagePath # NoInode /\ Edit
    /\ \E holds \in {"torn", "first", "second"}, kept \in BOOLEAN :
         inodes' = [inodes EXCEPT ![packagePath] = [holds |-> holds, stamp |-> IF kept THEN @.stamp ELSE @.stamp + 1]]
    /\ NobodyElse /\ UNCHANGED <<packagePath, outputDir>>

ReplacePackage ==
    /\ Edit
    /\ \E holds \in {"first", "second"} : inodes' = Append(inodes, [holds |-> holds, stamp |-> 0])
    /\ packagePath' = Len(inodes) + 1
    /\ NobodyElse /\ UNCHANGED outputDir

RemovePackage ==
    /\ packagePath # NoInode /\ Edit
    /\ packagePath' = NoInode
    /\ NobodyElse /\ UNCHANGED <<inodes, outputDir>>

UserTakesOutput ==
    /\ outputDir = "absent" /\ Edit
    /\ outputDir' = "user"
    /\ NobodyElse /\ UNCHANGED <<inodes, packagePath>>

-----------------------------------------------------------------------------
\* Every variable keeps the type the code gives it.
DecodeTypeOK ==
    /\ archive = NoPackage \/ archive = PackageOf(material)
    /\ packagePath \in 0..Len(inodes) /\ decodeStage \in BOOLEAN
    /\ \A inode \in DOMAIN inodes : inodes[inode].holds \in {"torn", "first", "second"} /\ inodes[inode].stamp \in Nat
    /\ outputDir \in {"absent", "user", "first", "second"}
    /\ decoder.at \in {"idle", "open", "reopen", "hash", "manifest", "workspace", "read", "bodies", "unchanged", "reinspect", "confirm",
                       "publish", "clean", "done", "killed"}
    /\ decoder.plan.archive \in {"none", "first", "second"}

Turn(id, client, events, explicit, status, unsupported) ==
    [id |-> id, client |-> client, events |-> events, explicit |-> explicit, status |-> status, unsupported |-> unsupported]

\* A trace of each client; a turn of Claude Code, which ends completed or not at all, and one of Codex.
Materials ==
    [bodies : {[e1 |-> body, e2 |-> "plain"] : body \in Bodies},
     turns : {claude \cup codex :
                claude \in {{}} \cup {{Turn("t1", "claude-code", events, explicit, "completed", FALSE)} :
                                       events \in {{}, {"e1"}}, explicit \in BOOLEAN},
                codex \in {{}} \cup {{Turn("t2", "codex", events, explicit, status, unsupported)} :
                                      events \in {{}, {"e2"}}, explicit \in BOOLEAN, status \in Statuses, unsupported \in BOOLEAN}},
     secret : BOOLEAN, allowUnscanned : BOOLEAN, allowDetected : BOOLEAN]

PlainMaterial(m) == m.turns = {} /\ ~m.secret /\ ~m.allowUnscanned /\ ~m.allowDetected /\ m.bodies.e1 = "plain"

\* The file changes in the behaviours of one package only.
DecodeInit ==
    /\ material \in Materials /\ archive = NoPackage
    /\ inodes = <<[holds |-> "first", stamp |-> 0]>> /\ packagePath = 1
    /\ decoder = DecoderIdle /\ decodeStage = FALSE /\ outputDir = "absent"
    /\ decodePast = IF PlainMaterial(material) THEN [edits |-> 0, faults |-> 0]
                    ELSE [edits |-> MaxSourceEdits, faults |-> MaxDecodeFaults]

DecodeNext ==
    \/ MakePackage \/ ValidateOutput \/ IdentifyPackage \/ OpenPackage \/ HashPackage \/ ReadManifest
    \/ CreateWorkspace \/ ReadMembers \/ DecodeBodies \/ VerifyUnchanged \/ Reinspect \/ Confirm \/ PublishDecoded
    \/ CleanWorkspace \/ KillDecoder
    \/ RewritePackage \/ ReplacePackage \/ RemovePackage \/ UserTakesOutput

DecodeSpec == DecodeInit /\ [][DecodeNext]_decodeVars

-----------------------------------------------------------------------------
\* The decoder accepts what the packager makes, but for two things that the packager lets through:
\* a turn of Codex that failed or was aborted, and a body that is compressed in several members or,
\* with its override, in an encoding that the scanner cannot read.
PackageDecodes ==
    archive # NoPackage =>
        (Decodable(archive) <=> /\ \A row \in archive.rows : row.status = "completed"
                                /\ \A e \in DOMAIN material.bodies : material.bodies[e] \notin {"members", "br"})

\* What is written is the archive that the operator confirmed, however the file was rewritten,
\* replaced or removed in between.
WritesWhatWasConfirmed == outputDir \in {"first", "second"} => outputDir = decoder.plan.archive

\* A command that ends leaves no staging but where its removal failed or it was killed.
WorkspaceLeaves == decoder.at = "done" /\ decoder.clean => ~decodeStage

\* What is at the output's path is never replaced.
OutputKept == [][outputDir # "absent" => outputDir' = outputDir]_decodeVars
=============================================================================
