------------------------------ MODULE SavedKey ------------------------------
(***************************************************************************)
(* The saved API key on macOS: one Keychain item per config file, and the  *)
(* plaintext file beside the config that older versions of Switch wrote.   *)
(* Processes (the gateway, command line commands) load, save and remove    *)
(* the key under a file lock; a load moves a legacy file into the          *)
(* Keychain.  An older version still writes the file without the lock, a   *)
(* Keychain call can fail with or without having taken effect, and a       *)
(* process can die between any two steps, which frees its lock.            *)
(*                                                                         *)
(* Source: gateway/internal/auth/saved_key_keychain.go, saved_key_file.go, *)
(* saved_key_darwin.go.                                                    *)
(***************************************************************************)
EXTENDS Naturals

CONSTANTS
    Procs,        \* processes of this version
    Keys,         \* valid keys
    NoKey,        \* no entry, no file, nothing held
    BadKey,       \* the content of a file that fails validation
    MaxWrites,    \* bound: files older versions write
    MaxKeyFaults  \* bound: failed Keychain calls and crashes

ASSUME KeyValues ==
    NoKey \notin Keys /\ BadKey \notin Keys /\ NoKey # BadKey /\ NoKey \notin Procs
ASSUME KeyBounds == MaxWrites \in Nat /\ MaxKeyFaults \in Nat

VARIABLES
    keychain,   \* the Keychain item
    legacy,     \* the legacy file: its content and which write made it
    keyLock,    \* the process that holds the flock, or NoKey
    call,       \* call[p]: the operation under way and its next step
    sight,      \* sight[p]: the legacy file as the operation saw it first
    subject,    \* subject[p]: the key being written
    writes,     \* files written so far
    keyFaults,  \* faults so far
    promised,   \* history: what the last finished save or removal promises
    removed     \* history: the files a removal that emptied the Keychain saw

keyVars == <<keychain, legacy, keyLock, call, sight, subject, writes,
             keyFaults, promised, removed>>

Unknown == "unknown"
NoLegacy == [key |-> NoKey, ino |-> 0]
Legacies == [key : Keys \cup {BadKey, NoKey}, ino : 0 .. MaxWrites]

NoCall == [op |-> "none", at |-> "none"]
Doing(p, op, at) == call[p] = [op |-> op, at |-> at]
Reaches(p, at) == call' = [call EXCEPT ![p].at = at]

\* What is stored, the calls under way, and what is counted and remembered.
KeyStored ==
    /\ keychain \in Keys \cup {NoKey}
    /\ legacy \in Legacies /\ (legacy.key = NoKey <=> legacy.ino = 0)
    /\ legacy.ino <= writes /\ writes \in 0 .. MaxWrites
KeyCalls ==
    /\ keyLock \in Procs \cup {NoKey}
    /\ call \in [Procs -> [op : {"none", "load", "save", "remove"},
                           at : {"none", "look", "set", "recheck", "unlink", "delete"}]]
    /\ sight \in [Procs -> Legacies]
    /\ subject \in [Procs -> Keys \cup {NoKey}]
KeyHistory ==
    /\ keyFaults \in 0 .. MaxKeyFaults
    /\ promised \in Keys \cup {NoKey, Unknown}
    /\ removed \subseteq 1 .. writes

KeyTypeOK == KeyStored /\ KeyCalls /\ KeyHistory

KeyInit ==
    /\ keychain \in Keys \cup {NoKey}
    /\ legacy = NoLegacy
    /\ keyLock = NoKey
    /\ call = [p \in Procs |-> NoCall]
    /\ sight = [p \in Procs |-> NoLegacy]
    /\ subject = [p \in Procs |-> NoKey]
    /\ writes = 0 /\ keyFaults = 0
    /\ promised = Unknown
    /\ removed = {}

(* The operation returns, with a result or with an error: the deferred     *)
(* unlock closes the lock file.                                            *)
Returns(p) ==
    /\ call' = [call EXCEPT ![p] = NoCall]
    /\ keyLock' = NoKey
    /\ sight' = [sight EXCEPT ![p] = NoLegacy]
    /\ subject' = [subject EXCEPT ![p] = NoKey]

FailsOnce == keyFaults < MaxKeyFaults /\ keyFaults' = keyFaults + 1

(* Steps of p itself.                                                      *)
Moves(p) == call'[p] # call[p]

(***************************************************************************)
(* lockSavedAPIKey: an operation begins once it has the lock.  One that    *)
(* cannot get it within five seconds returns an error and changes nothing. *)
(***************************************************************************)
\* Variant: an operation goes on without the lock.
LockedAlways(p) == keyLock' = p
Locked(p) == keyLock = NoKey /\ keyLock' = p

BeginCall(p, op) ==
    /\ call[p] = NoCall
    /\ Locked(p)
    /\ call' = [call EXCEPT ![p] = [op |-> op, at |-> "look"]]
    /\ \E k \in IF op = "save" THEN Keys ELSE {NoKey} :
          subject' = [subject EXCEPT ![p] = k]
    /\ UNCHANGED <<keychain, legacy, sight, writes, keyFaults, promised, removed>>

(***************************************************************************)
(* Load: the Keychain and the legacy file are read.  With neither there is *)
(* no key; a legacy file alone is to be migrated; both are an error unless *)
(* they agree, and then only the file is still to be removed.              *)
(***************************************************************************)
\* Variant: a load migrates an invalid file.
LoadFinishesUnvalidated ==
    \/ keychain = NoKey /\ legacy = NoLegacy
    \/ keychain # NoKey /\ legacy # NoLegacy /\ legacy.key # keychain

\* Variant: a load takes the Keychain's key when the two disagree.
LoadFinishesAgreeing == legacy.key = BadKey \/ (keychain = NoKey /\ legacy = NoLegacy)

LoadFinishes ==
    \/ legacy.key = BadKey
    \/ keychain = NoKey /\ legacy = NoLegacy
    \/ keychain # NoKey /\ legacy # NoLegacy /\ legacy.key # keychain

LoadLooks(p) ==
    /\ Doing(p, "load", "look")
    /\ IF LoadFinishes
         THEN Returns(p)
         ELSE /\ Reaches(p, IF keychain = NoKey THEN "set" ELSE "recheck")
              /\ sight' = [sight EXCEPT ![p] = legacy]
              /\ subject' = [subject EXCEPT ![p] =
                                IF keychain = NoKey THEN legacy.key ELSE keychain]
              /\ UNCHANGED keyLock
    /\ UNCHANGED <<keychain, legacy, writes, keyFaults, promised, removed>>

(* Save and Remove only take the identity of the file: they may replace    *)
(* one that is invalid.                                                    *)
\* Variant: a removal deletes the Keychain's key before the file.
AfterSnapshotKeychainFirst(op) == IF op = "save" THEN "set" ELSE "delete"
AfterSnapshot(op) == IF op = "save" THEN "set" ELSE "recheck"

WriterLooks(p) ==
    \E op \in {"save", "remove"} :
        /\ Doing(p, op, "look")
        /\ sight' = [sight EXCEPT ![p] = legacy]
        /\ Reaches(p, AfterSnapshot(op))
        /\ promised' = Unknown
        /\ UNCHANGED <<keychain, legacy, keyLock, subject, writes, keyFaults, removed>>

(* writeVerified: the Keychain call, then a read that must return the key. *)
SetKeychain(p) ==
    \E op \in {"load", "save"} :
        /\ Doing(p, op, "set")
        /\ keychain' = subject[p]
        /\ Reaches(p, "recheck")
        /\ UNCHANGED <<legacy, keyLock, sight, subject, writes, keyFaults, promised, removed>>

(* Any Keychain call can fail or time out.  A write may have taken effect. *)
KeychainFails(p) ==
    /\ call[p].at \in {"look", "set", "delete"}
    /\ FailsOnce
    /\ \/ UNCHANGED keychain
       \/ call[p].at = "set" /\ keychain' = subject[p]
       \/ call[p].at = "delete" /\ keychain' = NoKey
    /\ removed' = IF call[p].at = "delete" /\ keychain' # keychain
                    THEN removed \cup ({sight[p].ino} \ {0}) ELSE removed
    /\ Returns(p)
    /\ UNCHANGED <<legacy, writes, promised>>

(***************************************************************************)
(* removeUnchangedSavedAPIKeyFile and removeSavedAPIKeySnapshot: the file  *)
(* is read again.  None is fine, another file than the one seen first is   *)
(* an error; the same one is unlinked, in a step of its own.               *)
(***************************************************************************)
SameFile(p) == legacy = sight[p]

Finished(p) ==
    /\ Returns(p)
    /\ promised' = IF call[p].op = "save" THEN subject[p] ELSE promised

FileDealtWith(p) ==
    IF call[p].op = "remove"
      THEN Reaches(p, "delete") /\ UNCHANGED <<keyLock, sight, subject, promised>>
      ELSE Finished(p)

Recheck(p) ==
    /\ call[p].at = "recheck"
    /\ \/ legacy = NoLegacy /\ FileDealtWith(p)
       \/ /\ legacy # NoLegacy /\ SameFile(p)
          /\ Reaches(p, "unlink")
          /\ UNCHANGED <<keyLock, sight, subject, promised>>
       \/ /\ legacy # NoLegacy /\ ~SameFile(p)
          /\ Returns(p) /\ UNCHANGED promised
    /\ UNCHANGED <<keychain, legacy, writes, keyFaults, removed>>

Unlink(p) ==
    /\ call[p].at = "unlink"
    /\ legacy' = NoLegacy
    /\ FileDealtWith(p)
    /\ UNCHANGED <<keychain, writes, keyFaults, removed>>

(* Remove ends with the Keychain item and a read that must find nothing.   *)
DeleteKeychain(p) ==
    /\ Doing(p, "remove", "delete")
    /\ keychain' = NoKey
    /\ promised' = IF legacy = NoLegacy THEN NoKey ELSE promised
    /\ removed' = removed \cup ({sight[p].ino} \ {0})
    /\ Returns(p)
    /\ UNCHANGED <<legacy, writes, keyFaults>>

(***************************************************************************)
(* Outside the lock: the process dies, and an older version of Switch      *)
(* saves a key by renaming a new file over the old one or removes it.      *)
(***************************************************************************)
Dies(p) ==
    /\ call[p] # NoCall
    /\ FailsOnce
    /\ Returns(p)
    /\ UNCHANGED <<keychain, legacy, writes, promised, removed>>

OldVersionSaves ==
    /\ writes < MaxWrites
    /\ writes' = writes + 1
    /\ \E k \in Keys \cup {BadKey} : legacy' = [key |-> k, ino |-> writes + 1]
    /\ promised' = Unknown
    /\ UNCHANGED <<keychain, keyLock, call, sight, subject, keyFaults, removed>>

KeyNext ==
    \/ \E p \in Procs :
          \/ \E op \in {"load", "save", "remove"} : BeginCall(p, op)
          \/ LoadLooks(p) \/ WriterLooks(p) \/ SetKeychain(p) \/ KeychainFails(p)
          \/ Recheck(p) \/ Unlink(p) \/ DeleteKeychain(p) \/ Dies(p)
    \/ OldVersionSaves

KeySpec == KeyInit /\ [][KeyNext]_keyVars

(***************************************************************************)
(* Properties.                                                             *)
(***************************************************************************)

(* What a finished save or removal answered stays true, whatever other     *)
(* processes load, fail at or die in, until another save or removal looks  *)
(* at the key or an older version writes a file: the Keychain holds the    *)
(* promised key, or nothing, and no legacy file contradicts it             *)
(* (saved_key_keychain.go:76-130).                                         *)
PromiseKept ==
    promised # Unknown => keychain = promised /\ legacy = NoLegacy

(* A Keychain deletion cannot be undone by the next load: no load migrates *)
(* a file that a removal which emptied the Keychain had seen, even when    *)
(* the removal died halfway (saved_key_keychain.go:112-121).               *)
DeletionNotUndone ==
    [][\A p \in Procs :
          call[p].op = "load" /\ Moves(p) /\ keychain = NoKey /\ keychain' # NoKey
              => sight[p].ino \notin removed]_keyVars

(* A migration never loses the key: a step of a load that takes away the   *)
(* file it had read leaves that file's key in the Keychain, and no load    *)
(* ever replaces a key the Keychain holds (saved_key_keychain.go:38-74).   *)
MigrationKeepsKey ==
    [][\A p \in Procs : call[p].op = "load" /\ Moves(p) =>
          /\ keychain # NoKey => keychain' = keychain
          /\ legacy # NoLegacy /\ legacy' = NoLegacy /\ legacy = sight[p]
                => keychain' = legacy.key]_keyVars

(* A load neither undoes a removal nor loses a key: the two properties     *)
(* above.                                                                  *)
LoadsAreSafe == DeletionNotUndone /\ MigrationKeepsKey

(* What a caller was told of the key holds, and no load breaks it.         *)
KeySafe == []PromiseKept /\ LoadsAreSafe
=============================================================================
