-------------------------------- MODULE Keys --------------------------------
(***************************************************************************)
(* The keys of a node: the keystore directory and the identity of the      *)
(* configuration, the `ipfs key` commands (core/commands/keystore.go), the *)
(* key API (core/coreapi/key.go) and the search of the key that signs an   *)
(* IPNS record (core/coreapi/name.go).                                     *)
(*                                                                         *)
(* A daemon serves the requests of KeyClients concurrently; without one,   *)
(* one command at a time holds the repository.  The keystore (external)    *)
(* keeps one file per name: Get, Has, Put, which refuses a name that is    *)
(* taken, and Delete are atomic, a command made of several of them is not, *)
(* and the process can die between any two.  Keys are numbers handed out   *)
(* in the order they are made; the peer ID of a key is the key itself.     *)
(***************************************************************************)
EXTENDS Integers, FiniteSets

CONSTANTS
    KeyNames,       \* keystore names, "self" excepted
    KeyClients,     \* requests a daemon serves at the same time
    MaxKeys         \* keys made (a bound)

ASSUME KeysAssumption ==
    /\ "self" \notin KeyNames /\ IsFiniteSet(KeyNames)
    /\ KeyClients # {} /\ MaxKeys \in Nat \ {0}

VARIABLES
    kyProc,      \* who holds the repository: none, a daemon, or one command
    kyStore,     \* keystore: name -> key, 0 for none
    kyIdentity,  \* Identity.PrivKey of the config file
    kyNext,      \* keys made so far
    kyJob,       \* the request of each client
    kyFile,      \* the key in the last exported file, in either format
    kyDropped,   \* keys removed or overwritten on request
    kyOverlap    \* two requests that change the keystore have overlapped

kyVars == <<kyProc, kyStore, kyIdentity, kyNext, kyJob, kyFile, kyDropped, kyOverlap>>

AllKeys == 1..MaxKeys
AnyName == KeyNames \cup {"self"}

KyIdle == [pc |-> "idle", from |-> "self", to |-> "self", key |-> 0, left |-> {}]

KeyRequest ==
    [pc : {"idle", "put", "overwrite", "renamed", "scan", "list", "rm", "failed", "delete",
           "create", "backup", "setConfig"},
     from : AnyName, to : AnyName, key : 0..MaxKeys, left : SUBSET AnyName]

KyTypeOK ==
    /\ kyProc \in {"none", "daemon", "cli"}
    /\ kyStore \in [KeyNames -> 0..MaxKeys]
    /\ kyIdentity \in AllKeys /\ kyNext \in AllKeys
    /\ kyJob \in [KeyClients -> KeyRequest]
    /\ kyFile \in 0..MaxKeys
    /\ kyDropped \subseteq AllKeys /\ kyOverlap \in BOOLEAN

KyInit ==
    /\ kyProc = "none" /\ kyIdentity = 1 /\ kyNext = 1
    /\ kyStore = [n \in KeyNames |-> 0]
    /\ kyJob = [c \in KeyClients |-> KyIdle]
    /\ kyFile = 0
    /\ kyDropped = {} /\ kyOverlap = FALSE

KyFree == \A c \in KeyClients : kyJob[c] = KyIdle

\* Which client may start a command: any of the daemon's, or the only one of a
\* process that takes the repository for itself.
KyBegin(c, job) ==
    /\ kyJob[c] = KyIdle
    /\ \/ kyProc = "daemon" /\ UNCHANGED kyProc
       \/ kyProc = "none" /\ kyProc' = "cli"
    /\ kyJob' = [kyJob EXCEPT ![c] = job]
    /\ kyOverlap' = (kyOverlap \/ ~KyFree)

KyEnds(c) ==
    /\ kyJob' = [kyJob EXCEPT ![c] = KyIdle]
    /\ kyProc' = IF kyProc = "cli" THEN "none" ELSE kyProc

KyDaemon ==
    /\ kyProc = "none" /\ kyProc' = "daemon"
    /\ UNCHANGED <<kyStore, kyIdentity, kyNext, kyJob, kyFile, kyDropped, kyOverlap>>

\* The process ends, cleanly or not: what it was doing stays undone.
KyCrash ==
    /\ kyProc # "none" /\ kyProc' = "none"
    /\ kyJob' = [c \in KeyClients |-> KyIdle]
    /\ UNCHANGED <<kyStore, kyIdentity, kyNext, kyFile, kyDropped, kyOverlap>>

\* Generate: "self" and a name that is taken are refused before the key is
\* made, the Put comes later.
Generate(c, name) ==
    /\ name # "self" /\ kyNext < MaxKeys
    /\ kyStore[name] = 0
    /\ kyNext' = kyNext + 1
    /\ KyBegin(c, [KyIdle EXCEPT !.pc = "put", !.to = name, !.key = kyNext + 1])
    /\ UNCHANGED <<kyStore, kyIdentity, kyFile, kyDropped>>

\* keyGenCmd: "self" is refused here as well.
KeyGenCmd(c, name) == name # "self" /\ Generate(c, name)

\* keyImportCmd: a file that does not decode under the format asked for is
\* refused; exported keys are of the types ipfs makes, which need no
\* --allow-any-key-type.
KeyImport(c, name) ==
    /\ name # "self"
    /\ kyFile # 0
    /\ kyStore[name] = 0
    /\ KyBegin(c, [KyIdle EXCEPT !.pc = "put", !.to = name, !.key = kyFile])
    /\ UNCHANGED <<kyStore, kyIdentity, kyNext, kyFile, kyDropped>>

\* Keystore.Put at the end of Generate and of an import.  It is refused when
\* the name has been taken meanwhile.
KyPut(c) ==
    /\ kyJob[c].pc = "put"
    /\ kyStore' = IF kyStore[kyJob[c].to] = 0 THEN [kyStore EXCEPT ![kyJob[c].to] = kyJob[c].key]
                                              ELSE kyStore
    /\ KyEnds(c)
    /\ UNCHANGED <<kyIdentity, kyNext, kyFile, kyDropped, kyOverlap>>

\* keyExportCmd: no lock is taken and no "self" is exported.
KeyExport(name) ==
    /\ name # "self" /\ kyStore[name] # 0
    /\ kyFile' = kyStore[name]
    /\ UNCHANGED <<kyProc, kyStore, kyIdentity, kyNext, kyJob, kyDropped, kyOverlap>>

\* Mutant: a key may be renamed to its own name.
RenameBegin_Same(c, old, new, force) ==
    /\ "self" \notin {old, new}
    /\ kyStore[old] # 0
    /\ KyBegin(c, [KyIdle EXCEPT !.pc = IF force THEN "overwrite" ELSE "renamed",
                                 !.from = old, !.to = new, !.key = kyStore[old]])
    /\ UNCHANGED <<kyStore, kyIdentity, kyNext, kyFile, kyDropped>>

\* Rename up to the first change: "self" is refused on both sides, the old
\* name must exist, and the same name twice is no work.
RenameBegin(c, old, new, force) ==
    /\ "self" \notin {old, new} /\ new # old
    /\ kyStore[old] # 0
    /\ KyBegin(c, [KyIdle EXCEPT !.pc = IF force THEN "overwrite" ELSE "renamed",
                                 !.from = old, !.to = new, !.key = kyStore[old]])
    /\ UNCHANGED <<kyStore, kyIdentity, kyNext, kyFile, kyDropped>>

\* With --force a key that has the new name is deleted first.
RenameOverwrite(c) ==
    /\ kyJob[c].pc = "overwrite"
    /\ LET hit == kyStore[kyJob[c].to]
       IN /\ kyStore' = [kyStore EXCEPT ![kyJob[c].to] = 0]
          /\ kyDropped' = kyDropped \cup ({hit} \ {0, kyJob[c].key})
    /\ kyJob' = [kyJob EXCEPT ![c].pc = "renamed"]
    /\ UNCHANGED <<kyProc, kyIdentity, kyNext, kyFile, kyOverlap>>

\* Put under the new name, refused when it is taken, ...
RenamePut(c) ==
    /\ kyJob[c].pc = "renamed"
    /\ IF kyStore[kyJob[c].to] # 0
       THEN kyStore' = kyStore /\ KyEnds(c)
       ELSE /\ kyStore' = [kyStore EXCEPT ![kyJob[c].to] = kyJob[c].key]
            /\ kyJob' = [kyJob EXCEPT ![c].pc = "delete"]
            /\ UNCHANGED kyProc
    /\ UNCHANGED <<kyIdentity, kyNext, kyFile, kyDropped, kyOverlap>>

\* ... and the deletion of the old name, whatever key it has by then.
RenameDelete(c) ==
    /\ kyJob[c].pc = "delete"
    /\ kyStore' = [kyStore EXCEPT ![kyJob[c].from] = 0]
    /\ KyEnds(c)
    /\ UNCHANGED <<kyIdentity, kyNext, kyFile, kyDropped, kyOverlap>>

\* keyRenameCmd: the API does all of it.
KeyRenameCmd(c, old, new, force) == RenameBegin(c, old, new, force)

\* keyRmCmd: Remove for one name after the other ("self", which Remove
\* refuses, is left out of the names).
KeyRmCmd(c, names) ==
    /\ names # {} /\ "self" \notin names
    /\ KyBegin(c, [KyIdle EXCEPT !.pc = "rm", !.left = names])
    /\ UNCHANGED <<kyStore, kyIdentity, kyNext, kyFile, kyDropped>>

\* Remove: Get and Delete.  A name that has no key is an error, and the names
\* after it are left alone.
Remove(c, name) ==
    /\ kyJob[c].pc = "rm" /\ name \in kyJob[c].left
    /\ IF kyStore[name] = 0
       THEN kyStore' = kyStore /\ kyDropped' = kyDropped /\ KyEnds(c)
       ELSE /\ kyStore' = [kyStore EXCEPT ![name] = 0]
            /\ kyDropped' = kyDropped \cup {kyStore[name]}
            /\ IF kyJob[c].left = {name} THEN KyEnds(c)
               ELSE kyJob' = [kyJob EXCEPT ![c].left = @ \ {name}] /\ UNCHANGED kyProc
    /\ UNCHANGED <<kyIdentity, kyNext, kyFile, kyOverlap>>

\* DaemonNotRunning: repo.lock must be free.
DaemonNotRunning == kyProc = "none"

\* keyRotateCmd: a command of its own; the backup may not be named "self".
KeyRotateCmd(c, backup) ==
    /\ DaemonNotRunning /\ backup # "self" /\ kyNext < MaxKeys
    /\ KyBegin(c, [KyIdle EXCEPT !.pc = "create", !.to = backup])
    /\ UNCHANGED <<kyStore, kyIdentity, kyNext, kyFile, kyDropped>>

\* doRotate: the repository is open; CreateIdentity makes the new key.
DoRotate(c) ==
    /\ kyJob[c].pc = "create"
    /\ kyNext' = kyNext + 1
    /\ kyJob' = [kyJob EXCEPT ![c].pc = "backup", ![c].key = kyNext + 1]
    /\ UNCHANGED <<kyProc, kyStore, kyIdentity, kyFile, kyDropped, kyOverlap>>

\* Mutant: the config file is written before the backup.
RotateBackup_Late(c) ==
    /\ kyJob[c].pc = "backup"
    /\ kyIdentity' = kyJob[c].key
    /\ kyJob' = [kyJob EXCEPT ![c].pc = "put", ![c].key = kyIdentity]
    /\ UNCHANGED <<kyProc, kyStore, kyNext, kyFile, kyDropped, kyOverlap>>

\* The old identity goes into the keystore; a name that is taken ends the
\* command, and the new key with it.
RotateBackup(c) ==
    /\ kyJob[c].pc = "backup"
    /\ IF kyStore[kyJob[c].to] # 0
       THEN kyStore' = kyStore /\ KyEnds(c)
       ELSE /\ kyStore' = [kyStore EXCEPT ![kyJob[c].to] = kyIdentity]
            /\ kyJob' = [kyJob EXCEPT ![c].pc = "setConfig"]
            /\ UNCHANGED kyProc
    /\ UNCHANGED <<kyIdentity, kyNext, kyFile, kyDropped, kyOverlap>>

\* The config file is replaced (atomically, see RepoConfig) or cannot be.
RotateSetConfig(c, ok) ==
    /\ kyJob[c].pc = "setConfig"
    /\ kyIdentity' = IF ok THEN kyJob[c].key ELSE kyIdentity
    /\ KyEnds(c)
    /\ UNCHANGED <<kyStore, kyNext, kyFile, kyDropped, kyOverlap>>

\* keylookup, asked for a key by its peer ID: the node's own key needs no
\* search, for another one the names are listed ...
KeyLookup(c, id) ==
    /\ id # kyIdentity
    /\ LET names == {n \in KeyNames : kyStore[n] # 0}
       IN KyBegin(c, [KyIdle EXCEPT !.pc = IF names = {} THEN "failed" ELSE "scan",
                                    !.key = id, !.left = names])
    /\ UNCHANGED <<kyStore, kyIdentity, kyNext, kyFile, kyDropped>>

\* Publish under a key of the node, up to the record (namesys, external).
Publish(c, id) == KeyLookup(c, id)

\* Mutant: the scan stops one name early.
KeyScan_Short(c, name) ==
    /\ kyJob[c].pc = "scan" /\ name \in kyJob[c].left
    /\ kyJob' = [kyJob EXCEPT ![c] =
                    IF kyStore[name] = @.key THEN KyIdle
                    ELSE IF Cardinality(@.left) <= 2 THEN [@ EXCEPT !.pc = "failed", !.left = {}]
                    ELSE [@ EXCEPT !.left = @ \ {name}]]
    /\ UNCHANGED <<kyProc, kyStore, kyIdentity, kyNext, kyFile, kyDropped, kyOverlap>>

\* ... and every key is read until one has the ID.  A name that vanished, and
\* the end of the list, are errors.
KeyScan(c, name) ==
    /\ kyJob[c].pc = "scan" /\ name \in kyJob[c].left
    /\ LET job == kyJob[c]
       IN kyJob' = [kyJob EXCEPT ![c] =
                        IF kyStore[name] = job.key THEN KyIdle
                        ELSE IF kyStore[name] = 0 \/ job.left = {name}
                        THEN [job EXCEPT !.pc = "failed", !.left = {}]
                        ELSE [job EXCEPT !.left = @ \ {name}]]
    /\ kyProc' = IF kyProc = "cli" /\ kyJob'[c] = KyIdle THEN "none" ELSE kyProc
    /\ UNCHANGED <<kyStore, kyIdentity, kyNext, kyFile, kyDropped, kyOverlap>>

\* The failed publish, or list, returns its error.
KeyNotFound(c) ==
    /\ kyJob[c].pc = "failed"
    /\ KyEnds(c)
    /\ UNCHANGED <<kyStore, kyIdentity, kyNext, kyFile, kyDropped, kyOverlap>>

\* keyListCmd and List: the names, then the key of each.
KeyListCmd(c) ==
    /\ KyBegin(c, [KyIdle EXCEPT !.pc = "list", !.left = {n \in KeyNames : kyStore[n] # 0}])
    /\ UNCHANGED <<kyStore, kyIdentity, kyNext, kyFile, kyDropped>>

\* A name that vanished is an error of the whole list.
KeyListGet(c, name) ==
    /\ kyJob[c].pc = "list" /\ name \in kyJob[c].left
    /\ LET job == kyJob[c]
       IN kyJob' = [kyJob EXCEPT ![c] = IF kyStore[name] = 0
                                        THEN [job EXCEPT !.pc = "failed", !.left = {}]
                                        ELSE [job EXCEPT !.left = @ \ {name}]]
    /\ UNCHANGED <<kyProc, kyStore, kyIdentity, kyNext, kyFile, kyDropped, kyOverlap>>

KeyListed(c) ==
    /\ kyJob[c].pc = "list" /\ kyJob[c].left = {}
    /\ KyEnds(c)
    /\ UNCHANGED <<kyStore, kyIdentity, kyNext, kyFile, kyDropped, kyOverlap>>

KyNext ==
    \/ KyDaemon \/ KyCrash
    \/ \E name \in AnyName : KeyExport(name)
    \/ \E c \in KeyClients :
          \/ KyPut(c) \/ RenameOverwrite(c) \/ RenamePut(c) \/ RenameDelete(c)
          \/ DoRotate(c) \/ RotateBackup(c) \/ KeyListCmd(c) \/ KeyListed(c) \/ KeyNotFound(c)
          \/ \E ok \in BOOLEAN : RotateSetConfig(c, ok)
          \/ \E id \in AllKeys : Publish(c, id)
          \/ \E names \in SUBSET KeyNames : KeyRmCmd(c, names)
          \/ \E name \in AnyName :
                \/ KeyGenCmd(c, name) \/ Remove(c, name) \/ KeyRotateCmd(c, name)
                \/ KeyImport(c, name) \/ KeyScan(c, name) \/ KeyListGet(c, name)
                \/ \E new \in AnyName, force \in BOOLEAN : KeyRenameCmd(c, name, new, force)

-----------------------------------------------------------------------------
(* Properties.                                                             *)

\* The keys at rest: in the keystore, or the identity.
KyHeld == {kyIdentity} \cup {kyStore[n] : n \in KeyNames}

\* A private key that was once the identity or in the keystore is still there,
\* through renames, rotations and the death of the process at any point, until
\* somebody removes or overwrites it - as long as no two requests overlap
\* (Rename and doRotate order their writes for it).  With overlap Rename
\* deletes the old name whatever key it has by then, and keys are lost.
KyKept ==
    [][~kyOverlap' => \A k \in KyHeld \ {0} : k \in KyHeld' \/ k \in kyDropped']_kyVars

\* A rename that is refused or dies never leaves its key without a name
\* (Rename: Put before Delete), unless requests overlap.
KyRenamedKeyNamed ==
    ~kyOverlap => \A c \in KeyClients :
        kyJob[c].pc \in {"overwrite", "renamed", "delete"} =>
            \E n \in KeyNames : kyStore[n] = kyJob[c].key

\* A publish by peer ID fails only when no key has the ID, and `key list` does
\* not fail, unless requests overlap: the list of names and the reads of their
\* keys are no snapshot (keylookup, List).
KyLookupFinds ==
    \A c \in KeyClients :
        kyJob[c].pc = "failed" /\ ~kyOverlap =>
            kyJob[c].key # 0 /\ kyJob[c].key \notin {kyStore[n] : n \in KeyNames}

\* No key loses its name in a rename, and publish and list find what is there
\* (Rename, keylookup, List).
KySound == KyTypeOK /\ KyRenamedKeyNamed /\ KyLookupFinds
=============================================================================
