----------------------------- MODULE Migrations -----------------------------
(***************************************************************************)
(* Migrations of the repository (repo/fsrepo/migrations): the daemon, or   *)
(* `ipfs repo migrate`, finds or downloads the binaries that lead from the *)
(* version of the repository to the one the program wants and runs them    *)
(* one after another; the daemon may then add what was downloaded to the   *)
(* node (cmd/ipfs/add_migrations.go).                                      *)
(*                                                                         *)
(* Downloads run concurrently, a source is tried after the ones before it  *)
(* failed, the IPFS source starts a temporary node on its first use, and   *)
(* the process may crash at any point.  The binaries and the distribution  *)
(* site are external: a binary raises the version by one or changes        *)
(* nothing the version file shows.                                         *)
(***************************************************************************)
EXTENDS Integers, Sequences, FiniteSets

CONSTANTS
    MgTarget,   \* fsrepo.RepoVersion
    MgOldest,   \* the oldest version a repository may have
    MgCrashes   \* crashes (a bound)

ASSUME MigrationAssumption == MgOldest \in Nat /\ MgTarget \in Nat /\ MgOldest < MgTarget /\ MgCrashes \in Nat

VARIABLES
    mgVer,      \* the version files of the configured and of the default directory
    mgSame,     \* they are the same directory
    mgPc,       \* where the migration is
    mgBy,       \* the caller: daemon, command, or command with --allow-downgrade
    mgKeep,     \* Migration.Keep
    mgSources,  \* Migration.DownloadSources
    mgFrom,     \* fromVer
    mgBin,      \* the migrations with a known binary, by their lower version
    mgJob,      \* the download of a migration
    mgTmp,      \* temporary directories that exist
    mgNode,     \* the temporary node: none, up, failed, stopped
    mgPaths,    \* what was fetched through it
    mgFiles,    \* archives in DownloadDirectory
    mgAdded,    \* migrations added to the daemon's node
    mgNext,     \* the next migration to run
    mgFailed    \* crashes so far

mgRepoVars == <<mgVer, mgSame>>
mgConfVars == <<mgBy, mgKeep, mgSources>>
mgFetchVars == <<mgBin, mgJob, mgNode, mgPaths, mgFiles>>
mgVars == <<mgRepoVars, mgPc, mgConfVars, mgFrom, mgFetchVars, mgTmp, mgAdded, mgNext, mgFailed>>

Vers == MgOldest..(MgTarget + 1)
Migs == MgOldest..MgTarget     \* migration v leads from v to v + 1, reverted from v + 1 to v
SourceLists == {<<>>, <<"http">>, <<"ipfs">>, <<"http", "ipfs">>, <<"ipfs", "http">>}

MgTypeOK ==
    /\ mgVer \in [{"root", "default"} -> Vers] /\ mgSame \in BOOLEAN
    /\ mgPc \in {"idle", "config", "find", "fetch", "run", "migrated", "add", "added",
                 "noPaths", "notAdded", "close", "error", "done"}
    /\ mgBy \in {"daemon", "command", "downgrade"} /\ mgKeep \in {"discard", "cache", "keep", "pin"}
    /\ mgSources \in SourceLists
    /\ mgFrom \in Vers /\ mgNext \in Vers
    /\ mgBin \subseteq Migs /\ mgPaths \subseteq Migs \X {"version", "archive"} /\ mgFiles \subseteq Migs /\ mgAdded \subseteq Migs
    /\ mgJob \in [Migs -> {"off", "version", "archive", "unpack", "ok", "failed"}]
    /\ mgTmp \subseteq {"bins", "download", "node"}
    /\ mgNode \in {"none", "up", "failed", "stopped"}
    /\ mgFailed \in 0..MgCrashes

MgInit ==
    /\ mgVer = [d \in {"root", "default"} |-> MgOldest] /\ mgSame = TRUE
    /\ mgPc = "idle" /\ mgBy = "daemon" /\ mgKeep = "discard" /\ mgSources = <<>>
    /\ mgFrom = MgOldest /\ mgNext = MgOldest
    /\ mgBin = {} /\ mgJob = [m \in Migs |-> "off"] /\ mgTmp = {}
    /\ mgNode = "none" /\ mgPaths = {} /\ mgFiles = {} /\ mgAdded = {} /\ mgFailed = 0

\* IpfsDir(""): IPFS_PATH or the home directory, whatever --repo-dir says.
IpfsDir == IF mgSame THEN "root" ELSE "default"

\* RepoVersion: the number in the version file of a directory.
RepoVersion(dir) == mgVer[dir]

\* The program is started on a repository and Open says it needs a migration
\* (an equal version needs none, a higher one is another error).
MgBegin(by, ver, other, same) ==
    /\ mgPc = "idle" /\ ver < MgTarget /\ (same => other = ver)
    /\ mgPc' = "config" /\ mgBy' = by
    /\ mgVer' = [root |-> ver, default |-> other] /\ mgSame' = same
    /\ UNCHANGED <<mgKeep, mgSources, mgFrom, mgFetchVars, mgTmp, mgAdded, mgNext, mgFailed>>

\* ReadMigrationConfig and GetMigrationFetcher: the default of Keep is cache
\* and "pin" is refused; an empty list of sources stands for the default.
ReadMigrationConfig(keep, sources) ==
    /\ mgPc = "config"
    /\ mgKeep' = keep
    /\ mgSources' = IF sources = <<>> THEN <<"http", "ipfs">> ELSE sources
    /\ mgPc' = IF keep = "pin" THEN "error" ELSE "find"
    /\ mgTmp' = IF keep = "cache" /\ mgBy = "daemon" THEN mgTmp \cup {"download"} ELSE mgTmp
    /\ UNCHANGED <<mgRepoVars, mgBy, mgFrom, mgFetchVars, mgAdded, mgNext, mgFailed>>

\* findMigrations: the steps up, or down, to the target.
Needed(from) == IF from <= MgTarget THEN from..(MgTarget - 1) ELSE MgTarget..(from - 1)

\* RunMigration up to the downloads: found are the binaries in the PATH.
FindMigrations(found) ==
    /\ mgPc = "find"
    /\ LET from == RepoVersion(IpfsDir)
           needed == Needed(from)
       IN IF from > MgTarget /\ mgBy # "downgrade"
          THEN mgPc' = "close" /\ UNCHANGED <<mgFrom, mgNext, mgBin, mgJob, mgTmp>>
          ELSE /\ mgFrom' = from /\ mgNext' = from
               /\ mgBin' = found \cap needed
               /\ mgJob' = [m \in Migs |-> IF m \in needed \ found THEN "version" ELSE "off"]
               /\ mgPc' = IF from = MgTarget THEN "migrated"
                          ELSE IF needed \subseteq found THEN "run" ELSE "fetch"
               /\ mgTmp' = IF needed \subseteq found THEN mgTmp ELSE mgTmp \cup {"bins"}
    /\ UNCHANGED <<mgRepoVars, mgConfVars, mgNode, mgPaths, mgFiles, mgAdded, mgFailed>>

Downloading == \E m \in Migs : mgJob[m] \in {"version", "archive", "unpack"}

\* openOnce of the IpfsFetcher: the temporary node starts or its error stays.
StartTempNode(ok) ==
    /\ mgPc = "fetch" /\ mgNode = "none"
    /\ \E i \in DOMAIN mgSources : mgSources[i] = "ipfs"
    /\ Downloading
    /\ mgNode' = IF ok THEN "up" ELSE "failed"
    /\ mgTmp' = mgTmp \cup {"node"}
    /\ UNCHANGED <<mgRepoVars, mgPc, mgConfVars, mgFrom, mgBin, mgJob, mgPaths, mgFiles, mgAdded, mgNext, mgFailed>>

\* RetryFetcher and HttpFetcher answer after at most three tries, or fail;
\* IpfsFetcher answers once its node is up.
Reached(src) == IF src = "ipfs" THEN mgNode = "up" ELSE TRUE

\* MultiFetcher.Fetch: the sources in order until one answers; "none" when all
\* of them failed, the temporary node included.
MultiFetch(src) ==
    LET listed == {mgSources[i] : i \in DOMAIN mgSources} IN
    IF src = "none" THEN "ipfs" \in listed => mgNode # "none"
                    ELSE src \in listed /\ Reached(src)

Fetches(m, src, from, to) ==
    /\ mgPc = "fetch" /\ mgJob[m] = from /\ MultiFetch(src)
    /\ mgJob' = [mgJob EXCEPT ![m] = IF src = "none" THEN "failed" ELSE to]
    /\ mgPaths' = IF src = "ipfs" THEN mgPaths \cup {<<m, from>>} ELSE mgPaths

\* The list of versions of the distribution is the first file fetched.
LatestDistVersion(m, src) ==
    /\ Fetches(m, src, "version", "archive")
    /\ UNCHANGED <<mgRepoVars, mgPc, mgConfVars, mgFrom, mgBin, mgFiles, mgTmp, mgNode, mgAdded, mgNext, mgFailed>>

\* FetchBinary: the archive is fetched and stays in DownloadDirectory, if
\* there is one.
FetchBinary(m, src) ==
    /\ Fetches(m, src, "archive", "unpack")
    /\ mgFiles' = IF src # "none" /\ "download" \in mgTmp THEN mgFiles \cup {m} ELSE mgFiles
    /\ UNCHANGED <<mgRepoVars, mgPc, mgConfVars, mgFrom, mgBin, mgTmp, mgNode, mgAdded, mgNext, mgFailed>>

\* unpackArchive finds the binary and writes it out, or fails.
UnpackArchive(m, ok) ==
    /\ mgPc = "fetch" /\ mgJob[m] = "unpack"
    /\ mgJob' = [mgJob EXCEPT ![m] = IF ok THEN "ok" ELSE "failed"]
    /\ mgBin' = IF ok THEN mgBin \cup {m} ELSE mgBin
    /\ UNCHANGED <<mgRepoVars, mgPc, mgConfVars, mgFrom, mgFiles, mgPaths, mgTmp, mgNode, mgAdded, mgNext, mgFailed>>

\* Mutant: what was downloaded is run, the rest is left for another time.
Fetched_Some == ~Downloading

\* fetchMigrations waits for all downloads and fails when one did.
Fetched == \A m \in Migs : mgJob[m] \in {"off", "ok"}

FetchEnds ==
    /\ mgPc = "fetch" /\ ~Downloading
    /\ mgPc' = IF Fetched THEN "run" ELSE "close"
    /\ UNCHANGED <<mgRepoVars, mgConfVars, mgFrom, mgFetchVars, mgTmp, mgAdded, mgNext, mgFailed>>

\* runMigration: the binary succeeds, or fails and ends RunMigration.
RunMigration(ok) ==
    /\ mgPc = "run" /\ mgNext # MgTarget
    /\ LET to == IF mgNext < MgTarget THEN mgNext + 1 ELSE mgNext - 1 IN
          IF ok THEN /\ mgVer' = [mgVer EXCEPT ![IpfsDir] = to]
                     /\ mgNext' = to /\ UNCHANGED mgPc
                ELSE UNCHANGED <<mgVer, mgNext>> /\ mgPc' = "close"
    /\ UNCHANGED <<mgSame, mgConfVars, mgFrom, mgFetchVars, mgTmp, mgAdded, mgFailed>>

\* RunMigration returns and removes its directory.
RunEnds ==
    /\ mgPc = "run" /\ mgNext = MgTarget
    /\ mgPc' = "migrated" /\ mgTmp' = mgTmp \ {"bins"}
    /\ UNCHANGED <<mgRepoVars, mgConfVars, mgFrom, mgFetchVars, mgAdded, mgNext, mgFailed>>

\* The command is done; the daemon opens its repository again, which fails
\* when another directory was migrated, and starts (see Daemon).
MgReopen ==
    /\ mgPc = "migrated"
    /\ mgPc' = IF mgBy = "daemon" /\ mgVer["root"] = MgTarget /\ mgKeep = "cache" THEN "add" ELSE "close"
    /\ UNCHANGED <<mgRepoVars, mgConfVars, mgFrom, mgFetchVars, mgTmp, mgAdded, mgNext, mgFailed>>

\* addMigrationPaths: the paths fetched through IPFS, pinned or read again from
\* the temporary node; addMigrationFiles: the archives in the directory.
AddMigrationPaths == {x[1] : x \in {y \in mgPaths : y[2] = "archive"}}
AddMigrationFiles == mgFiles

AddFrom(i) == IF mgSources[i] = "ipfs" THEN AddMigrationPaths ELSE AddMigrationFiles
AddFromAll(S) == UNION {AddFrom(i) : i \in S}

\* Mutant: a source without paths ends it before anything was added.
AddMigrations_FailFast(fails, some) ==
    /\ mgPc = "add" /\ fails = {}
    /\ mgPc' = IF mgPaths = {} THEN "noPaths" ELSE "added"
    /\ mgAdded' = IF mgPaths = {} THEN {} ELSE mgFiles
    /\ UNCHANGED <<mgRepoVars, mgConfVars, mgFrom, mgFetchVars, mgTmp, mgNext, mgFailed>>

\* addMigrations goes through the sources in order: the paths fetched with
\* IPFS are fetched again from the temporary node, an HTTP source adds the
\* archives; the first error ends it, with some of that source added.  It is
\* one of the sources in fails, or that no path was fetched with IPFS.  The
\* daemon prints it and goes on.
AddMigrations(fails, some) ==
    LET bad == {i \in DOMAIN mgSources : mgSources[i] \in fails \/ (mgSources[i] = "ipfs" /\ mgPaths = {})}
        first == {i \in bad : \A j \in bad : i <= j}
        done == {i \in DOMAIN mgSources : \A j \in bad : i < j}
    IN /\ mgPc = "add"
       /\ mgPc' = IF bad = {} THEN "added"
                  ELSE IF \E i \in first : mgSources[i] \in fails THEN "notAdded" ELSE "noPaths"
       /\ mgAdded' = AddFromAll(done) \cup (some \cap AddFromAll(first))
       /\ UNCHANGED <<mgRepoVars, mgConfVars, mgFrom, mgFetchVars, mgTmp, mgNext, mgFailed>>

\* Mutant: Close only removes the directory.
MgClose_NoStop ==
    /\ mgPc \in {"close", "error", "added", "noPaths", "notAdded"} /\ mgPc' = "done" /\ mgTmp' = {}
    /\ UNCHANGED <<mgRepoVars, mgConfVars, mgFrom, mgFetchVars, mgAdded, mgNext, mgFailed>>

\* The deferred calls: the directories are removed, the IpfsFetcher stops its
\* node once and removes the node's directory.
MgClose ==
    /\ mgPc \in {"close", "error", "added", "noPaths", "notAdded"} /\ mgPc' = "done"
    /\ mgTmp' = {}
    /\ mgNode' = IF mgNode = "up" THEN "stopped" ELSE mgNode
    /\ UNCHANGED <<mgRepoVars, mgConfVars, mgFrom, mgBin, mgJob, mgPaths, mgFiles, mgAdded, mgNext, mgFailed>>

\* The process is killed and started again: the version files stay.  The
\* temporary directories it left behind are nobody's, and no part of the state.
MgCrash ==
    /\ mgPc \notin {"idle", "done"} /\ mgFailed < MgCrashes
    /\ mgFailed' = mgFailed + 1
    /\ mgPc' = IF mgVer["root"] < MgTarget THEN "config" ELSE "done"
    /\ mgFrom' = MgOldest /\ mgNext' = MgOldest
    /\ mgBin' = {} /\ mgJob' = [m \in Migs |-> "off"] /\ mgPaths' = {} /\ mgFiles' = {}
    /\ mgNode' = "none" /\ mgTmp' = {} /\ mgAdded' = {}
    /\ UNCHANGED <<mgRepoVars, mgConfVars>>

MgStep ==
    \/ \E by \in {"daemon", "command", "downgrade"}, v, o \in Vers, s \in BOOLEAN : MgBegin(by, v, o, s)
    \/ \E k \in {"discard", "cache", "keep", "pin"}, l \in SourceLists : ReadMigrationConfig(k, l)
    \/ \E f \in SUBSET Migs : FindMigrations(f)
    \/ \E fails \in SUBSET {"http", "ipfs"}, some \in SUBSET Migs : AddMigrations(fails, some)
    \/ \E ok \in BOOLEAN : \/ StartTempNode(ok) \/ RunMigration(ok)
                          \/ \E m \in Migs : UnpackArchive(m, ok)
    \/ \E m \in Migs, src \in {"http", "ipfs", "none"} : LatestDistVersion(m, src) \/ FetchBinary(m, src)
    \/ FetchEnds \/ RunEnds \/ MgReopen \/ MgClose \/ MgCrash

-----------------------------------------------------------------------------
(* Properties.                                                             *)

\* A binary is run only on the version it starts from, after crashes too, and
\* no repository moves before every binary up to the target is at hand
\* (RunMigration, fetchMigrations, findMigrations).
MgRunsInOrder ==
    mgPc = "run" => /\ mgVer[IpfsDir] = mgNext
                    /\ Needed(mgFrom) \subseteq mgBin

\* When the program goes on, the temporary node and its directory are gone
\* (the deferred calls and closeOnce).
MgTempGone == mgPc = "done" => mgNode # "up" /\ mgTmp = {}

\* Every archive the daemon was told to keep is in its node, whichever source
\* it came from, when adding them reported no error; and with the default order
\* of sources also when all it reported is that nothing came by IPFS, as it does
\* after downloads by HTTP alone (addMigrations; with IPFS first and HTTP used
\* as fallback none is).
MgKeepsAll == mgPc = "added" \/ (mgPc = "noPaths" /\ mgSources[1] = "http") => mgFiles \subseteq mgAdded

\* Binaries run in order, nothing temporary stays, and what is to be kept is
\* (RunMigration, IpfsFetcher.Close, addMigrations).
MgSound == MgTypeOK /\ MgRunsInOrder /\ MgTempGone /\ MgKeepsAll
=============================================================================
