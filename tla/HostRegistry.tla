---------------------------- MODULE HostRegistry ----------------------------
(***************************************************************************)
(* The relay's durable half (relay/src/main.rs): `hosts`, the registry of  *)
(* PCs, and the JSON file it is persisted to after every host_register so  *)
(* that it survives a restart.                                             *)
(*                                                                         *)
(* A host_register handler is identified by the host id it draws.  It     *)
(* inserts and snapshots under the lock and persists outside of it, so     *)
(* handlers interleave from one file operation to the next.  All of them   *)
(* use the same temporary file.                                            *)
(*                                                                         *)
(* The file system is modelled as far as the code relies on it: a path     *)
(* names an inode or none; opening for writing truncates; a writer keeps   *)
(* its inode when the path is renamed under it; a write starts at offset   *)
(* 0.  Only lengths and who wrote matter of the JSON: snapshots of one     *)
(* process are nested and the larger one is the longer text, so a file is  *)
(* the set last written at its head and the set that gave it its length.   *)
(***************************************************************************)
EXTENDS Naturals, FiniteSets, TLC

CONSTANTS
    HostIds,        \* host ids that handlers draw
    MaxInFlight,  \* bound: host_register handlers running at once
    Faults,       \* bound: the file operations that may fail
    Crashes       \* bound: the kinds of crash

ASSUME RegistryAssumption ==
    /\ MaxInFlight \in Nat \ {0}
    /\ Faults \subseteq {"write", "sync", "rename"}
    /\ Crashes \subseteq {"restart", "power"}

VARIABLES
    hosts,    \* RelayState.hosts
    pc,       \* host id -> where its handler is
    snapshot, \* the handler's clone of `hosts`
    handle,   \* the inode its tokio::fs::write has open
    file,     \* inode -> its contents
    synced,   \* inodes whose contents are on the disk
    tmp,      \* the inode that ".<hosts_file>.tmp" names
    target,   \* the inode that hosts_file names
    older,    \* the inodes hosts_file named before: a rename is not synced
    unsaved,  \* registered hosts whose persist failed, or was undone by a
              \* crash, and that no later one saved
    overlapped, \* history: handlers that persisted while another did
    mixed,    \* history: inodes that such a handler touched
    unflushed \* history: inodes whose last sync failed

handlerVars == <<hosts, pc, snapshot>>
diskVars    == <<file, synced, tmp, target, older>>
history     == <<overlapped, mixed, unflushed>>
storeVars == <<handlerVars, handle, diskVars, unsaved, history>>

NoInode == 0
Inode == 1..(Cardinality(HostIds) + 1)
Persisting == {h \in HostIds : pc[h] \in {"open", "write", "sync", "rename"}}
Registering == Persisting \cup {h \in HostIds : pc[h] = "reply"}

Empty == [head |-> {}, extent |-> {}]

\* load_hosts_from_disk: a missing file, an empty one and one that does not
\* parse (a short text over a longer one) all load as the empty registry.
Parses(f) == f.head = f.extent /\ f # Empty
Load(contents, i) ==
    IF i # NoInode /\ Parses(contents[i]) THEN contents[i].head ELSE {}

StoreInit ==
    /\ hosts = {}
    /\ pc = [h \in HostIds |-> "new"]
    /\ snapshot = [h \in HostIds |-> {}]
    /\ handle = [h \in HostIds |-> NoInode]
    /\ file = [i \in Inode |-> Empty]
    /\ synced = {}
    /\ tmp = NoInode
    /\ target = NoInode
    /\ older = {}
    /\ unsaved = {}
    /\ overlapped = {}
    /\ mixed = {}
    /\ unflushed = {}

-----------------------------------------------------------------------------
(* host_register and persist_hosts_to_disk *)

Goto(h, from, to) ==
    /\ pc[h] = from
    /\ pc' = [pc EXCEPT ![h] = to]

\* Under the `hosts` lock: insert, then clone.  Mutated: clone first.
CloneFirst(h) == hosts
InsertFirst(h) == hosts \cup {h}

Register(h) ==
    /\ Goto(h, "new", "open")
    /\ Cardinality(Registering) < MaxInFlight
    /\ hosts' = hosts \cup {h}
    /\ snapshot' = [snapshot EXCEPT ![h] = InsertFirst(h)]
    /\ overlapped' = IF Persisting = {} THEN overlapped
                     ELSE overlapped \cup Persisting \cup {h}
    /\ UNCHANGED <<handle, diskVars, unsaved, mixed, unflushed>>

\* What the history says of inode i when h has opened, written or renamed it.
Touch(h, i) ==
    /\ mixed' = IF h \in overlapped THEN mixed \cup {i} ELSE mixed \ {i}
    /\ UNCHANGED <<overlapped, unflushed>>

FreeInodes == Inode \ ({tmp, target} \cup older)

\* tokio::fs::write opens the temporary file, creating or truncating it.
OpenTmp(h) ==
    /\ Goto(h, "open", "write")
    /\ \E i \in IF tmp = NoInode THEN FreeInodes ELSE {tmp} :
         /\ handle' = [handle EXCEPT ![h] = i]
         /\ file' = [file EXCEPT ![i] = Empty]
         /\ synced' = synced \ {i}
         /\ tmp' = i
         /\ Touch(h, i)
    /\ UNCHANGED <<hosts, snapshot, target, older, unsaved>>

\* It writes the snapshot over whatever the inode holds by now.
WriteTmp(h) ==
    /\ Goto(h, "write", "sync")
    /\ file' = [file EXCEPT ![handle[h]] =
                  [head |-> snapshot[h], extent |-> @.extent \cup snapshot[h]]]
    /\ synced' = synced \ {handle[h]}
    /\ Touch(h, handle[h])
    /\ UNCHANGED <<hosts, snapshot, handle, tmp, target, older, unsaved>>

\* sync_all on the file the temporary path names, if there is one.  Mutated:
\* left out.
SkipSync == synced
SyncTmp == IF tmp = NoInode THEN synced ELSE synced \cup {tmp}

Fsync(h) ==
    /\ Goto(h, "sync", "rename")
    /\ synced' = SyncTmp
    /\ unflushed' = unflushed \ {tmp}
    /\ UNCHANGED <<hosts, snapshot, handle, file, tmp, target, older, unsaved,
                   overlapped, mixed>>

\* The temporary file cannot be opened again, or sync_all fails: both are
\* ignored ("Best-effort fsync"), and the rename follows all the same.
SyncFails(h) ==
    /\ Goto(h, "sync", "rename")
    /\ "sync" \in Faults /\ tmp # NoInode
    /\ unflushed' = unflushed \cup {tmp}
    /\ UNCHANGED <<hosts, snapshot, handle, diskVars, unsaved, overlapped, mixed>>

\* What the temporary path names after the rename.  Mutated: a hard link.
StillLinked == tmp
MovedAway == NoInode

\* rename onto hosts_file.  It fails when another handler renamed first.
Rename(h) ==
    /\ Goto(h, "rename", "reply")
    /\ tmp # NoInode
    /\ older' = IF target = NoInode THEN older ELSE older \cup {target}
    /\ target' = tmp
    /\ tmp' = MovedAway
    /\ unsaved' = unsaved \ snapshot[h]
    /\ Touch(h, tmp)
    /\ UNCHANGED <<hosts, snapshot, handle, file, synced>>

RenameFails(h) ==
    /\ Goto(h, "rename", "reply")
    /\ tmp = NoInode \/ "rename" \in Faults
    /\ unsaved' = unsaved \cup {h}
    /\ UNCHANGED <<hosts, snapshot, handle, diskVars, history>>

\* write fails, before or after it opened the file: logged, and the persist
\* is given up.
WriteFails(h) ==
    /\ pc[h] \in {"open", "write"}
    /\ Goto(h, pc[h], "reply")
    /\ "write" \in Faults
    /\ unsaved' = unsaved \cup {h}
    /\ UNCHANGED <<hosts, snapshot, handle, diskVars, history>>

\* The response carries host_id and host_token: the PC keeps them.  Mutated:
\* the response does not wait for the file.
BeforePersist(h) == pc[h] \in {"open", "reply"}
AfterPersist(h) == pc[h] = "reply"

Reply(h) ==
    /\ AfterPersist(h)
    /\ Goto(h, pc[h], "acked")
    /\ UNCHANGED <<hosts, snapshot, handle, diskVars, unsaved, history>>

-----------------------------------------------------------------------------
(* Crashes *)

\* Handlers die with the process; main loads what the file holds.  What the
\* memory alone knew, because the last rename is undone, the file was never
\* synced or two handlers wrote it, is unsaved from now on.
Boot(i, contents) ==
    /\ hosts' = Load(contents, i)
    /\ unsaved' = IF i = target /\ i \notin mixed \cup unflushed THEN unsaved
                  ELSE unsaved \cup (hosts \ Load(contents, i))
    /\ pc' = [h \in HostIds |-> IF h \in Registering THEN "lost" ELSE pc[h]]
    /\ handle' = [h \in HostIds |-> NoInode]
    /\ UNCHANGED <<snapshot, history>>

\* systemctl restart, or a panic: what was written stays.
Restart ==
    /\ "restart" \in Crashes
    /\ Boot(target, file)
    /\ UNCHANGED diskVars

\* The machine stops: contents that were not synced may be gone, and so may
\* the last renames.
PowerLoss ==
    /\ "power" \in Crashes
    /\ \E gone \in SUBSET (Inode \ synced), t \in {target} \cup older :
         /\ file' = [i \in Inode |-> IF i \in gone THEN Empty ELSE file[i]]
         /\ target' = t
         /\ Boot(t, file')
    /\ synced' = Inode
    /\ older' = {}
    /\ tmp' = IF tmp = target' THEN NoInode ELSE tmp

StoreNext ==
    \/ \E h \in HostIds :
         \/ Register(h) \/ OpenTmp(h) \/ WriteTmp(h) \/ Fsync(h) \/ SyncFails(h)
         \/ Rename(h) \/ RenameFails(h) \/ WriteFails(h) \/ Reply(h)
    \/ Restart
    \/ PowerLoss

StoreSpec == StoreInit /\ [][StoreNext]_storeVars

\* Host ids are drawn at random: nothing tells one from another.
HostSymmetry == Permutations(HostIds)

-----------------------------------------------------------------------------
(* Properties *)

\* Every variable stays in its domain, and the two paths never name the same
\* inode.
StoreTypeOK ==
    /\ hosts \subseteq HostIds
    /\ pc \in [HostIds -> {"new", "open", "write", "sync", "rename", "reply",
                           "acked", "lost"}]
    /\ snapshot \in [HostIds -> SUBSET HostIds]
    /\ handle \in [HostIds -> Inode \cup {NoInode}]
    /\ file \in [Inode -> [head : SUBSET HostIds, extent : SUBSET HostIds]]
    /\ synced \subseteq Inode
    /\ tmp \in Inode \cup {NoInode}
    /\ target \in Inode \cup {NoInode}
    /\ older \subseteq Inode
    /\ unsaved \subseteq HostIds
    /\ overlapped \subseteq HostIds
    /\ mixed \subseteq Inode /\ unflushed \subseteq Inode
    /\ tmp # NoInode => tmp \notin older \cup {target}

\* A PC that was given its host_token is still registered after a crash at
\* any moment ("the registry survives restarts", main.rs:82-87), unless its
\* persist failed and no later one came ("it'll redo itself on the next
\* register", main.rs:166-167); or a power loss undid its rename, or its
\* contents after a sync whose failure was ignored; or the file is one that
\* two handlers at once left: a handler that is alone repairs it.
AcknowledgedSurvive ==
    \A h \in HostIds :
        pc[h] = "acked" => \/ h \in Load(file, target) \cup unsaved
                           \/ target \in mixed

\* Files whose sync failed and that a power loss met: since then all that is
\* left of a file is on the disk.
Torn == unflushed \cap synced

\* hosts_file always holds one complete snapshot: "a crash mid-write leaves
\* either the old or the new copy intact, never a half-written one"
\* (main.rs:89-91).  Two things in the code refute it.  Two registrations
\* overlap: one handler renames the temporary file that the other has just
\* truncated.  Or the sync fails, which the rename does not wait for, and the
\* machine loses power ("a crash window where the file isn't fully on disk
\* yet", main.rs:192-194).  Nothing else can.
NeverHalfWritten ==
    target \in Inode \ (mixed \cup Torn) => Parses(file[target])

\* When nobody is registering and nothing failed, the file holds what the
\* relay knows: the disk "is updated atomically ... after each host_register"
\* (main.rs:209-212).  Two registrations at once refute it: they persist in
\* the order of their file operations, not in that of their snapshots.
DiskFollowsMemory ==
    Registering = {} /\ unsaved = {} => Load(file, target) = hosts
=============================================================================
