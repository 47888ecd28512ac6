----------------------------- MODULE Lifecycle -----------------------------
(***************************************************************************)
(* The life of one project directory (enable/): apply moves it aside and    *)
(* ingests it into a backing tree, a daemon serves the backing at its old   *)
(* place, and restore, remount, compact, seal, reingest and purge act on    *)
(* what is there.  Nothing serialises these commands: each one reads which  *)
(* names exist, and only the flock on the backing keeps a daemon and an     *)
(* offline rewrite apart.                                                   *)
(*                                                                          *)
(* A command can be killed between any two system calls, a daemon can die   *)
(* or be restarted by systemd, and a power loss takes every directory back  *)
(* to what was last fsynced, or keeps what it holds.                        *)
(***************************************************************************)
EXTENDS Integers, FiniteSets

CONSTANTS
    Records,      \* what users write, each one once
    Trees,        \* directory trees (inodes)
    Daemons,      \* processes of the mounted file system
    Commands,     \* processes of the command line
    None,
    Workloads     \* records of: commands, the ones users call; faults, of
                  \* "kill" (a command), "die" (a daemon), "power", "io", and
                  \* "session", a program with an open file; systemd, whether
                  \* it runs the daemons; backends, those users choose from

ASSUME ProcessesAssumption == Commands \cap Daemons = {} /\ None \notin Commands \cup Daemons

VARIABLES
    load,     \* the workload
    at,       \* names to trees: the project's mountpoint mp, its backup orig,
              \* the backing of each backend and the trees reingest keeps
              \* beside it; "meta" is the sidecar
    safeAt,   \* the names a power loss preserves
    tree,     \* the records in a tree, and those a power loss preserves
    mount,    \* the daemon mounted on mp, dead or alive
    daemon,   \* the step of each daemon
    serves,   \* the backing it was started with
    pid,      \* whom the pid file names
    flock,    \* the backing of which a process holds <backing>.scrollz.lock
    unit,     \* systemd's unit: active, so that it is restarted if it fails,
              \* and enabled, so that it is started at boot
    cmd,      \* the command each process runs, its step, was_mounted, the
              \* backing it works on, and the daemon it started
    session,  \* the tree in which a user's program has a file open
    written,  \* ghost: the records users wrote, purged backings' left out
    shown     \* ghost: the records the mounted view owes its users

names  == <<at, safeAt, tree>>
daemons == <<mount, daemon, serves, pid, flock, unit>>
ghosts == <<session, written, shown>>
vars   == <<load, names, daemons, cmd, ghosts>>

Backends  == {"shadow", "container"}
TreeNames == {"mp", "orig", "tmp", "bak"} \cup Backends
Names     == TreeNames \cup {"meta"}
Projects  == {"mp", "orig"}      \* the directory projects_root
Back      == Names \ Projects    \* the directory back_root
Meta      == [backend : Backends, committed : BOOLEAN]

ASSUME NoneAssumption == None \notin Trees \cup Names \cup Meta
ASSUME WorkloadsAssumption ==
    \A w \in Workloads : w.backends \subseteq Backends /\ w.systemd \in BOOLEAN

Idle   == [kind |-> "none", pc |-> "idle", mounted |-> FALSE, backing |-> None, child |-> None]
Closed == {"off", "starting"}

Exists(n) == at[n] # None
Data(n)   == IF Exists(n) THEN tree[at[n]].data ELSE {}
\* The sidecar vouches for the backing of its backend.
Committed == at["meta"] \in {m \in Meta : m.committed}
\* The mountpoint's endpoint answers; where nothing is mounted it is the
\* directory that answers.
Health    == IF mount # None /\ daemon[mount] # "serving" THEN "stale" ELSE "healthy"
Healthy   == mount # None /\ Health = "healthy"
\* classify and probe.
Classify(orig, mounted, health, committed) ==
    CASE ~orig                             -> "Plain"
      [] orig /\ mounted                   -> "Active"
      [] orig /\ ~mounted /\ health = "healthy" /\ committed -> "Stopped"
      [] OTHER                             -> "Broken"
Probe == Classify(Exists("orig"), Healthy, Health, Committed)
\* scan: the project is among those that have a directory.
Scanned == Exists("mp")
\* A process holds a file of the directory open, or wrote a log there lately.
Active(n) == session # None /\ session = at[n]
Unused    == Trees \ ({at[n] : n \in TreeNames} \cup {safeAt[n] : n \in TreeNames})
NoTree    == [data |-> {}, safe |-> {}]

Init ==
    /\ load \in Workloads
    /\ at \in {[n \in Names |-> IF n = "mp" THEN t ELSE None] : t \in Trees}
    /\ safeAt = at
    /\ tree = [t \in Trees |-> NoTree]
    /\ mount = None /\ pid = None
    /\ flock = [p \in Daemons \cup Commands |-> None]
    /\ unit = [active |-> FALSE, enabled |-> FALSE]
    /\ daemon = [d \in Daemons |-> "off"]
    /\ serves = [d \in Daemons |-> None]
    /\ session = None
    /\ cmd = [c \in Commands |-> Idle]
    /\ written = {} /\ shown = {}

-----------------------------------------------------------------------------
(* Directory operations                                                     *)

Sync(dir)    == safeAt' = [n \in Names |-> IF n \in dir THEN at[n] ELSE safeAt[n]]
\* rename(2): an empty directory at the new name is replaced.
CanRename(a, b) == Exists(a) /\ Data(b) = {}
RenamedKeeping(a, b) == [at EXCEPT ![b] = at[a]]  \* mutant: the old name stays
Renamed(a, b)   == [at EXCEPT ![a] = None, ![b] = at[a]]
Rename(a, b)    == CanRename(a, b) /\ at' = Renamed(a, b)
\* remove_dir: of an empty directory only, and not of a mountpoint.
CanRemoveAll(n) == mount = None  \* mutant: remove_dir_all
CanRemove(n)    == Data(n) = {} /\ mount = None
\* fsync_tree: what a power loss preserves of a tree.
FsyncNothing(t) == tree  \* mutant
FsyncTree(t)    == [tree EXCEPT ![t].safe = tree[t].data]
MakeDir(n)   == /\ ~Exists(n)
                /\ \E t \in Unused : at' = [at EXCEPT ![n] = t] /\ tree' = [tree EXCEPT ![t] = NoTree]
\* write_meta: a rename and an fsync of back_root.
WriteMeta(m) == at' = [at EXCEPT !["meta"] = m]
\* from_apply
MetaOf(b)    == [backend |-> b, committed |-> TRUE]
\* mount_spec: of a daemon's arguments, the backing.
MountSpec(meta) == meta.backend
\* backing_occupied: a directory with something in it, or a container's file.
Occupied(b)  == IF b = "shadow" THEN Data(b) # {} ELSE Exists(b)

-----------------------------------------------------------------------------
(* Users                                                                    *)

\* A user writes a new record into the tree behind a name and makes it, and
\* the path to it, durable.
Put(n, r) ==
    /\ r \notin written
    /\ \A s \in Records : s < r => s \in written
    /\ tree' = [tree EXCEPT ![at[n]] = [data |-> @.data \cup {r}, safe |-> @.safe \cup {r}]]
    /\ written' = written \cup {r}

\* By path: into the mounted file system, or into the plain directory, which
\* is the project itself or what lies under its mountpoint.
Write(r) ==
    \/ /\ Healthy /\ Exists(serves[mount])
       /\ Put(serves[mount], r)
       /\ shown' = shown \cup {r}
       /\ UNCHANGED <<load, at, safeAt, daemons, cmd, session>>
    \/ /\ mount = None /\ Exists("mp")
       /\ Put("mp", r)
       /\ Sync(Projects)
       /\ UNCHANGED <<load, at, daemons, cmd, session, shown>>

\* A daemon that was unmounted still flushes, and serves the files that were
\* open when it was detached lazily.
LateWrite(d, r) ==
    /\ daemon[d] = "leaving" /\ Exists(serves[d]) /\ at["meta"] = MetaOf(serves[d])
    /\ Put(serves[d], r)
    /\ shown' = shown \cup {r}
    /\ UNCHANGED <<load, at, safeAt, daemons, cmd, session>>

\* A program opens a file of the plain directory while no command runs, writes
\* to it wherever the directory is by then, and closes it.
OpenSession ==
    /\ "session" \in load.faults
    /\ session = None /\ mount = None /\ Data("mp") # {}
    /\ \A c \in Commands : cmd[c] = Idle
    /\ session' = at["mp"]
    /\ UNCHANGED <<load, names, daemons, cmd, written, shown>>

SessionWrite(r) ==
    /\ \E n \in TreeNames : Active(n) /\ Put(n, r)
    /\ Sync(Projects)
    /\ UNCHANGED <<load, at, daemons, cmd, session, shown>>

CloseSession ==
    /\ session # None
    /\ session' = None
    /\ UNCHANGED <<load, names, daemons, cmd, written, shown>>

-----------------------------------------------------------------------------
(* The daemon: run_mount, run_mount_managed                                 *)

\* ensure_underlay_empty.
Mountable == Data("mp") = {}

Free(b)    == \A p \in Daemons \cup Commands : flock[p] # b
Release(p) == flock' = [flock EXCEPT ![p] = None]

Start(d, b) ==
    /\ daemon' = [daemon EXCEPT ![d] = "starting"]
    /\ serves' = [serves EXCEPT ![d] = b]

Exit(d) ==
    /\ daemon' = [daemon EXCEPT ![d] = "off"]
    /\ serves' = [serves EXCEPT ![d] = None]
    /\ Release(d)

\* Writes the pid file, takes the backing's flock and opens it, or exits and
\* leaves the pid file behind.
Open(d) ==
    /\ daemon[d] = "starting"
    /\ pid' = d
    /\ IF Exists(serves[d]) /\ Free(serves[d])
       THEN /\ daemon' = [daemon EXCEPT ![d] = "open"]
            /\ flock' = [flock EXCEPT ![d] = serves[d]]
            /\ UNCHANGED serves
       ELSE Exit(d)
    /\ UNCHANGED <<load, names, mount, unit, cmd, ghosts>>

AllOff == \A d \in Daemons : daemon[d] = "off"

Serve(d) ==
    /\ daemon[d] = "open"
    /\ IF mount = None /\ Exists("mp")
       THEN /\ mount' = d
            /\ daemon' = [daemon EXCEPT ![d] = "serving"]
            /\ UNCHANGED <<serves, flock, pid>>
       ELSE UNCHANGED mount /\ Exit(d) /\ pid' = None
    /\ UNCHANGED <<load, names, unit, cmd, ghosts>>

\* session.join() returned: the store is dropped, the pid file removed, and
\* the exit is one that systemd does not answer with a restart.
Leave(d) ==
    /\ daemon[d] = "leaving"
    /\ Exit(d)
    /\ pid' = None
    /\ unit' = [unit EXCEPT !.active = FALSE]
    /\ UNCHANGED <<load, names, mount, cmd, ghosts>>

\* A crash; the mount stays behind (ENOTCONN) unless auto_unmount was given.
Die(d) ==
    /\ "die" \in load.faults
    /\ daemon[d] \notin Closed
    /\ Exit(d)
    /\ mount' \in (IF mount = d THEN {d, None} ELSE {mount})
    /\ UNCHANGED <<load, names, pid, unit, cmd, ghosts>>

\* resolve_managed_spec: the sidecar says what to mount.
Resolved == IF Committed THEN MountSpec(at["meta"]) ELSE None

\* systemd starts the unit again, at boot or after a failure: guard-check,
\* then resolve_managed_spec.
Restart(d) ==
    /\ unit.active /\ AllOff /\ mount = None
    /\ Mountable /\ Resolved # None
    /\ Start(d, Resolved)
    /\ UNCHANGED <<load, names, mount, pid, flock, unit, cmd, ghosts>>

-----------------------------------------------------------------------------
(* Steps the commands share                                                 *)

At(c, kind, pc) == cmd[c].kind = kind /\ cmd[c].pc = pc
Goto(c, pc) == cmd' = [cmd EXCEPT ![c].pc = pc]
End(c)      == cmd' = [cmd EXCEPT ![c] = Idle]
\* The user calls a command.
Run(command) == command \in load.commands
\* A user's next command finds no daemon in the milliseconds of its start.
Begin(c, kind, pc, b) ==
    /\ cmd[c] = Idle
    /\ \A d \in Daemons : daemon[d] \notin {"starting", "open"}
    /\ cmd' = [cmd EXCEPT ![c] =
                    [Idle EXCEPT !.kind = kind, !.pc = pc, !.mounted = mount # None, !.backing = b]]
Faulty == "io" \in load.faults

\* fusermount: a process that still has files open runs on.
Detach ==
    /\ mount' = None
    /\ daemon' = [d \in Daemons |-> IF Healthy /\ d = mount THEN "leaving" ELSE daemon[d]]
    /\ UNCHANGED <<serves, flock, pid, unit>>

\* umount-managed, and systemd then ends the daemon.
ExecStop ==
    /\ mount' = None
    /\ daemon' = [d \in Daemons |-> "off"]
    /\ serves' = [d \in Daemons |-> None]
    /\ flock' = [p \in Daemons \cup Commands |-> IF p \in Daemons THEN None ELSE flock[p]]
    /\ pid' \in {pid, None}

\* systemctl stop.
Stop == ExecStop /\ unit' = [unit EXCEPT !.active = FALSE]

\* Mounter::unmount, of the mounter select_mounter chose.
Unmount == IF load.systemd THEN Stop ELSE Detach
EnableAutostart  == unit' = [unit EXCEPT !.enabled = load.systemd]
DisableAutostart == unit' = [unit EXCEPT !.enabled = FALSE]

\* With level Auto.
UnmountAuto(c, kind, pc, next) ==
    /\ At(c, kind, pc)
    /\ Unmount
    /\ IF next = "end" THEN End(c) ELSE Goto(c, next)
    /\ UNCHANGED <<load, names, ghosts>>

\* With level Clean: the command ends if the mount is busy.
UnmountClean(c, kind, pc, next) ==
    /\ At(c, kind, pc)
    /\ \/ mount # None /\ Unmount /\ Goto(c, next)
       \/ mount = None /\ Goto(c, next) /\ UNCHANGED daemons
       \/ Healthy /\ ~load.systemd /\ End(c) /\ UNCHANGED daemons
    /\ UNCHANGED <<load, names, ghosts>>

\* What is left of a command that gives up is to mount again.
GiveUp(c) == cmd' = [cmd EXCEPT ![c].kind = "remount", ![c].pc = "spawn"]

\* wait_daemon_exit: the process named by the pid file is gone, or there is
\* none; after three seconds the command gives up.
WaitExit(c, kind, pc, next) ==
    /\ At(c, kind, pc)
    /\ IF pid = None \/ daemon[pid] = "off"
       THEN Goto(c, next) /\ UNCHANGED at
       ELSE GiveUp(c) /\ at' = [at EXCEPT !["tmp"] = IF kind = "reingest" THEN None ELSE @]
    /\ UNCHANGED <<load, safeAt, tree, daemons, ghosts>>

\* Mounter::spawn: the guards, and a new daemon, which removes the stale pid
\* file, unless systemd finds one running.
Spawn(c) ==
    /\ cmd[c].pc = "spawn"
    /\ \/ /\ Mountable /\ (load.systemd => AllOff)
          /\ \E d \in Daemons :
                /\ daemon[d] = "off" /\ mount # d
                /\ Start(d, cmd[c].backing)
                /\ cmd' = [cmd EXCEPT ![c].pc = "await", ![c].child = d]
          /\ pid' = IF load.systemd THEN pid ELSE None
          /\ unit' = [unit EXCEPT !.active = load.systemd]
       \/ /\ Mountable /\ load.systemd
          /\ \E d \in Daemons :
                /\ daemon[d] # "off"
                /\ cmd' = [cmd EXCEPT ![c].pc = "await", ![c].child = d]
          /\ UNCHANGED <<daemon, serves, pid, unit>>
       \/ /\ ~Mountable
          /\ Goto(c, "unmounted")
          /\ UNCHANGED <<daemon, serves, pid, unit>>
    /\ UNCHANGED <<load, names, mount, flock, ghosts>>

\* The endpoint answers or the daemon exited.  When the time is up RealMounter
\* sends it SIGTERM and waits for its end; systemctl start blocks.
Await(c) ==
    /\ cmd[c].pc = "await"
    /\ \/ Healthy /\ Goto(c, "mounted") /\ UNCHANGED daemons
       \/ /\ daemon[cmd[c].child] = "off"
          /\ Goto(c, "unmounted")
          /\ UNCHANGED daemons
       \/ /\ ~load.systemd /\ daemon[cmd[c].child] # "off"
          /\ Exit(cmd[c].child)
          /\ mount' = IF mount = cmd[c].child THEN None ELSE mount
          /\ Goto(c, "unmounted")
          /\ UNCHANGED <<pid, unit>>
    /\ UNCHANGED <<load, names, ghosts>>

\* What a command does after it mounted, or could not; apply then registers
\* the start at boot (enable_autostart).
AfterMount(c) ==
    /\ cmd[c].pc \in {"mounted", "unmounted"}
    /\ CASE cmd[c].kind = "reingest" -> Goto(c, "meta") /\ UNCHANGED unit
         [] At(c, "apply", "unmounted") -> Goto(c, "unmount") /\ UNCHANGED unit
         [] At(c, "apply", "mounted") -> End(c) /\ EnableAutostart
         [] OTHER -> End(c) /\ UNCHANGED unit
    /\ UNCHANGED <<load, names, mount, daemon, serves, pid, flock, ghosts>>

\* ingest_file: what it writes a power loss may take back, unlike a
\* transaction of the container.
IngestFile(t, r) == tree' = [tree EXCEPT ![t].data = @ \cup {r}]
IngestFileIntoStore(t, r) == tree' = [tree EXCEPT ![t] = [data |-> @.data \cup {r}, safe |-> @.safe \cup {r}]]
\* verify_file: every block of the source is there.
Verified(n) == Data("orig") \subseteq Data(n)

\* Copies records of orig into a new tree, one at a time.
CopyInto(c, kind, pc, n, next) ==
    /\ At(c, kind, pc)
    /\ \/ \E r \in Data("orig") \ Data(n) :
            /\ \A s \in Data("orig") \ Data(n) : r <= s
            /\ IF n = "container" THEN IngestFileIntoStore(at[n], r) ELSE IngestFile(at[n], r)
            /\ UNCHANGED cmd
       \/ Verified(n) /\ Goto(c, next) /\ UNCHANGED tree
    /\ UNCHANGED <<load, at, safeAt, daemons, ghosts>>

-----------------------------------------------------------------------------
(* apply                                                                    *)

\* The last thing apply looks at is whether the project is in use.
CanApply(b) ==
    /\ ~Exists("orig") /\ Exists("mp") /\ mount = None
    /\ ~Occupied(b) /\ ~Exists("meta")
    /\ ~Active("mp")

BeginApply(c) ==
    /\ Run("apply")
    /\ \E b \in load.backends : CanApply(b) /\ Begin(c, "apply", "move", b)
    /\ UNCHANGED <<load, names, daemons, ghosts>>

\* The project is renamed to orig, the rename made durable, and a mountpoint
\* made; from there on a failure rolls back.
ApplyMove(c) ==
    /\ \/ /\ At(c, "apply", "move")
          /\ IF CanRename("mp", "orig") /\ mount = None
             THEN Rename("mp", "orig") /\ Goto(c, "sync")
             ELSE UNCHANGED at /\ End(c)
          /\ UNCHANGED <<tree, safeAt>>
       \/ /\ At(c, "apply", "sync") /\ Sync(Projects) /\ Goto(c, "mkdir")
          /\ UNCHANGED <<at, tree>>
       \/ /\ At(c, "apply", "mkdir")
          /\ MakeDir("mp") /\ Goto(c, "backing")
          /\ UNCHANGED safeAt
       \/ /\ At(c, "apply", "backing")
          /\ IF Exists(cmd[c].backing) THEN UNCHANGED <<at, tree>> ELSE MakeDir(cmd[c].backing)
          /\ Goto(c, "copy")
          /\ UNCHANGED safeAt
       \/ /\ cmd[c].kind = "apply" /\ cmd[c].pc \in {"mkdir", "backing", "copy"}
          /\ Faulty
          /\ Goto(c, "rollback")
          /\ UNCHANGED names
    /\ UNCHANGED <<load, daemons, ghosts>>

\* The backing, or the name of the container, is made durable before the
\* sidecar that vouches for it.
ApplyCommit(c) ==
    /\ \/ /\ At(c, "apply", "fsync")
          /\ IF cmd[c].backing = "shadow"
             THEN tree' = FsyncTree(at["shadow"]) /\ UNCHANGED safeAt
             ELSE Sync(Back) /\ UNCHANGED tree
          /\ Goto(c, "commit")
          /\ UNCHANGED <<at, shown>>
       \/ /\ At(c, "apply", "commit") /\ Faulty /\ End(c)
          /\ UNCHANGED <<names, shown>>
       \/ /\ At(c, "apply", "commit")
          /\ WriteMeta(MetaOf(cmd[c].backing)) /\ Goto(c, "durable")
          /\ shown' = Data("orig")
          /\ UNCHANGED <<safeAt, tree>>
       \/ /\ At(c, "apply", "durable") /\ Sync(Back) /\ Goto(c, "spawn")
          /\ UNCHANGED <<at, tree, shown>>
    /\ UNCHANGED <<load, daemons, session, written>>

\* rollback_to_plain: the mountpoint goes if it is empty, orig comes back if
\* there is nothing in its way, the backing and the sidecar are removed.
Rollback(c) ==
    /\ \/ /\ At(c, "apply", "rollback")
          /\ at' = IF CanRemove("mp") THEN [at EXCEPT !["mp"] = None] ELSE at
          /\ Goto(c, "back")
          /\ UNCHANGED safeAt
       \/ /\ At(c, "apply", "back")
          /\ at' = IF CanRename("orig", "mp") THEN Renamed("orig", "mp") ELSE at
          /\ Goto(c, "synced")
          /\ UNCHANGED safeAt
       \/ /\ At(c, "apply", "synced") /\ Sync(Projects) /\ Goto(c, "drop")
          /\ UNCHANGED at
       \/ /\ At(c, "apply", "drop")
          /\ at' = [at EXCEPT ![cmd[c].backing] = None, !["meta"] = None]
          /\ End(c)
          /\ UNCHANGED safeAt
    /\ UNCHANGED <<load, tree, daemons, ghosts>>

Apply(c) ==
    \/ BeginApply(c)
    \/ ApplyMove(c)
    \/ CopyInto(c, "apply", "copy", cmd[c].backing, "fsync")
    \/ ApplyCommit(c)
    \/ Rollback(c)
    \/ UnmountAuto(c, "apply", "unmount", "end")

-----------------------------------------------------------------------------
(* restore, remount and purge                                               *)

BeginRestore(c) ==
    /\ Run("restore")
    /\ Exists("orig")
    /\ Begin(c, "restore", "unmount", None)
    /\ UNCHANGED <<load, names, daemons, ghosts>>

Restore(c) ==
    \/ BeginRestore(c)
    \/ UnmountAuto(c, "restore", "unmount", "rmdir")
    \/ /\ \/ /\ At(c, "restore", "rmdir")
             /\ IF CanRemove("mp")
                THEN at' = [at EXCEPT !["mp"] = None] /\ Goto(c, "rename")
                ELSE UNCHANGED at /\ End(c)
             /\ UNCHANGED safeAt
          \/ /\ At(c, "restore", "rename")
             /\ IF CanRename("orig", "mp")
                THEN Rename("orig", "mp") /\ Goto(c, "sync")
                ELSE UNCHANGED at /\ End(c)
             /\ UNCHANGED safeAt
          \/ /\ At(c, "restore", "sync") /\ Sync(Projects) /\ Goto(c, "meta")
             /\ UNCHANGED at
          \/ /\ At(c, "restore", "meta")
             /\ at' = IF Committed THEN [at EXCEPT !["meta"].committed = FALSE] ELSE at
             /\ Goto(c, "durable")
             /\ UNCHANGED safeAt
          \/ /\ At(c, "restore", "durable") /\ Sync(Back) /\ End(c)
             /\ UNCHANGED at
       /\ pid' = IF cmd[c].pc = "meta" THEN None ELSE pid
       /\ IF cmd[c].pc = "durable" THEN DisableAutostart ELSE UNCHANGED unit
       /\ UNCHANGED <<load, tree, mount, daemon, serves, flock, ghosts>>

\* --all takes the stopped projects only.
RemountAll == Run("remount all") /\ Scanned /\ Probe = "Stopped"

BeginRemount(c) ==
    /\ \/ Run("remount") /\ ~Healthy
       \/ RemountAll
    /\ Begin(c, "remount", IF mount = None THEN "meta" ELSE "unmount", None)
    /\ UNCHANGED <<load, names, daemons, ghosts>>

Remount(c) ==
    \/ BeginRemount(c)
    \/ UnmountAuto(c, "remount", "unmount", "meta")
    \/ /\ At(c, "remount", "meta")
       /\ IF Committed
          THEN cmd' = [cmd EXCEPT ![c].pc = "spawn", ![c].backing = MountSpec(at["meta"])]
          ELSE End(c)
       /\ UNCHANGED <<load, names, daemons, ghosts>>

\* What purge removes: the backing the sidecar names, or both.
Purged == IF Exists("meta") THEN {at["meta"].backend} ELSE Backends

\* The user gives up what only the backing has.
Purge(c) ==
    /\ \/ /\ Run("purge")
          /\ ~Exists("orig") /\ mount = None
          /\ \E n \in Backends \cup {"meta"} : Exists(n)
          /\ Begin(c, "purge", "meta", None)
          /\ at' = [n \in Names |-> IF n \in Purged THEN None ELSE at[n]]
          /\ written' = written \cap UNION {Data(n) : n \in TreeNames \ Purged}
          /\ shown' = {}
          /\ UNCHANGED session
       \/ /\ At(c, "purge", "meta")
          /\ at' = [at EXCEPT !["meta"] = None]
          /\ End(c)
          /\ UNCHANGED ghosts
    /\ UNCHANGED <<load, safeAt, tree, daemons>>

\* scrollz umount, which leaves the unit to systemd.
Umount(c) ==
    /\ Run("umount")
    /\ mount # None /\ cmd[c] = Idle
    /\ Detach
    /\ UNCHANGED <<load, names, cmd, ghosts>>

\* autostart install enables the unit of every committed project.
InstallAutostart(c) ==
    /\ Run("autostart")
    /\ load.systemd /\ Committed /\ cmd[c] = Idle
    /\ EnableAutostart
    /\ UNCHANGED <<load, names, mount, daemon, serves, pid, flock, cmd, ghosts>>

-----------------------------------------------------------------------------
(* maintain: compact and seal                                               *)

\* The rewrite of an unmounted backing holds its flock (acquire_backing_retry)
\* or fails; what it writes keeps every record.
LockUnchecked(c) ==  \* mutant: relies on the pid file alone
    /\ cmd[c].kind \in {"maintain", "offline"} /\ cmd[c].pc = "lock"
    /\ Goto(c, "rewrite")
    /\ UNCHANGED <<load, names, daemons, ghosts>>

Lock(c) ==
    /\ cmd[c].kind \in {"maintain", "offline"} /\ cmd[c].pc = "lock"
    /\ IF Free(cmd[c].backing)
       THEN flock' = [flock EXCEPT ![c] = cmd[c].backing] /\ Goto(c, "rewrite")
       ELSE UNCHANGED flock /\ Goto(c, "after")
    /\ UNCHANGED <<load, names, mount, daemon, serves, pid, unit, ghosts>>

BeginCompact(c) ==
    /\ Run("compact") /\ Committed
    /\ Begin(c, "maintain", IF mount = None THEN "lock" ELSE "unmount", at["meta"].backend)

BeginSeal(c) ==
    /\ Run("seal") /\ at["meta"] = MetaOf("shadow")
    /\ Begin(c, "maintain", IF mount = None THEN "lock" ELSE "unmount", "shadow")

\* scrollz compact and scrollz seal take a backing's path and look at nothing
\* else.
OfflineCompact(c) ==
    /\ Run("offline")
    /\ \E b \in Backends : Exists(b) /\ Begin(c, "offline", "lock", b)
OfflineSeal(c) ==
    /\ Run("offline")
    /\ Exists("shadow") /\ Begin(c, "offline", "lock", "shadow")

Maintain(c) ==
    \/ /\ BeginCompact(c) \/ BeginSeal(c) \/ OfflineCompact(c) \/ OfflineSeal(c)
       /\ UNCHANGED <<load, names, daemons, ghosts>>
    \/ UnmountClean(c, "maintain", "unmount", "wait")
    \/ WaitExit(c, "maintain", "wait", "lock")
    \/ Lock(c)
    \/ /\ cmd[c].kind \in {"maintain", "offline"} /\ cmd[c].pc = "rewrite"
       /\ Release(c)
       /\ Goto(c, "after")
       /\ UNCHANGED <<load, names, mount, daemon, serves, pid, unit, ghosts>>
    \/ /\ cmd[c].kind \in {"maintain", "offline"} /\ cmd[c].pc = "after"
       /\ IF cmd[c].kind = "maintain" /\ cmd[c].mounted THEN Goto(c, "spawn") ELSE End(c)
       /\ UNCHANGED <<load, names, daemons, ghosts>>

-----------------------------------------------------------------------------
(* reingest                                                                 *)

BeginReingest(c) ==
    /\ Run("reingest")
    /\ at["meta"] = MetaOf("shadow") /\ Exists("orig") /\ ~Exists("bak")
    /\ ~Active("mp")
    /\ Begin(c, "reingest", "mkdir", "shadow")
    /\ UNCHANGED <<load, names, daemons, ghosts>>

\* The new tree takes the backing's place, which is kept as .reingest-bak.
Swap(c) ==
    \/ /\ At(c, "reingest", "aside")
       /\ IF Exists("shadow")
          THEN Rename("shadow", "bak") /\ Goto(c, "replace")
          ELSE UNCHANGED at /\ End(c)
       /\ UNCHANGED <<safeAt, shown>>
    \/ /\ At(c, "reingest", "replace")
       /\ Rename("tmp", "shadow") /\ Goto(c, "sync")
       /\ shown' = Data("orig")
       /\ UNCHANGED safeAt
    \/ /\ At(c, "reingest", "replace") /\ Faulty
       /\ at' = Renamed("bak", "shadow")
       /\ GiveUp(c)
       /\ UNCHANGED <<safeAt, shown>>
    \/ /\ At(c, "reingest", "sync") /\ Sync(Back) /\ Goto(c, "spawn")
       /\ UNCHANGED <<at, shown>>
    \/ /\ At(c, "reingest", "meta")
       /\ WriteMeta(MetaOf("shadow")) /\ Goto(c, "durable")
       /\ UNCHANGED <<safeAt, shown>>
    \/ /\ At(c, "reingest", "durable") /\ Sync(Back) /\ End(c)
       /\ UNCHANGED <<at, shown>>

Reingest(c) ==
    \/ BeginReingest(c)
    \/ /\ At(c, "reingest", "mkdir")
       /\ \E t \in Unused \cup ({at["tmp"]} \ {None}) :
             at' = [at EXCEPT !["tmp"] = t] /\ tree' = [tree EXCEPT ![t] = NoTree]
       /\ Goto(c, "copy")
       /\ UNCHANGED <<load, safeAt, daemons, ghosts>>
    \/ CopyInto(c, "reingest", "copy", "tmp", "unmount")
    \/ /\ At(c, "reingest", "copy") /\ Faulty
       /\ at' = [at EXCEPT !["tmp"] = None]
       /\ End(c)
       /\ UNCHANGED <<load, safeAt, tree, daemons, ghosts>>
    \/ UnmountClean(c, "reingest", "unmount", "wait")
    \/ WaitExit(c, "reingest", "wait", "aside")
    \/ Swap(c) /\ UNCHANGED <<load, tree, daemons, session, written>>

-----------------------------------------------------------------------------
(* Faults                                                                   *)

\* SIGKILL, or the terminal is closed: the kernel releases the flock.
Kill(c) ==
    /\ "kill" \in load.faults
    /\ cmd[c] # Idle
    /\ End(c)
    /\ Release(c)
    /\ UNCHANGED <<load, names, mount, daemon, serves, pid, unit, ghosts>>

\* Each directory is found as it was or as it was last synced, and each tree
\* with or without what was not; autostart may be enabled for the project.
PowerLoss ==
    /\ "power" \in load.faults
    /\ \E dirs \in SUBSET {Projects, Back}, kept \in BOOLEAN :
          /\ at' = [n \in Names |-> IF n \in UNION dirs THEN at[n] ELSE safeAt[n]]
          /\ tree' = IF kept THEN tree ELSE [t \in Trees |-> [tree[t] EXCEPT !.data = tree[t].safe]]
    /\ safeAt' = at'
    /\ mount' = None
    /\ flock' = [p \in Daemons \cup Commands |-> None]
    /\ daemon' = [d \in Daemons |-> "off"] /\ serves' = [d \in Daemons |-> None]
    /\ cmd' = [c \in Commands |-> Idle] /\ session' = None
    /\ unit' = [unit EXCEPT !.active = unit.enabled]
    /\ UNCHANGED <<load, pid, written, shown>>

Next ==
    \/ \E r \in Records : Write(r) \/ SessionWrite(r) \/ \E d \in Daemons : LateWrite(d, r)
    \/ OpenSession \/ CloseSession
    \/ \E d \in Daemons : Open(d) \/ Serve(d) \/ Leave(d) \/ Die(d) \/ Restart(d)
    \/ \E c \in Commands :
          \/ Apply(c) \/ Restore(c) \/ Remount(c) \/ Purge(c) \/ Maintain(c) \/ Reingest(c)
          \/ Umount(c) \/ InstallAutostart(c)
          \/ Spawn(c) \/ Await(c) \/ AfterMount(c) \/ Kill(c)
    \/ PowerLoss

Spec == Init /\ [][Next]_vars

-----------------------------------------------------------------------------

\* Where a power loss is to be survived, purge and reingest, which leave
\* directories unsynced, are not among the commands, and none is killed
\* between writing the sidecar and syncing it.
Supported(ws) ==
    \A w \in ws : "power" \in w.faults =>
        w.commands \cap {"purge", "reingest"} = {} /\ "kill" \notin w.faults

TypeOK ==
    /\ load \in Workloads
    /\ \A n \in TreeNames : at[n] \in Trees \cup {None}
    /\ at["meta"] \in Meta \cup {None}
    /\ tree \in [Trees -> [data : SUBSET Records, safe : SUBSET Records]]
    /\ mount \in Daemons \cup {None} /\ pid \in Daemons \cup {None}
    /\ flock \in [Daemons \cup Commands -> Backends \cup {None}]
    /\ daemon \in [Daemons -> {"off", "starting", "open", "serving", "leaving"}]
    /\ \A d \in Daemons : daemon[d] = "off" <=> serves[d] = None
    /\ session \in Trees \cup {None}
    /\ \A m, n \in TreeNames : m # n /\ Exists(m) => at[m] # at[n]

\* Whatever a user wrote and did not purge is under one of the project's names,
\* at every step of every command, after a kill, a crash or a power loss.
NothingLost == \A r \in written : \E n \in TreeNames : r \in Data(n)

\* A mounted project shows what it held when it was applied and everything
\* written through the mount since: no partly ingested, rolled back or
\* half-replaced backing is ever served as the project.
MountShowsAll ==
    Healthy => shown \subseteq Data(serves[mount])

\* An offline rewrite of the archives never overlaps another one, or a daemon
\* that has the backing open, attached or not.
RewriteAlone ==
    \A c \in Commands : cmd[c].pc = "rewrite" =>
        /\ \A d \in Daemons : daemon[d] \notin Closed => serves[d] # cmd[c].backing
        /\ \A b \in Commands \ {c} : cmd[b].pc = "rewrite" => cmd[b].backing # cmd[c].backing
=============================================================================
