--------------------------- MODULE LifecycleProofs ---------------------------
(* Of the mount lifecycle, for any records, trees, daemons and workloads:   *)
(*  - an offline rewrite is alone with the archives, and the names of a     *)
(*    project lead to trees of their own, for any number of commands at the *)
(*    same time (RewriteAlone, TypeOK);                                     *)
(*  - with one command at a time, what users wrote is never lost            *)
(*    (NothingLost), and a mount shows all of it (MountShowsAll).           *)
EXTENDS Lifecycle, TLAPS

Fields == {"kind", "pc", "mounted", "backing", "child"}

\* A process is a command or a daemon, and a command starts daemons only.
Processes ==
    /\ DOMAIN daemon = Daemons /\ DOMAIN serves = Daemons /\ DOMAIN cmd = Commands
    /\ DOMAIN flock = Daemons \cup Commands
    /\ \A c \in Commands : DOMAIN cmd[c] = Fields /\ cmd[c].child \notin Commands

\* The processes that use a backing: a daemon that has it open, and a rewrite.
Users == {d \in Daemons : daemon[d] \notin Closed} \cup {c \in Commands : cmd[c].pc = "rewrite"}

\* Each of them holds that backing's flock, and no two hold the same.
OpenLocked    == \A d \in Daemons : daemon[d] \notin Closed => flock[d] = serves[d]
RewriteLocked == \A c \in Commands : cmd[c].pc = "rewrite" => flock[c] = cmd[c].backing
Exclusive     == \A p, q \in Users : p # q => flock[p] # flock[q]

FlockInv == Processes /\ OpenLocked /\ RewriteLocked /\ Exclusive

\* A step after which no command rewrites that did not before, and one after
\* which no daemon has its backing open that had not.
NoRewriteBegins ==
    /\ DOMAIN cmd' = Commands
    /\ \A c \in Commands :
          /\ DOMAIN cmd'[c] = Fields /\ cmd'[c].child \notin Commands
          /\ cmd'[c].pc = "rewrite" => cmd[c].pc = "rewrite" /\ cmd'[c].backing = cmd[c].backing
NoDaemonOpens ==
    /\ DOMAIN daemon' = Daemons /\ DOMAIN serves' = Daemons
    /\ \A d \in Daemons :
          daemon'[d] \notin Closed => daemon[d] \notin Closed /\ serves'[d] = serves[d]

\* The flock is not taken from a process that goes on to need it.
FlockKept ==
    /\ DOMAIN flock' = Daemons \cup Commands
    /\ \A p \in Users' : flock'[p] = flock[p]

-----------------------------------------------------------------------------
(* Steps that take no flock                                                 *)

LEMMA FlockInit == Init => FlockInv
  BY ProcessesAssumption
  DEF Init, FlockInv, Processes, Users, OpenLocked, RewriteLocked, Exclusive, Idle, Closed, Fields

LEMMA NoneTaken == FlockInv /\ NoRewriteBegins /\ NoDaemonOpens /\ FlockKept => FlockInv'
<1> SUFFICES ASSUME FlockInv, NoRewriteBegins, NoDaemonOpens, FlockKept PROVE FlockInv'
  OBVIOUS
<1>1. Users' \subseteq Users
  BY DEF Users, NoRewriteBegins, NoDaemonOpens
<1>2. Processes'
  BY DEF Processes, NoRewriteBegins, NoDaemonOpens, FlockKept
<1>3. OpenLocked'
  BY DEF FlockInv, OpenLocked, Users, NoDaemonOpens, FlockKept
<1>4. RewriteLocked'
  BY DEF FlockInv, RewriteLocked, Users, NoRewriteBegins, FlockKept
<1>5. Exclusive'
  BY <1>1 DEF FlockInv, Exclusive, FlockKept
<1> QED BY <1>2, <1>3, <1>4, <1>5 DEF FlockInv

LEMMA CmdUnchanged == Processes /\ UNCHANGED cmd => NoRewriteBegins
  BY DEF Processes, NoRewriteBegins

LEMMA GotoKept ==
  ASSUME Processes, NEW c \in Commands, NEW pc, pc # "rewrite", Goto(c, pc)
  PROVE  NoRewriteBegins
  BY DEF Processes, NoRewriteBegins, Goto, Fields

LEMMA IdleFields == DOMAIN Idle = Fields /\ Idle.child \notin Commands /\ Idle.pc # "rewrite"
  BY ProcessesAssumption DEF Idle, Fields

LEMMA EndKept ==
  ASSUME Processes, NEW c \in Commands, End(c)
  PROVE  NoRewriteBegins
  BY IdleFields DEF Processes, NoRewriteBegins, End

LEMMA BeginKept ==
  ASSUME Processes, NEW c \in Commands, NEW kind, NEW pc, NEW b, pc # "rewrite",
         Begin(c, kind, pc, b)
  PROVE  NoRewriteBegins
  BY ProcessesAssumption DEF Processes, NoRewriteBegins, Begin, Idle, Fields

LEMMA GiveUpKept ==
  ASSUME Processes, NEW c \in Commands, GiveUp(c)
  PROVE  NoRewriteBegins
  BY DEF Processes, NoRewriteBegins, GiveUp, Fields

\* Steps of a command that leave the daemons and the flock alone.
LEMMA CommandStep ==
  ASSUME FlockInv, NoRewriteBegins, UNCHANGED <<daemon, serves, flock>>
  PROVE  FlockInv'
  BY NoneTaken DEF FlockInv, Processes, NoDaemonOpens, FlockKept

LEMMA ExitKept ==
  ASSUME Processes, NEW d, d \notin Commands, Exit(d)
  PROVE  NoDaemonOpens /\ FlockKept
  BY DEF Processes, NoDaemonOpens, FlockKept, Users, Exit, Release, Closed

LEMMA StartKept ==
  ASSUME Processes, NEW d \in Daemons, NEW b, Start(d, b), UNCHANGED flock
  PROVE  NoDaemonOpens /\ FlockKept
  BY DEF Processes, NoDaemonOpens, FlockKept, Users, Start, Closed

LEMMA DetachKept ==
  ASSUME Processes, Detach
  PROVE  NoDaemonOpens /\ FlockKept
  BY DEF Processes, NoDaemonOpens, FlockKept, Users, Detach, Healthy, Health, Closed

LEMMA UnmountKept ==
  ASSUME Processes, Unmount
  PROVE  NoDaemonOpens /\ FlockKept
<1>1. CASE Detach
  BY <1>1, DetachKept
<1>2. CASE ExecStop
  BY <1>2, ProcessesAssumption DEF Processes, NoDaemonOpens, FlockKept, Users, ExecStop, Closed
<1> QED BY <1>1, <1>2 DEF Unmount, Stop

-----------------------------------------------------------------------------
(* The commands                                                             *)

LEMMA UnmountAutoKept ==
  ASSUME FlockInv, NEW c \in Commands, NEW kind, NEW pc, NEW next, next # "rewrite",
         UnmountAuto(c, kind, pc, next)
  PROVE  FlockInv'
<1>1. NoRewriteBegins
  BY EndKept, GotoKept DEF FlockInv, UnmountAuto
<1> QED BY <1>1, UnmountKept, NoneTaken DEF FlockInv, UnmountAuto

LEMMA UnmountCleanKept ==
  ASSUME FlockInv, NEW c \in Commands, NEW kind, NEW pc, NEW next, next # "rewrite",
         UnmountClean(c, kind, pc, next)
  PROVE  FlockInv'
<1>1. NoRewriteBegins
  BY EndKept, GotoKept DEF FlockInv, UnmountClean
<1>2. CASE Unmount
  BY <1>1, <1>2, UnmountKept, NoneTaken DEF FlockInv
<1>3. CASE UNCHANGED daemons
  BY <1>1, <1>3, CommandStep DEF daemons
<1> QED BY <1>2, <1>3 DEF UnmountClean

LEMMA WaitExitKept ==
  ASSUME FlockInv, NEW c \in Commands, NEW kind, NEW pc, NEW next, next # "rewrite",
         WaitExit(c, kind, pc, next)
  PROVE  FlockInv'
<1>1. NoRewriteBegins
  BY GiveUpKept, GotoKept DEF FlockInv, WaitExit
<1> QED BY <1>1, CommandStep DEF WaitExit, daemons

LEMMA CopyIntoKept ==
  ASSUME FlockInv, NEW c \in Commands, NEW kind, NEW pc, NEW n, NEW next, next # "rewrite",
         CopyInto(c, kind, pc, n, next)
  PROVE  FlockInv'
<1>1. NoRewriteBegins
  BY CmdUnchanged, GotoKept DEF FlockInv, CopyInto
<1> QED BY <1>1, CommandStep DEF CopyInto, daemons

LEMMA ApplyKept ==
  ASSUME FlockInv, NEW c \in Commands, Apply(c)
  PROVE  FlockInv'
<1>1. CASE BeginApply(c)
  <2>1. NoRewriteBegins
    BY <1>1, BeginKept DEF FlockInv, BeginApply
  <2> QED BY <1>1, <2>1, CommandStep DEF BeginApply, daemons
<1>2. CASE ApplyMove(c)
  <2>1. NoRewriteBegins
    BY <1>2, EndKept, GotoKept DEF FlockInv, ApplyMove
  <2> QED BY <1>2, <2>1, CommandStep DEF ApplyMove, daemons
<1>3. CASE CopyInto(c, "apply", "copy", cmd[c].backing, "fsync")
  BY <1>3, CopyIntoKept
<1>4. CASE ApplyCommit(c)
  <2>1. NoRewriteBegins
    BY <1>4, EndKept, GotoKept DEF FlockInv, ApplyCommit
  <2> QED BY <1>4, <2>1, CommandStep DEF ApplyCommit, daemons
<1>5. CASE Rollback(c)
  <2>1. NoRewriteBegins
    BY <1>5, EndKept, GotoKept DEF FlockInv, Rollback
  <2> QED BY <1>5, <2>1, CommandStep DEF Rollback, daemons
<1>6. CASE UnmountAuto(c, "apply", "unmount", "end")
  BY <1>6, UnmountAutoKept
<1> QED BY <1>1, <1>2, <1>3, <1>4, <1>5, <1>6 DEF Apply

LEMMA RestoreKept ==
  ASSUME FlockInv, NEW c \in Commands, Restore(c)
  PROVE  FlockInv'
<1>1. CASE BeginRestore(c)
  <2>1. NoRewriteBegins
    BY <1>1, BeginKept DEF FlockInv, BeginRestore
  <2> QED BY <1>1, <2>1, CommandStep DEF BeginRestore, daemons
<1>2. CASE UnmountAuto(c, "restore", "unmount", "rmdir")
  BY <1>2, UnmountAutoKept
<1>3. CASE ~BeginRestore(c) /\ ~UnmountAuto(c, "restore", "unmount", "rmdir")
  <2>1. UNCHANGED <<daemon, serves, flock>>
    BY <1>3 DEF Restore
  <2>2. \/ End(c)
        \/ \E pc \in {"rename", "sync", "meta", "durable"} : Goto(c, pc)
    BY <1>3 DEF Restore
  <2>3. NoRewriteBegins
    BY <2>2, EndKept, GotoKept DEF FlockInv
  <2> QED BY <2>1, <2>3, CommandStep
<1> QED BY <1>1, <1>2, <1>3

LEMMA RemountKept ==
  ASSUME FlockInv, NEW c \in Commands, Remount(c)
  PROVE  FlockInv'
<1>1. CASE BeginRemount(c)
  <2>1. NoRewriteBegins
    BY <1>1, BeginKept DEF FlockInv, BeginRemount
  <2> QED BY <1>1, <2>1, CommandStep DEF BeginRemount, daemons
<1>2. CASE UnmountAuto(c, "remount", "unmount", "meta")
  BY <1>2, UnmountAutoKept
<1>3. CASE /\ IF Committed
                THEN cmd' = [cmd EXCEPT ![c].pc = "spawn", ![c].backing = MountSpec(at["meta"])]
                ELSE End(c)
           /\ UNCHANGED daemons
  <2>1. NoRewriteBegins
    <3>1. CASE Committed
      BY <1>3, <3>1 DEF FlockInv, Processes, NoRewriteBegins, Fields
    <3>2. CASE ~Committed
      BY <1>3, <3>2, EndKept DEF FlockInv
    <3> QED BY <3>1, <3>2
  <2> QED BY <1>3, <2>1, CommandStep DEF daemons
<1> QED BY <1>1, <1>2, <1>3 DEF Remount

LEMMA PurgeKept ==
  ASSUME FlockInv, NEW c \in Commands, Purge(c)
  PROVE  FlockInv'
<1>1. NoRewriteBegins
  BY BeginKept, EndKept DEF FlockInv, Purge
<1> QED BY <1>1, CommandStep DEF Purge, daemons

LEMMA ReingestKept ==
  ASSUME FlockInv, NEW c \in Commands, Reingest(c)
  PROVE  FlockInv'
<1>1. CASE BeginReingest(c)
  <2>1. NoRewriteBegins
    BY <1>1, BeginKept DEF FlockInv, BeginReingest
  <2> QED BY <1>1, <2>1, CommandStep DEF BeginReingest, daemons
<1>2. CASE (Goto(c, "copy") \/ End(c)) /\ UNCHANGED daemons
  <2>1. NoRewriteBegins
    BY <1>2, EndKept, GotoKept DEF FlockInv
  <2> QED BY <1>2, <2>1, CommandStep DEF daemons
<1>3. CASE CopyInto(c, "reingest", "copy", "tmp", "unmount")
  BY <1>3, CopyIntoKept
<1>4. CASE UnmountClean(c, "reingest", "unmount", "wait")
  BY <1>4, UnmountCleanKept
<1>5. CASE WaitExit(c, "reingest", "wait", "aside")
  BY <1>5, WaitExitKept
<1>6. CASE Swap(c) /\ UNCHANGED daemons
  <2>1. NoRewriteBegins
    BY <1>6, EndKept, GotoKept, GiveUpKept DEF FlockInv, Swap
  <2> QED BY <1>6, <2>1, CommandStep DEF daemons
<1> QED BY <1>1, <1>2, <1>3, <1>4, <1>5, <1>6 DEF Reingest

LEMMA StartupKept ==
  ASSUME FlockInv, NEW c \in Commands, Spawn(c) \/ Await(c) \/ AfterMount(c)
  PROVE  FlockInv'
<1>1. CASE Spawn(c)
  <2>1. NoRewriteBegins
    <3>1. CASE Goto(c, "unmounted")
      BY <3>1, GotoKept DEF FlockInv
    <3>2. ASSUME NEW d \in Daemons, cmd' = [cmd EXCEPT ![c].pc = "await", ![c].child = d]
          PROVE  NoRewriteBegins
      BY <3>2, ProcessesAssumption DEF FlockInv, Processes, NoRewriteBegins, Fields
    <3> QED BY <1>1, <3>1, <3>2 DEF Spawn
  <2>2. CASE UNCHANGED <<daemon, serves>>
    BY <1>1, <2>1, <2>2, CommandStep DEF Spawn
  <2>3. ASSUME NEW d \in Daemons, Start(d, cmd[c].backing)
        PROVE  FlockInv'
    BY <1>1, <2>1, <2>3, StartKept, NoneTaken DEF Spawn, FlockInv
  <2> QED BY <1>1, <2>2, <2>3 DEF Spawn
<1>2. CASE Await(c)
  <2>1. NoRewriteBegins
    BY <1>2, GotoKept DEF FlockInv, Await
  <2>2. CASE UNCHANGED daemons
    BY <2>1, <2>2, CommandStep DEF daemons
  <2>3. CASE Exit(cmd[c].child)
    BY <2>1, <2>3, ExitKept, NoneTaken DEF FlockInv, Processes
  <2> QED BY <1>2, <2>2, <2>3 DEF Await
<1>3. CASE AfterMount(c)
  <2>1. NoRewriteBegins
    BY <1>3, GotoKept, EndKept DEF FlockInv, AfterMount
  <2> QED BY <1>3, <2>1, CommandStep DEF AfterMount
<1> QED BY <1>1, <1>2, <1>3

\* The one step that takes the flock for a rewrite, when nobody has it.
LEMMA LockKept ==
  ASSUME FlockInv, NEW c \in Commands, Lock(c)
  PROVE  FlockInv'
<1>1. CASE Free(cmd[c].backing)
  <2>1. /\ UNCHANGED <<daemon, serves>>
        /\ DOMAIN flock' = Daemons \cup Commands /\ flock'[c] = cmd[c].backing
        /\ \A p \in (Daemons \cup Commands) \ {c} : flock'[p] = flock[p] /\ flock[p] # flock'[c]
    BY <1>1 DEF FlockInv, Processes, Lock, Free
  <2>2. /\ DOMAIN cmd' = Commands /\ cmd'[c].backing = cmd[c].backing
        /\ DOMAIN cmd'[c] = Fields /\ cmd'[c].child = cmd[c].child
        /\ \A b \in Commands \ {c} : cmd'[b] = cmd[b]
    BY <1>1 DEF FlockInv, Processes, Lock, Goto, Fields
  <2>3. Users' \subseteq Users \cup {c}
    BY <2>1, <2>2 DEF Users
  <2>4. Processes'
    BY <2>1, <2>2 DEF FlockInv, Processes
  <2>5. OpenLocked'
    BY <2>1, ProcessesAssumption DEF FlockInv, OpenLocked
  <2>6. RewriteLocked'
    BY <2>1, <2>2 DEF FlockInv, RewriteLocked
  <2>7. Exclusive'
    BY <2>1, <2>3 DEF FlockInv, Exclusive, Users
  <2> QED BY <2>4, <2>5, <2>6, <2>7 DEF FlockInv
<1>2. CASE ~Free(cmd[c].backing)
  <2>1. NoRewriteBegins
    BY <1>2, GotoKept DEF FlockInv, Lock
  <2> QED BY <1>2, <2>1, CommandStep DEF Lock
<1> QED BY <1>1, <1>2

\* A command that stops rewriting, or is killed, gives the flock up.
LEMMA ReleaseKept ==
  ASSUME FlockInv, NEW c \in Commands, UNCHANGED <<daemon, serves>>, NoRewriteBegins,
         cmd'[c].pc # "rewrite", Release(c)
  PROVE  FlockInv'
<1>1. NoDaemonOpens /\ FlockKept
  BY ProcessesAssumption DEF FlockInv, Processes, NoDaemonOpens, FlockKept, Users, Release
<1> QED BY <1>1, NoneTaken

LEMMA MaintainKept ==
  ASSUME FlockInv, NEW c \in Commands, Maintain(c)
  PROVE  FlockInv'
<1>1. CASE /\ BeginCompact(c) \/ BeginSeal(c) \/ OfflineCompact(c) \/ OfflineSeal(c)
           /\ UNCHANGED daemons
  <2>1. NoRewriteBegins
    BY <1>1, BeginKept DEF FlockInv, BeginCompact, BeginSeal, OfflineCompact, OfflineSeal
  <2> QED BY <1>1, <2>1, CommandStep DEF daemons
<1>2. CASE UnmountClean(c, "maintain", "unmount", "wait")
  BY <1>2, UnmountCleanKept
<1>3. CASE WaitExit(c, "maintain", "wait", "lock")
  BY <1>3, WaitExitKept
<1>4. CASE Lock(c)
  BY <1>4, LockKept
<1>5. CASE Release(c) /\ Goto(c, "after") /\ UNCHANGED <<daemon, serves>>
  <2>1. NoRewriteBegins
    BY <1>5, GotoKept DEF FlockInv
  <2>2. cmd'[c].pc # "rewrite"
    BY <1>5 DEF FlockInv, Processes, Goto, Fields
  <2> QED BY <1>5, <2>1, <2>2, ReleaseKept
<1>6. CASE (Goto(c, "spawn") \/ End(c)) /\ UNCHANGED daemons
  <2>1. NoRewriteBegins
    BY <1>6, GotoKept, EndKept DEF FlockInv
  <2> QED BY <1>6, <2>1, CommandStep DEF daemons
<1> QED BY <1>1, <1>2, <1>3, <1>4, <1>5, <1>6 DEF Maintain

LEMMA KillKept ==
  ASSUME FlockInv, NEW c \in Commands, Kill(c)
  PROVE  FlockInv'
<1>1. NoRewriteBegins
  BY EndKept DEF FlockInv, Kill
<1>2. cmd'[c].pc # "rewrite"
  BY IdleFields DEF FlockInv, Processes, Kill, End
<1> QED BY <1>1, <1>2, ReleaseKept DEF Kill

LEMMA CommandKept ==
  ASSUME FlockInv, NEW c \in Commands,
         \/ Apply(c) \/ Restore(c) \/ Remount(c) \/ Purge(c) \/ Maintain(c) \/ Reingest(c)
         \/ Umount(c) \/ InstallAutostart(c)
         \/ Spawn(c) \/ Await(c) \/ AfterMount(c) \/ Kill(c)
  PROVE  FlockInv'
<1>1. CASE Umount(c)
  BY <1>1, DetachKept, CmdUnchanged, NoneTaken DEF Umount, FlockInv
<1>2. CASE InstallAutostart(c)
  BY <1>2, CmdUnchanged, CommandStep DEF InstallAutostart, FlockInv
<1> QED BY <1>1, <1>2, ApplyKept, RestoreKept, RemountKept, PurgeKept, MaintainKept,
           ReingestKept, StartupKept, KillKept

-----------------------------------------------------------------------------
(* Daemons, users and the power                                             *)

\* A daemon takes the flock before it opens the backing, when nobody has it.
LEMMA OpenKept ==
  ASSUME FlockInv, NEW d \in Daemons, Open(d)
  PROVE  FlockInv'
<1>1. CASE Exists(serves[d]) /\ Free(serves[d])
  <2>1. /\ UNCHANGED <<serves, cmd>>
        /\ DOMAIN flock' = Daemons \cup Commands /\ flock'[d] = serves[d]
        /\ \A p \in (Daemons \cup Commands) \ {d} : flock'[p] = flock[p] /\ flock[p] # flock'[d]
    BY <1>1 DEF FlockInv, Processes, Open, Free
  <2>2. DOMAIN daemon' = Daemons /\ \A e \in Daemons \ {d} : daemon'[e] = daemon[e]
    BY <1>1 DEF FlockInv, Processes, Open
  <2>3. Users' \subseteq Users \cup {d}
    BY <2>1, <2>2 DEF Users
  <2>4. Processes'
    BY <2>1, <2>2 DEF FlockInv, Processes
  <2>5. OpenLocked'
    BY <2>1, <2>2 DEF FlockInv, OpenLocked
  <2>6. RewriteLocked'
    BY <2>1, ProcessesAssumption DEF FlockInv, RewriteLocked
  <2>7. Exclusive'
    BY <2>1, <2>3 DEF FlockInv, Exclusive, Users
  <2> QED BY <2>4, <2>5, <2>6, <2>7 DEF FlockInv
<1>2. CASE ~(Exists(serves[d]) /\ Free(serves[d]))
  <2>1. NoRewriteBegins
    BY CmdUnchanged DEF FlockInv, Open
  <2>2. Exit(d)
    BY <1>2 DEF Open
  <2> QED BY <2>1, <2>2, ExitKept, NoneTaken, ProcessesAssumption DEF FlockInv
<1> QED BY <1>1, <1>2

LEMMA DaemonKept ==
  ASSUME FlockInv, NEW d \in Daemons, Open(d) \/ Serve(d) \/ Leave(d) \/ Die(d) \/ Restart(d)
  PROVE  FlockInv'
<1>1. d \notin Commands
  BY ProcessesAssumption
<1>2. CASE Open(d)
  BY <1>2, OpenKept
<1>3. CASE Serve(d)
  <2>1. NoRewriteBegins
    BY <1>3, CmdUnchanged DEF FlockInv, Serve
  <2>2. NoDaemonOpens /\ FlockKept
    <3>1. CASE Exit(d)
      BY <1>1, <3>1, ExitKept DEF FlockInv
    <3>2. CASE daemon' = [daemon EXCEPT ![d] = "serving"] /\ UNCHANGED <<serves, flock>>
      BY <1>3, <3>2 DEF Serve, FlockInv, Processes, NoDaemonOpens, FlockKept, Users, Closed
    <3> QED BY <1>3, <3>1, <3>2 DEF Serve
  <2> QED BY <2>1, <2>2, NoneTaken
<1>4. CASE Leave(d)
  BY <1>1, <1>4, CmdUnchanged, ExitKept, NoneTaken DEF Leave, FlockInv
<1>5. CASE Die(d)
  BY <1>1, <1>5, CmdUnchanged, ExitKept, NoneTaken DEF Die, FlockInv
<1>6. CASE Restart(d)
  BY <1>6, CmdUnchanged, StartKept, NoneTaken DEF Restart, FlockInv
<1> QED BY <1>2, <1>3, <1>4, <1>5, <1>6

LEMMA UserKept ==
  ASSUME FlockInv,
         \/ \E r \in Records : Write(r) \/ SessionWrite(r) \/ \E d \in Daemons : LateWrite(d, r)
         \/ OpenSession \/ CloseSession
  PROVE  FlockInv'
<1>1. UNCHANGED <<daemons, cmd>>
  BY DEF Write, SessionWrite, LateWrite, OpenSession, CloseSession
<1> QED BY <1>1, CmdUnchanged, CommandStep DEF FlockInv, daemons

LEMMA PowerLossKept == FlockInv /\ PowerLoss => FlockInv'
<1> SUFFICES ASSUME PowerLoss PROVE FlockInv'
  OBVIOUS
<1>1. Processes'
  BY IdleFields DEF PowerLoss, Processes
<1>2. Users' = {}
  BY IdleFields DEF PowerLoss, Users, Closed
<1> QED BY <1>1, <1>2 DEF FlockInv, OpenLocked, RewriteLocked, Exclusive, Users

-----------------------------------------------------------------------------

\* The processes that need a backing's flock have it, whatever happens:
\* lock_backing and acquire_backing_retry take it before the store is opened or
\* rewritten, and only the end of the process or of the rewrite releases it.
THEOREM NeededFlockIsHeld == Spec => []FlockInv
<1>1. FlockInv /\ [Next]_vars => FlockInv'
  <2> SUFFICES ASSUME FlockInv, [Next]_vars PROVE FlockInv'
    OBVIOUS
  <2>1. CASE UNCHANGED vars
    BY <2>1, CmdUnchanged, CommandStep DEF FlockInv, vars, daemons
  <2>2. CASE Next
    BY <2>2, UserKept, DaemonKept, CommandKept, PowerLossKept DEF Next
  <2> QED BY <2>1, <2>2
<1> QED BY FlockInit, <1>1, PTL DEF Spec

\* An offline rewrite never overlaps another one, or a daemon that has the backing
\* open, for any number of commands and daemons, any workload and any faults.
THEOREM RewritesAreAlone == Spec => []RewriteAlone
<1>1. FlockInv => RewriteAlone
  BY ProcessesAssumption DEF FlockInv, OpenLocked, RewriteLocked, Exclusive, Users, RewriteAlone
<1> QED BY <1>1, NeededFlockIsHeld, PTL

(***************************************************************************)
(* Types                                                                    *)
(***************************************************************************)

Dirs == TreeNames \ Projects

\* The names lead to trees, no two of them to the same, neither now nor after a
\* power loss, which takes the projects' directory and the backings' each as it is
\* or as it was.
NamesOK(a, s, t) ==
    /\ DOMAIN a = Names /\ DOMAIN s = Names
    /\ \A n \in TreeNames : a[n] \in Trees \cup {None} /\ s[n] \in Trees \cup {None}
    /\ a["meta"] \in Meta \cup {None} /\ s["meta"] \in Meta \cup {None}
    /\ t \in [Trees -> [data : SUBSET Records, safe : SUBSET Records]]
    /\ \A m, n \in TreeNames : m # n => /\ a[m] # None => a[m] # a[n]
                                        /\ s[m] # None => s[m] # s[n]
    /\ \A m \in Projects, n \in Dirs : /\ a[m] # None => a[m] # s[n]
                                       /\ s[m] # None => s[m] # a[n]

LEMMA NameFacts ==
    /\ Projects \subseteq TreeNames /\ Dirs \subseteq TreeNames /\ Projects \cap Dirs = {}
    /\ TreeNames = Projects \cup Dirs /\ Names = TreeNames \cup {"meta"} /\ "meta" \notin TreeNames
    /\ Back = Dirs \cup {"meta"} /\ Backends \subseteq Dirs /\ "tmp" \in Dirs /\ "bak" \in Dirs
    /\ "mp" \in Projects /\ "orig" \in Projects /\ "mp" \notin Back /\ "orig" \notin Back
    /\ "tmp" \notin Backends /\ "bak" \notin Backends /\ "shadow" \in Backends /\ "container" \in Backends
    /\ None \notin Trees /\ None \notin Names /\ None \notin Meta /\ None \notin Backends /\ None \notin TreeNames
  BY NoneAssumption DEF Projects, Dirs, TreeNames, Names, Back, Backends

LEMMA MetaFacts ==
    /\ \A m \in Meta : m.backend \in Backends /\ m.committed \in BOOLEAN
    /\ \A b \in Backends : MetaOf(b) \in Meta /\ MetaOf(b).backend = b /\ MetaOf(b).committed = TRUE /\ MetaOf(b) # None
    /\ \A m \in Meta : [m EXCEPT !.committed = FALSE] \in Meta /\ [m EXCEPT !.committed = FALSE].backend = m.backend
<1>1. \A b \in Backends : MetaOf(b) \in Meta /\ MetaOf(b).backend = b /\ MetaOf(b).committed = TRUE
  BY DEF Meta, MetaOf
<1>2. \A m \in Meta : [m EXCEPT !.committed = FALSE] \in Meta /\ [m EXCEPT !.committed = FALSE].backend = m.backend
  BY DEF Meta
<1>3. \A m \in Meta : m.backend \in Backends /\ m.committed \in BOOLEAN
  BY DEF Meta
<1> QED BY <1>1, <1>2, <1>3, NameFacts

\* Names that are left out.
LEMMA FewerNames ==
    ASSUME NEW a, NEW s, NEW t, NamesOK(a, s, t), NEW b,
           DOMAIN b = Names, b["meta"] \in Meta \cup {None}, \A n \in TreeNames : b[n] \in {a[n], None}
    PROVE  NamesOK(b, s, t)
  BY NameFacts DEF NamesOK

\* Names of one directory that change places.
LEMMA RenamedNames ==
    ASSUME NEW a, NEW s, NEW t, NamesOK(a, s, t), NEW x, NEW y, x # y,
           (x \in Projects /\ y \in Projects) \/ (x \in Dirs /\ y \in Dirs),
           NEW b, DOMAIN b = Names, b[x] = None, b[y] = a[x], \A n \in Names \ {x, y} : b[n] = a[n]
    PROVE  NamesOK(b, s, t)
<1>1. x \in Names /\ y \in Names /\ x \in TreeNames /\ y \in TreeNames /\ DOMAIN a = Names
  BY NameFacts DEF NamesOK
<1>2. DOMAIN b = Names /\ b[x] = None /\ b[y] = a[x] /\ \A n \in Names \ {x, y} : b[n] = a[n]
  OBVIOUS
<1>3. b["meta"] = a["meta"] /\ \A n \in TreeNames : n # x /\ n # y => b[n] = a[n]
  BY <1>1, <1>2, NameFacts
<1>4. NamesOK(b, s, t)
  <2>1. \A n \in TreeNames : b[n] \in Trees \cup {None}
    BY <1>1, <1>2, <1>3 DEF NamesOK
  <2>2. \A m, n \in TreeNames : m # n => (b[m] # None => b[m] # b[n])
    <3> SUFFICES ASSUME NEW m \in TreeNames, NEW n \in TreeNames, m # n, b[m] # None, b[m] = b[n] PROVE FALSE
      OBVIOUS
    <3>1. \A i, j \in TreeNames : i # j => (a[i] # None => a[i] # a[j])
      BY DEF NamesOK
    <3>2. m # x /\ n # x
      BY <1>2
    <3>3. CASE m = y
      BY <1>1, <1>2, <1>3, <3>1, <3>2, <3>3
    <3>4. CASE n = y
      BY <1>1, <1>2, <1>3, <3>1, <3>2, <3>4
    <3>5. CASE m # y /\ n # y
      BY <1>3, <3>1, <3>2, <3>5
    <3> QED BY <3>3, <3>4, <3>5
  <2>3. \A m \in Projects, n \in Dirs : (b[m] # None => b[m] # s[n]) /\ (s[m] # None => s[m] # b[n])
    BY <1>1, <1>2, <1>3, NameFacts DEF NamesOK
  <2> QED BY <1>2, <1>3, <2>1, <2>2, <2>3 DEF NamesOK
<1> QED BY <1>2, <1>4

\* A name that gets a tree no name has.
LEMMA AddedName ==
    ASSUME NEW a, NEW s, NEW t, NamesOK(a, s, t), NEW x \in TreeNames, NEW u \in Trees,
           \A n \in TreeNames : (n # x => a[n] # u) /\ (s[n] = u => x \in Dirs /\ n \in Dirs),
           NEW b, DOMAIN b = Names, b[x] = u, \A n \in Names \ {x} : b[n] = a[n],
           NEW v \in [Trees -> [data : SUBSET Records, safe : SUBSET Records]]
    PROVE  NamesOK(b, s, v)
<1>1. DOMAIN b = Names /\ b[x] = u /\ \A n \in Names \ {x} : b[n] = a[n]
  OBVIOUS
<1>3. b["meta"] = a["meta"] /\ \A n \in TreeNames : n # x => b[n] = a[n]
  BY <1>1, NameFacts
<1>4. \A m, n \in TreeNames : m # n => (b[m] # None => b[m] # b[n])
  BY <1>1, <1>3 DEF NamesOK
<1>5. \A m \in Projects, n \in Dirs : (b[m] # None => b[m] # s[n]) /\ (s[m] # None => s[m] # b[n])
  BY <1>1, <1>3, NameFacts DEF NamesOK
<1>6. NamesOK(b, s, v)
  BY <1>1, <1>3, <1>4, <1>5 DEF NamesOK
<1> QED BY <1>6

\* A directory is synced.
LEMMA SyncedNames ==
    ASSUME NEW a, NEW s, NEW t, NamesOK(a, s, t), NEW dir \in {Projects, Back},
           NEW z, z = [n \in Names |-> IF n \in dir THEN a[n] ELSE s[n]]
    PROVE  NamesOK(a, z, t)
<1>1. DOMAIN z = Names /\ \A n \in Names : z[n] = IF n \in dir THEN a[n] ELSE s[n]
  OBVIOUS
<1>2. \A n \in TreeNames : z[n] \in Trees \cup {None}
  BY <1>1, NameFacts DEF NamesOK
<1>3. z["meta"] \in Meta \cup {None}
  BY <1>1, NameFacts DEF NamesOK
<1>4. \/ \A n \in TreeNames : z[n] = IF n \in Projects THEN a[n] ELSE s[n]
      \/ \A n \in TreeNames : z[n] = IF n \in Projects THEN s[n] ELSE a[n]
  BY <1>1, NameFacts
<1>5. \A m, n \in TreeNames : m # n => (z[m] # None => z[m] # z[n])
  BY <1>4, NameFacts DEF NamesOK
<1>6. \A m \in Projects, n \in Dirs : (a[m] # None => a[m] # z[n]) /\ (z[m] # None => z[m] # a[n])
  BY <1>4, NameFacts DEF NamesOK
<1> QED BY <1>1, <1>2, <1>3, <1>5, <1>6 DEF NamesOK

\* Only what a tree holds changes.
LEMMA HeldNames ==
    ASSUME NEW a, NEW s, NEW t, NamesOK(a, s, t), NEW v \in [Trees -> [data : SUBSET Records, safe : SUBSET Records]]
    PROVE  NamesOK(a, s, v)
  BY DEF NamesOK

\* A power loss: each directory as it is or as it was synced.
LEMMA LostNames ==
    ASSUME NEW a, NEW s, NEW t, NamesOK(a, s, t), NEW dirs \in SUBSET {Projects, Back},
           NEW v \in [Trees -> [data : SUBSET Records, safe : SUBSET Records]],
           NEW b, b = [n \in Names |-> IF n \in UNION dirs THEN a[n] ELSE s[n]]
    PROVE  NamesOK(b, b, v)
<1>1. DOMAIN b = Names /\ \A n \in Names : b[n] = IF n \in UNION dirs THEN a[n] ELSE s[n]
  OBVIOUS
<1>2. \/ UNION dirs = {} \/ UNION dirs = Projects \/ UNION dirs = Back \/ UNION dirs = Names
  <2>1. dirs = {} \/ dirs = {Projects} \/ dirs = {Back} \/ dirs = {Projects, Back}
    OBVIOUS
  <2>2. Projects \cup Back = Names
    BY NameFacts
  <2> QED BY <2>1, <2>2
<1>3. \/ \A n \in Names : b[n] = s[n]
      \/ \A n \in Names : b[n] = IF n \in Projects THEN a[n] ELSE s[n]
      \/ \A n \in Names : b[n] = IF n \in Projects THEN s[n] ELSE a[n]
      \/ \A n \in Names : b[n] = a[n]
  BY <1>1, <1>2, NameFacts
<1>4. \A n \in TreeNames : b[n] \in Trees \cup {None}
  BY <1>3, NameFacts DEF NamesOK
<1>5. b["meta"] \in Meta \cup {None}
  BY <1>3, NameFacts DEF NamesOK
<1>6. \A m, n \in TreeNames : m # n => (b[m] # None => b[m] # b[n])
  <2>1. CASE \A n \in Names : b[n] = s[n]
    BY <2>1, NameFacts DEF NamesOK
  <2>2. CASE \A n \in Names : b[n] = a[n]
    BY <2>2, NameFacts DEF NamesOK
  <2>3. CASE \A n \in Names : b[n] = IF n \in Projects THEN a[n] ELSE s[n]
    BY <2>3, NameFacts DEF NamesOK
  <2>4. CASE \A n \in Names : b[n] = IF n \in Projects THEN s[n] ELSE a[n]
    BY <2>4, NameFacts DEF NamesOK
  <2> QED BY <1>3, <2>1, <2>2, <2>3, <2>4
<1>7. NamesOK(b, b, v)
  BY <1>1, <1>4, <1>5, <1>6, NameFacts DEF NamesOK
<1> QED BY <1>7

CommandOK(k) ==
    /\ DOMAIN k = Fields
    /\ k.backing \in Backends \cup {None} /\ k.child \in Daemons \cup {None}
    /\ k.kind \in {"apply", "maintain", "offline", "reingest"} \/ k.pc = "spawn" => k.backing \in Backends
    /\ k.pc = "await" => k.child \in Daemons

CommandsOK == DOMAIN cmd = Commands /\ \A c \in Commands : CommandOK(cmd[c])

DaemonsOK ==
    /\ mount \in Daemons \cup {None} /\ pid \in Daemons \cup {None}
    /\ flock \in [Daemons \cup Commands -> Backends \cup {None}]
    /\ daemon \in [Daemons -> {"off", "starting", "open", "serving", "leaving"}]
    /\ serves \in [Daemons -> Backends \cup {None}]
    /\ \A d \in Daemons : daemon[d] = "off" <=> serves[d] = None
    /\ unit \in [active : BOOLEAN, enabled : BOOLEAN]

TypeInv ==
    /\ load \in Workloads
    /\ NamesOK(at, safeAt, tree)
    /\ DaemonsOK
    /\ CommandsOK
    /\ session \in Trees \cup {None}

LEMMA TypeInvImplies == TypeInv => TypeOK
  BY DEF TypeInv, NamesOK, DaemonsOK, TypeOK, Exists

LEMMA IdleOK == CommandOK(Idle)
  BY NameFacts DEF CommandOK, Idle, Fields

LEMMA GotoOK ==
    ASSUME CommandsOK, NEW c \in Commands, NEW pc, Goto(c, pc), pc # "await",
           pc = "spawn" => cmd[c].backing \in Backends
    PROVE  CommandsOK'
  BY DEF CommandsOK, CommandOK, Goto, Fields

LEMMA EndOK ==
    ASSUME CommandsOK, NEW c \in Commands, End(c) PROVE CommandsOK'
  BY IdleOK DEF CommandsOK, End

LEMMA BeginOK ==
    ASSUME CommandsOK, NEW c \in Commands, NEW kind, NEW pc, NEW b, Begin(c, kind, pc, b), pc \notin {"await", "spawn"},
           b \in Backends \/ (b = None /\ kind \notin {"apply", "maintain", "offline", "reingest"})
    PROVE  CommandsOK'
<1> DEFINE k == [Idle EXCEPT !.kind = kind, !.pc = pc, !.mounted = mount # None, !.backing = b]
<1>1. cmd' = [cmd EXCEPT ![c] = k]
  BY DEF Begin
<1>2. CommandOK(k)
  BY DEF CommandOK, Idle, Fields
<1> HIDE DEF k
<1> QED BY <1>1, <1>2 DEF CommandsOK

LEMMA GiveUpOK ==
    ASSUME CommandsOK, NEW c \in Commands, GiveUp(c), cmd[c].backing \in Backends PROVE CommandsOK'
  BY DEF CommandsOK, CommandOK, GiveUp, Fields

LEMMA SameCommands ==
    ASSUME CommandsOK, UNCHANGED cmd PROVE CommandsOK'
  BY DEF CommandsOK

LEMMA SameDaemons ==
    ASSUME DaemonsOK, UNCHANGED daemons PROVE DaemonsOK'
  BY DEF DaemonsOK, daemons

\* Where only the pid file, the unit or the mount changes.
LEMMA AroundDaemons ==
    ASSUME DaemonsOK, UNCHANGED <<daemon, serves, flock>>,
           mount' \in Daemons \cup {None}, pid' \in Daemons \cup {None}, unit' \in [active : BOOLEAN, enabled : BOOLEAN]
    PROVE  DaemonsOK'
  BY DEF DaemonsOK

LEMMA UnitOK ==
    ASSUME TypeInv, EnableAutostart \/ DisableAutostart PROVE unit' \in [active : BOOLEAN, enabled : BOOLEAN]
  BY WorkloadsAssumption DEF TypeInv, DaemonsOK, EnableAutostart, DisableAutostart

LEMMA ExitOK ==
    ASSUME DaemonsOK, NEW d \in Daemons, Exit(d),
           mount' \in Daemons \cup {None}, pid' \in Daemons \cup {None}, unit' \in [active : BOOLEAN, enabled : BOOLEAN]
    PROVE  DaemonsOK'
  BY NameFacts DEF DaemonsOK, Exit, Release

LEMMA StartOK ==
    ASSUME DaemonsOK, NEW d \in Daemons, NEW b \in Backends, Start(d, b), UNCHANGED flock,
           mount' \in Daemons \cup {None}, pid' \in Daemons \cup {None}, unit' \in [active : BOOLEAN, enabled : BOOLEAN]
    PROVE  DaemonsOK'
  BY NameFacts DEF DaemonsOK, Start

LEMMA DetachOK == ASSUME DaemonsOK, Detach PROVE DaemonsOK'
  BY DEF DaemonsOK, Detach, Healthy, Health

LEMMA StopOK == ASSUME DaemonsOK, Stop PROVE DaemonsOK'
  BY NameFacts DEF DaemonsOK, Stop, ExecStop

LEMMA UnmountOK == ASSUME DaemonsOK, Unmount PROVE DaemonsOK'
  BY DetachOK, StopOK DEF Unmount

LEMMA InitType == Init => TypeInv
<1> SUFFICES ASSUME Init PROVE TypeInv
  OBVIOUS
<1>1. PICK u \in Trees : at = [n \in Names |-> IF n = "mp" THEN u ELSE None]
  BY DEF Init
<1>2. DOMAIN at = Names /\ at["mp"] = u /\ \A n \in Names : n # "mp" => at[n] = None
  BY <1>1, NameFacts
<1>3. NamesOK(at, safeAt, tree)
  BY <1>2, NameFacts DEF Init, NamesOK, NoTree
<1>4. DaemonsOK
  BY DEF Init, DaemonsOK
<1>5. CommandsOK
  BY IdleOK DEF Init, CommandsOK
<1> QED BY <1>3, <1>4, <1>5 DEF Init, TypeInv

\* The steps on names and trees.
LEMMA SameNames ==
    ASSUME TypeInv, UNCHANGED names PROVE NamesOK(at, safeAt, tree)'
  BY DEF TypeInv, names

LEMMA PutOK ==
    ASSUME TypeInv, NEW n, NEW r \in Records, Put(n, r)
    PROVE  tree' \in [Trees -> [data : SUBSET Records, safe : SUBSET Records]]
  BY DEF TypeInv, NamesOK, Put

LEMMA SyncOK ==
    ASSUME TypeInv, NEW dir \in {Projects, Back}, Sync(dir), UNCHANGED at,
           tree' \in [Trees -> [data : SUBSET Records, safe : SUBSET Records]]
    PROVE  NamesOK(at, safeAt, tree)'
<1>1. NamesOK(at, safeAt, tree')
  BY HeldNames DEF TypeInv
<1>2. NamesOK(at, safeAt', tree')
  BY <1>1, SyncedNames DEF Sync
<1> QED BY <1>2

LEMMA TreeOK ==
    ASSUME TypeInv, UNCHANGED <<at, safeAt>>,
           tree' \in [Trees -> [data : SUBSET Records, safe : SUBSET Records]]
    PROVE  NamesOK(at, safeAt, tree)'
<1>1. NamesOK(at, safeAt, tree')
  BY HeldNames DEF TypeInv
<1> QED BY <1>1

\* What an assignment to a name does.
LEMMA NameSet ==
    ASSUME TypeInv, NEW x \in Names, NEW u, at' = [at EXCEPT ![x] = u]
    PROVE  DOMAIN at' = Names /\ at'[x] = u /\ \A n \in Names \ {x} : at'[n] = at[n]
  BY DEF TypeInv, NamesOK

LEMMA RenameOK ==
    ASSUME TypeInv, NEW x, NEW y, x # y,
           (x \in Projects /\ y \in Projects) \/ (x \in Dirs /\ y \in Dirs),
           at' = Renamed(x, y), UNCHANGED <<safeAt, tree>>
    PROVE  /\ NamesOK(at, safeAt, tree)' /\ at'[x] = None /\ at'[y] = at[x]
           /\ \A n \in Names \ {x, y} : at'[n] = at[n]
<1>1. x \in Names /\ y \in Names
  BY NameFacts
<1>2. /\ DOMAIN at' = Names /\ at'[x] = None /\ at'[y] = at[x]
      /\ \A n \in Names \ {x, y} : at'[n] = at[n]
  BY <1>1 DEF Renamed, TypeInv, NamesOK
<1>3. NamesOK(at', safeAt, tree)
  BY <1>2, RenamedNames DEF TypeInv
<1> QED BY <1>2, <1>3

LEMMA DropOK ==
    ASSUME TypeInv, UNCHANGED <<safeAt, tree>>, DOMAIN at' = Names,
           at'["meta"] \in Meta \cup {None}, \A n \in TreeNames : at'[n] \in {at[n], None}
    PROVE  NamesOK(at, safeAt, tree)'
<1>1. NamesOK(at', safeAt, tree)
  BY FewerNames DEF TypeInv
<1> QED BY <1>1

LEMMA MakeDirOK ==
    ASSUME TypeInv, NEW n \in TreeNames, MakeDir(n), UNCHANGED safeAt
    PROVE  /\ NamesOK(at, safeAt, tree)' /\ at'[n] \in Trees /\ tree'[at'[n]] = NoTree
           /\ \A m \in Names \ {n} : at'[m] = at[m]
           /\ \A m \in TreeNames : at[m] # at'[n] /\ safeAt[m] # at'[n]
           /\ \A w \in Trees \ {at'[n]} : tree'[w] = tree[w]
<1>1. PICK u \in Unused : at' = [at EXCEPT ![n] = u] /\ tree' = [tree EXCEPT ![u] = NoTree]
  BY DEF MakeDir
<1>2. u \in Trees /\ \A m \in TreeNames : at[m] # u /\ safeAt[m] # u
  BY <1>1 DEF Unused
<1>3. DOMAIN at' = Names /\ at'[n] = u /\ \A m \in Names \ {n} : at'[m] = at[m]
  BY <1>1, NameSet, NameFacts
<1>4. /\ tree' \in [Trees -> [data : SUBSET Records, safe : SUBSET Records]]
      /\ tree'[u] = NoTree /\ \A w \in Trees \ {u} : tree'[w] = tree[w]
  BY <1>1, <1>2 DEF TypeInv, NamesOK, NoTree
<1>5. NamesOK(at', safeAt, tree')
  BY <1>2, <1>3, <1>4, AddedName DEF TypeInv
<1> QED BY <1>2, <1>3, <1>4, <1>5

LEMMA MetaOK ==
    ASSUME TypeInv, NEW m \in Meta \cup {None}, at' = [at EXCEPT !["meta"] = m], UNCHANGED <<safeAt, tree>>
    PROVE  NamesOK(at, safeAt, tree)' /\ at'["meta"] = m /\ \A n \in TreeNames : at'[n] = at[n]
<1>1. DOMAIN at' = Names /\ at'["meta"] = m /\ \A n \in Names \ {"meta"} : at'[n] = at[n]
  BY NameSet, NameFacts
<1>2. \A n \in TreeNames : at'[n] = at[n]
  BY <1>1, NameFacts
<1>3. NamesOK(at', safeAt, tree)
  BY <1>1, <1>2, FewerNames DEF TypeInv
<1> QED BY <1>1, <1>2, <1>3

\* Steps that only move a command, or a daemon.
LEMMA CommandType ==
    ASSUME TypeInv, UNCHANGED <<load, names, session>>, CommandsOK', DaemonsOK' PROVE TypeInv'
  BY SameNames DEF TypeInv

LEMMA NamesType ==
    ASSUME TypeInv, UNCHANGED <<load, daemons, session>>, CommandsOK', NamesOK(at, safeAt, tree)' PROVE TypeInv'
  BY SameDaemons DEF TypeInv

LEMMA CommittedMeta ==
    ASSUME TypeInv, Committed PROVE at["meta"] \in Meta /\ at["meta"].backend \in Backends /\ MountSpec(at["meta"]) \in Backends
  BY MetaFacts DEF Committed, MountSpec

LEMMA UserType ==
    ASSUME TypeInv,
           \/ \E r \in Records : Write(r) \/ SessionWrite(r) \/ \E d \in Daemons : LateWrite(d, r)
           \/ OpenSession \/ CloseSession
    PROVE  TypeInv'
<1>1. CommandsOK' /\ DaemonsOK' /\ UNCHANGED <<load, daemons, cmd>>
  <2>1. UNCHANGED <<load, daemons, cmd>>
    BY DEF Write, SessionWrite, LateWrite, OpenSession, CloseSession
  <2> QED BY <2>1, SameCommands, SameDaemons DEF TypeInv
<1>2. ASSUME NEW r \in Records, Write(r) \/ SessionWrite(r) \/ \E d \in Daemons : LateWrite(d, r) PROVE TypeInv'
  <2>1. UNCHANGED at /\ session' = session /\ \E n : Put(n, r)
    BY <1>2 DEF Write, SessionWrite, LateWrite
  <2>2. UNCHANGED safeAt \/ Sync(Projects)
    BY <1>2 DEF Write, SessionWrite, LateWrite
  <2>3. NamesOK(at, safeAt, tree)'
    BY <2>1, <2>2, PutOK, SyncOK, TreeOK
  <2> QED BY <1>1, <2>1, <2>3 DEF TypeInv
<1>3. CASE OpenSession \/ CloseSession
  <2>1. UNCHANGED names /\ session' \in Trees \cup {None}
    BY <1>3, NameFacts DEF OpenSession, CloseSession, TypeInv, NamesOK
  <2> QED BY <1>1, <2>1, SameNames DEF TypeInv
<1> QED BY <1>2, <1>3

LEMMA DaemonType ==
    ASSUME TypeInv, NEW d \in Daemons, Open(d) \/ Serve(d) \/ Leave(d) \/ Die(d) \/ Restart(d)
    PROVE  TypeInv'
<1>1. CommandsOK' /\ UNCHANGED <<load, names, session>>
  <2>1. UNCHANGED <<load, names, session, cmd>>
    BY DEF Open, Serve, Leave, Die, Restart, ghosts
  <2> QED BY <2>1, SameCommands DEF TypeInv
<1>2. CASE Open(d)
  <2>1. ASSUME Exit(d) PROVE DaemonsOK'
    BY <1>2, <2>1, ExitOK DEF Open, TypeInv, DaemonsOK
  <2>2. ASSUME /\ daemon' = [daemon EXCEPT ![d] = "open"]
               /\ flock' = [flock EXCEPT ![d] = serves[d]]
               /\ UNCHANGED serves
        PROVE  DaemonsOK'
    <3>1. daemon[d] # "off" /\ serves[d] \in Backends \cup {None}
      BY <1>2 DEF Open, TypeInv, DaemonsOK
    <3> QED BY <1>2, <2>2, <3>1 DEF Open, TypeInv, DaemonsOK
  <2> QED BY <1>1, <1>2, <2>1, <2>2, CommandType DEF Open
<1>3. CASE Serve(d)
  <2>1. ASSUME Exit(d), pid' = None, UNCHANGED mount PROVE DaemonsOK'
    BY <1>3, <2>1, ExitOK DEF Serve, TypeInv, DaemonsOK
  <2>2. ASSUME mount' = d, daemon' = [daemon EXCEPT ![d] = "serving"], UNCHANGED <<serves, flock, pid>>
        PROVE  DaemonsOK'
    BY <1>3, <2>2 DEF Serve, TypeInv, DaemonsOK
  <2> QED BY <1>1, <1>3, <2>1, <2>2, CommandType DEF Serve
<1>4. CASE Leave(d)
  <2>1. DaemonsOK'
    BY <1>4, ExitOK DEF Leave, TypeInv, DaemonsOK
  <2> QED BY <1>1, <2>1, CommandType
<1>5. CASE Die(d)
  <2>1. DaemonsOK'
    BY <1>5, ExitOK DEF Die, TypeInv, DaemonsOK
  <2> QED BY <1>1, <2>1, CommandType
<1>6. CASE Restart(d)
  <2>1. Resolved \in Backends
    BY <1>6, CommittedMeta DEF Restart, Resolved
  <2>2. DaemonsOK'
    BY <1>6, <2>1, StartOK DEF Restart, TypeInv, DaemonsOK
  <2> QED BY <1>1, <2>2, CommandType
<1> QED BY <1>2, <1>3, <1>4, <1>5, <1>6

LEMMA UnmountAutoType ==
    ASSUME TypeInv, NEW c \in Commands, NEW kind, NEW pc, NEW next, next \notin {"await", "spawn"},
           UnmountAuto(c, kind, pc, next)
    PROVE  TypeInv'
<1>1. CommandsOK' /\ DaemonsOK'
  BY EndOK, GotoOK, UnmountOK DEF UnmountAuto, TypeInv
<1> QED BY <1>1, CommandType DEF UnmountAuto, ghosts

LEMMA UnmountCleanType ==
    ASSUME TypeInv, NEW c \in Commands, NEW kind, NEW pc, NEW next, next \notin {"await", "spawn"},
           UnmountClean(c, kind, pc, next)
    PROVE  TypeInv'
<1>1. CommandsOK' /\ DaemonsOK'
  BY EndOK, GotoOK, UnmountOK, SameDaemons DEF UnmountClean, TypeInv
<1> QED BY <1>1, CommandType DEF UnmountClean, ghosts

LEMMA WaitExitType ==
    ASSUME TypeInv, NEW c \in Commands, NEW kind \in {"maintain", "reingest"}, NEW pc, NEW next,
           next \notin {"await", "spawn"}, WaitExit(c, kind, pc, next)
    PROVE  TypeInv'
<1>1. cmd[c].backing \in Backends
  BY DEF WaitExit, At, TypeInv, CommandsOK, CommandOK
<1>2. CommandsOK'
  BY <1>1, GotoOK, GiveUpOK DEF WaitExit, TypeInv
<1>3. NamesOK(at, safeAt, tree)'
  <2>1. CASE UNCHANGED at
    BY <2>1, SameNames DEF WaitExit, names
  <2>2. CASE at' = [at EXCEPT !["tmp"] = IF kind = "reingest" THEN None ELSE at["tmp"]]
    <3>1. DOMAIN at' = Names /\ at'["tmp"] \in {at["tmp"], None} /\ \A n \in Names \ {"tmp"} : at'[n] = at[n]
      BY <2>2, NameSet, NameFacts
    <3>2. at'["meta"] \in Meta \cup {None} /\ \A n \in TreeNames : at'[n] \in {at[n], None}
      BY <3>1, NameFacts DEF TypeInv, NamesOK
    <3> QED BY <3>1, <3>2, DropOK DEF WaitExit
  <2> QED BY <2>1, <2>2 DEF WaitExit
<1> QED BY <1>2, <1>3, NamesType DEF WaitExit, ghosts

TreeType == [Trees -> [data : SUBSET Records, safe : SUBSET Records]]

LEMMA IngestOK ==
    ASSUME NEW t \in TreeType, NEW u, NEW r \in Records
    PROVE  /\ [t EXCEPT ![u].data = @ \cup {r}] \in TreeType
           /\ [t EXCEPT ![u] = [data |-> @.data \cup {r}, safe |-> @.safe \cup {r}]] \in TreeType
<1>1. CASE u \in Trees
  <2>1. t[u].data \cup {r} \in SUBSET Records /\ t[u].safe \cup {r} \in SUBSET Records
    BY <1>1 DEF TreeType
  <2>2. [t EXCEPT ![u].data = @ \cup {r}] \in TreeType
    BY <1>1, <2>1 DEF TreeType
  <2>3. [t EXCEPT ![u] = [data |-> @.data \cup {r}, safe |-> @.safe \cup {r}]] \in TreeType
    BY <1>1, <2>1 DEF TreeType
  <2> QED BY <2>2, <2>3
<1>2. CASE u \notin Trees
  BY <1>2 DEF TreeType
<1> QED BY <1>1, <1>2

LEMMA CopyIntoType ==
    ASSUME TypeInv, NEW c \in Commands, NEW kind, NEW pc, NEW n, NEW next, next \notin {"await", "spawn"},
           CopyInto(c, kind, pc, n, next)
    PROVE  TypeInv'
<1>1. CommandsOK'
  BY SameCommands, GotoOK DEF CopyInto, TypeInv
<1>2. tree' \in [Trees -> [data : SUBSET Records, safe : SUBSET Records]]
  <2>1. CASE UNCHANGED tree
    BY <2>1 DEF TypeInv, NamesOK
  <2>2. ASSUME NEW r \in Data("orig"), IngestFile(at[n], r) \/ IngestFileIntoStore(at[n], r)
        PROVE  tree' \in [Trees -> [data : SUBSET Records, safe : SUBSET Records]]
    <3>1. r \in Records
      <4>1. at["orig"] \in Trees /\ r \in tree[at["orig"]].data
        BY <2>2, NameFacts DEF Data, Exists, TypeInv, NamesOK
      <4> QED BY <4>1 DEF TypeInv, NamesOK
    <3>2. tree \in TreeType
      BY DEF TypeInv, NamesOK, TreeType
    <3> QED BY <2>2, <3>1, <3>2, IngestOK DEF IngestFile, IngestFileIntoStore, TreeType
  <2>3. UNCHANGED tree \/ \E r \in Data("orig") : IngestFile(at[n], r) \/ IngestFileIntoStore(at[n], r)
    BY DEF CopyInto
  <2> QED BY <2>1, <2>2, <2>3
<1> QED BY <1>1, <1>2, TreeOK, NamesType DEF CopyInto, ghosts

LEMMA ApplyType ==
    ASSUME TypeInv, NEW c \in Commands, Apply(c) PROVE TypeInv'
<1>0. cmd[c].kind = "apply" => cmd[c].backing \in Backends /\ cmd[c].backing \in TreeNames
  BY NameFacts DEF TypeInv, CommandsOK, CommandOK
<1>1. CASE BeginApply(c)
  <2>1. PICK b \in load.backends : Begin(c, "apply", "move", b)
    BY <1>1 DEF BeginApply
  <2>2. b \in Backends
    BY <2>1, WorkloadsAssumption DEF TypeInv
  <2>3. CommandsOK'
    BY <2>1, <2>2, BeginOK DEF TypeInv
  <2> QED BY <1>1, <2>3, SameNames, NamesType DEF BeginApply, ghosts
<1>2. CASE ApplyMove(c)
  <2>1. CommandsOK' /\ UNCHANGED <<load, daemons, session>>
    BY <1>2, EndOK, GotoOK DEF ApplyMove, TypeInv, ghosts
  <2>2. NamesOK(at, safeAt, tree)'
    <3>1. CASE UNCHANGED names
      BY <3>1, SameNames
    <3>2. CASE Rename("mp", "orig") /\ UNCHANGED <<tree, safeAt>>
      BY <3>2, RenameOK, NameFacts DEF Rename
    <3>3. CASE Sync(Projects) /\ UNCHANGED <<at, tree>>
      BY <3>3, SyncOK DEF TypeInv, NamesOK
    <3>4. CASE (MakeDir("mp") \/ (cmd[c].kind = "apply" /\ MakeDir(cmd[c].backing))) /\ UNCHANGED safeAt
      BY <1>0, <3>4, MakeDirOK, NameFacts
    <3> QED BY <1>2, <3>1, <3>2, <3>3, <3>4 DEF ApplyMove, At, names
  <2> QED BY <2>1, <2>2, NamesType
<1>3. CASE CopyInto(c, "apply", "copy", cmd[c].backing, "fsync")
  BY <1>3, CopyIntoType
<1>4. CASE ApplyCommit(c)
  <2>0. cmd[c].kind = "apply"
    BY <1>4 DEF ApplyCommit, At
  <2>1. CommandsOK' /\ UNCHANGED <<load, daemons, session>>
    BY <1>0, <1>4, <2>0, EndOK, GotoOK DEF ApplyCommit, TypeInv
  <2>2. NamesOK(at, safeAt, tree)'
    <3>1. CASE UNCHANGED names
      BY <3>1, SameNames
    <3>2. CASE tree' = FsyncTree(at["shadow"]) /\ UNCHANGED <<at, safeAt>>
      <4>1. tree' \in [Trees -> [data : SUBSET Records, safe : SUBSET Records]]
        BY <3>2 DEF FsyncTree, TypeInv, NamesOK
      <4> QED BY <3>2, <4>1, TreeOK
    <3>3. CASE Sync(Back) /\ UNCHANGED <<at, tree>>
      BY <3>3, SyncOK DEF TypeInv, NamesOK
    <3>4. CASE WriteMeta(MetaOf(cmd[c].backing)) /\ UNCHANGED <<safeAt, tree>>
      BY <1>0, <2>0, <3>4, MetaOK, MetaFacts DEF WriteMeta
    <3> QED BY <1>4, <3>1, <3>2, <3>3, <3>4 DEF ApplyCommit, names
  <2> QED BY <2>1, <2>2, NamesType
<1>5. CASE Rollback(c)
  <2>1. CommandsOK' /\ UNCHANGED <<load, tree, daemons, session>>
    BY <1>5, EndOK, GotoOK DEF Rollback, TypeInv, ghosts
  <2>2. NamesOK(at, safeAt, tree)'
    <3>1. CASE UNCHANGED <<at, safeAt>>
      BY <2>1, <3>1, SameNames DEF names
    <3>2. CASE at' = [at EXCEPT !["mp"] = None] /\ UNCHANGED safeAt
      <4>1. DOMAIN at' = Names /\ at'["mp"] = None /\ \A n \in Names \ {"mp"} : at'[n] = at[n]
        BY <3>2, NameSet, NameFacts
      <4>2. at'["meta"] \in Meta \cup {None} /\ \A n \in TreeNames : at'[n] \in {at[n], None}
        BY <4>1, NameFacts DEF TypeInv, NamesOK
      <4> QED BY <2>1, <3>2, <4>1, <4>2, DropOK
    <3>3. CASE at' = Renamed("orig", "mp") /\ UNCHANGED safeAt
      BY <2>1, <3>3, RenameOK, NameFacts
    <3>4. CASE Sync(Projects) /\ UNCHANGED at
      BY <2>1, <3>4, SyncOK DEF TypeInv, NamesOK
    <3>5. CASE At(c, "apply", "drop") /\ at' = [at EXCEPT ![cmd[c].backing] = None, !["meta"] = None] /\ UNCHANGED safeAt
      <4>1. DOMAIN at' = Names /\ \A n \in Names : at'[n] \in {at[n], None}
        BY <3>5 DEF TypeInv, NamesOK
      <4>2. at'["meta"] \in Meta \cup {None} /\ \A n \in TreeNames : at'[n] \in {at[n], None}
        BY <4>1, NameFacts DEF TypeInv, NamesOK
      <4> QED BY <2>1, <3>5, <4>1, <4>2, DropOK
    <3> QED BY <1>5, <3>1, <3>2, <3>3, <3>4, <3>5 DEF Rollback
  <2> QED BY <2>1, <2>2, NamesType
<1>6. CASE UnmountAuto(c, "apply", "unmount", "end")
  BY <1>6, UnmountAutoType
<1> QED BY <1>1, <1>2, <1>3, <1>4, <1>5, <1>6 DEF Apply

LEMMA RestoreType ==
    ASSUME TypeInv, NEW c \in Commands, Restore(c) PROVE TypeInv'
<1>1. CASE BeginRestore(c)
  <2>1. CommandsOK'
    BY <1>1, BeginOK DEF BeginRestore, TypeInv
  <2> QED BY <1>1, <2>1, SameNames, NamesType DEF BeginRestore, ghosts
<1>2. CASE UnmountAuto(c, "restore", "unmount", "rmdir")
  BY <1>2, UnmountAutoType
<1>3. CASE ~BeginRestore(c) /\ ~UnmountAuto(c, "restore", "unmount", "rmdir")
  <2>1. /\ UNCHANGED <<load, tree, mount, daemon, serves, flock, session>>
        /\ pid' \in {pid, None} /\ (UNCHANGED unit \/ DisableAutostart)
    BY <1>3 DEF Restore, ghosts
  <2>2. End(c) \/ \E pc \in {"rename", "sync", "meta", "durable"} : Goto(c, pc)
    BY <1>3 DEF Restore
  <2>3. CommandsOK'
    BY <2>2, EndOK, GotoOK DEF TypeInv
  <2>4. DaemonsOK'
    <3>1. unit' \in [active : BOOLEAN, enabled : BOOLEAN]
      BY <2>1, UnitOK DEF TypeInv, DaemonsOK
    <3> QED BY <2>1, <3>1, AroundDaemons DEF TypeInv, DaemonsOK
  <2>5. NamesOK(at, safeAt, tree)'
    <3>1. CASE UNCHANGED <<at, safeAt>>
      BY <2>1, <3>1, SameNames DEF names
    <3>2. CASE at' = [at EXCEPT !["mp"] = None] /\ UNCHANGED safeAt
      <4>1. DOMAIN at' = Names /\ at'["mp"] = None /\ \A n \in Names \ {"mp"} : at'[n] = at[n]
        BY <3>2, NameSet, NameFacts
      <4>2. at'["meta"] \in Meta \cup {None} /\ \A n \in TreeNames : at'[n] \in {at[n], None}
        BY <4>1, NameFacts DEF TypeInv, NamesOK
      <4> QED BY <2>1, <3>2, <4>1, <4>2, DropOK
    <3>3. CASE Rename("orig", "mp") /\ UNCHANGED safeAt
      BY <2>1, <3>3, RenameOK, NameFacts DEF Rename
    <3>4. ASSUME NEW dir \in {Projects, Back}, Sync(dir), UNCHANGED at PROVE NamesOK(at, safeAt, tree)'
      BY <2>1, <3>4, SyncOK DEF TypeInv, NamesOK
    <3>5. CASE Committed /\ at' = [at EXCEPT !["meta"].committed = FALSE] /\ UNCHANGED safeAt
      <4>1. at["meta"] \in Meta
        BY <3>5, CommittedMeta
      <4>2. at' = [at EXCEPT !["meta"] = [at["meta"] EXCEPT !.committed = FALSE]]
        BY <3>5
      <4> QED BY <2>1, <3>5, <4>1, <4>2, MetaOK, MetaFacts
    <3> QED BY <1>3, <3>1, <3>2, <3>3, <3>4, <3>5 DEF Restore
  <2> QED BY <2>1, <2>3, <2>4, <2>5 DEF TypeInv
<1> QED BY <1>1, <1>2, <1>3

LEMMA RemountType ==
    ASSUME TypeInv, NEW c \in Commands, Remount(c) PROVE TypeInv'
<1>1. CASE BeginRemount(c)
  <2>1. CommandsOK'
    <3>1. Begin(c, "remount", "meta", None) \/ Begin(c, "remount", "unmount", None)
      BY <1>1 DEF BeginRemount
    <3> QED BY <3>1, BeginOK DEF TypeInv
  <2> QED BY <1>1, <2>1, SameNames, NamesType DEF BeginRemount, ghosts
<1>2. CASE UnmountAuto(c, "remount", "unmount", "meta")
  BY <1>2, UnmountAutoType
<1>3. CASE /\ IF Committed
                THEN cmd' = [cmd EXCEPT ![c].pc = "spawn", ![c].backing = MountSpec(at["meta"])]
                ELSE End(c)
           /\ UNCHANGED <<load, names, daemons, ghosts>>
  <2>1. CommandsOK'
    <3>1. CASE Committed
      <4>1. PICK b \in Backends : b = MountSpec(at["meta"])
        BY <3>1, CommittedMeta
      <4>2. cmd' = [cmd EXCEPT ![c].pc = "spawn", ![c].backing = b]
        BY <1>3, <3>1, <4>1
      <4> QED BY <4>2 DEF TypeInv, CommandsOK, CommandOK, Fields
    <3>2. CASE ~Committed
      BY <1>3, <3>2, EndOK DEF TypeInv
    <3> QED BY <3>1, <3>2
  <2> QED BY <1>3, <2>1, SameNames, NamesType DEF ghosts
<1> QED BY <1>1, <1>2, <1>3 DEF Remount

LEMMA PurgeType ==
    ASSUME TypeInv, NEW c \in Commands, Purge(c) PROVE TypeInv'
<1>1. CommandsOK' /\ UNCHANGED <<load, safeAt, tree, daemons, session>>
  BY EndOK, BeginOK DEF Purge, TypeInv, ghosts
<1>2. DOMAIN at' = Names /\ \A n \in Names : at'[n] \in {at[n], None}
  <2>1. CASE at' = [n \in Names |-> IF n \in Purged THEN None ELSE at[n]]
    BY <2>1
  <2>2. CASE at' = [at EXCEPT !["meta"] = None]
    BY <2>2 DEF TypeInv, NamesOK
  <2> QED BY <2>1, <2>2 DEF Purge
<1>3. at'["meta"] \in Meta \cup {None} /\ \A n \in TreeNames : at'[n] \in {at[n], None}
  BY <1>2, NameFacts DEF TypeInv, NamesOK
<1> QED BY <1>1, <1>2, <1>3, DropOK, NamesType

LEMMA MaintainType ==
    ASSUME TypeInv, NEW c \in Commands, Maintain(c) PROVE TypeInv'
<1>0. cmd[c].kind \in {"maintain", "offline"} => cmd[c].backing \in Backends
  BY DEF TypeInv, CommandsOK, CommandOK
<1>1. CASE /\ BeginCompact(c) \/ BeginSeal(c) \/ OfflineCompact(c) \/ OfflineSeal(c)
           /\ UNCHANGED <<load, names, daemons, ghosts>>
  <2>1. PICK kind \in {"maintain", "offline"}, pc \in {"lock", "unmount"}, b \in Backends : Begin(c, kind, pc, b)
    <3>1. ASSUME BeginCompact(c) PROVE at["meta"].backend \in Backends
      BY <3>1, CommittedMeta DEF BeginCompact
    <3> QED BY <1>1, <3>1, NameFacts DEF BeginCompact, BeginSeal, OfflineCompact, OfflineSeal
  <2>2. CommandsOK'
    BY <2>1, BeginOK DEF TypeInv
  <2> QED BY <1>1, <2>2, SameNames, NamesType DEF ghosts
<1>2. CASE UnmountClean(c, "maintain", "unmount", "wait")
  BY <1>2, UnmountCleanType
<1>3. CASE WaitExit(c, "maintain", "wait", "lock")
  BY <1>3, WaitExitType
<1>4. CASE Lock(c)
  <2>1. CommandsOK'
    BY <1>4, GotoOK DEF Lock, TypeInv
  <2>2. DaemonsOK'
    BY <1>0, <1>4 DEF Lock, TypeInv, DaemonsOK
  <2> QED BY <1>4, <2>1, <2>2, CommandType DEF Lock, ghosts
<1>5. CASE /\ Release(c) /\ Goto(c, "after")
           /\ UNCHANGED <<load, names, mount, daemon, serves, pid, unit, ghosts>>
  <2>1. CommandsOK'
    BY <1>5, GotoOK DEF TypeInv
  <2>2. DaemonsOK'
    BY <1>5 DEF TypeInv, DaemonsOK, Release
  <2> QED BY <1>5, <2>1, <2>2, CommandType DEF ghosts
<1>6. CASE /\ cmd[c].kind \in {"maintain", "offline"} /\ (Goto(c, "spawn") \/ End(c))
           /\ UNCHANGED <<load, names, daemons, ghosts>>
  <2>1. CommandsOK'
    BY <1>0, <1>6, GotoOK, EndOK DEF TypeInv
  <2> QED BY <1>6, <2>1, SameNames, NamesType DEF ghosts
<1> QED BY <1>1, <1>2, <1>3, <1>4, <1>5, <1>6 DEF Maintain

LEMMA ReingestType ==
    ASSUME TypeInv, NEW c \in Commands, Reingest(c) PROVE TypeInv'
<1>0. cmd[c].kind = "reingest" => cmd[c].backing \in Backends
  BY DEF TypeInv, CommandsOK, CommandOK
<1>1. CASE BeginReingest(c)
  <2>1. CommandsOK'
    BY <1>1, BeginOK, NameFacts DEF BeginReingest, TypeInv
  <2> QED BY <1>1, <2>1, SameNames, NamesType DEF BeginReingest, ghosts
<1>2. CASE /\ \E u \in Unused \cup ({at["tmp"]} \ {None}) :
                 at' = [at EXCEPT !["tmp"] = u] /\ tree' = [tree EXCEPT ![u] = NoTree]
           /\ Goto(c, "copy")
           /\ UNCHANGED <<load, safeAt, daemons, ghosts>>
  <2>1. PICK u \in Unused \cup ({at["tmp"]} \ {None}) :
          at' = [at EXCEPT !["tmp"] = u] /\ tree' = [tree EXCEPT ![u] = NoTree]
    BY <1>2
  <2>2. u \in Trees /\ \A n \in TreeNames : (n # "tmp" => at[n] # u) /\ (safeAt[n] = u => "tmp" \in Dirs /\ n \in Dirs)
    <3>1. CASE u \in Unused
      BY <3>1 DEF Unused
    <3>2. CASE u = at["tmp"] /\ u # None
      BY <3>2, NameFacts DEF TypeInv, NamesOK
    <3> QED BY <2>1, <3>1, <3>2
  <2>3. DOMAIN at' = Names /\ at'["tmp"] = u /\ \A n \in Names \ {"tmp"} : at'[n] = at[n]
    BY <2>1, NameSet, NameFacts
  <2>4. tree' \in [Trees -> [data : SUBSET Records, safe : SUBSET Records]]
    BY <2>1, <2>2 DEF TypeInv, NamesOK, NoTree
  <2>5. NamesOK(at', safeAt, tree')
    <3>1. NamesOK(at, safeAt, tree) /\ "tmp" \in TreeNames
      BY NameFacts DEF TypeInv
    <3>2. \A n \in TreeNames : (n # "tmp" => at[n] # u) /\ (safeAt[n] = u => "tmp" \in Dirs /\ n \in Dirs)
      BY <2>2
    <3> QED BY <2>2, <2>3, <2>4, <3>1, <3>2, AddedName
  <2>6. NamesOK(at, safeAt, tree)'
    BY <1>2, <2>5
  <2>7. CommandsOK'
    BY <1>2, GotoOK DEF TypeInv
  <2> QED BY <1>2, <2>6, <2>7, NamesType DEF ghosts
<1>3. CASE CopyInto(c, "reingest", "copy", "tmp", "unmount")
  BY <1>3, CopyIntoType
<1>4. CASE /\ at' = [at EXCEPT !["tmp"] = None] /\ End(c)
           /\ UNCHANGED <<load, safeAt, tree, daemons, ghosts>>
  <2>1. DOMAIN at' = Names /\ at'["tmp"] = None /\ \A n \in Names \ {"tmp"} : at'[n] = at[n]
    BY <1>4, NameSet, NameFacts
  <2>2. at'["meta"] \in Meta \cup {None} /\ \A n \in TreeNames : at'[n] \in {at[n], None}
    BY <2>1, NameFacts DEF TypeInv, NamesOK
  <2>3. NamesOK(at, safeAt, tree)'
    BY <1>4, <2>1, <2>2, DropOK
  <2> QED BY <1>4, <2>3, EndOK, NamesType DEF TypeInv, ghosts
<1>5. CASE UnmountClean(c, "reingest", "unmount", "wait")
  BY <1>5, UnmountCleanType
<1>6. CASE WaitExit(c, "reingest", "wait", "aside")
  BY <1>6, WaitExitType
<1>7. CASE Swap(c) /\ UNCHANGED <<load, tree, daemons, session, written>>
  <2>0. cmd[c].kind = "reingest"
    BY <1>7 DEF Swap, At
  <2>1. CommandsOK'
    BY <1>0, <1>7, <2>0, EndOK, GotoOK, GiveUpOK DEF Swap, TypeInv
  <2>2. NamesOK(at, safeAt, tree)'
    <3>1. CASE UNCHANGED <<at, safeAt>>
      BY <1>7, <3>1, SameNames DEF names
    <3>2. ASSUME NEW x \in {"shadow", "tmp", "bak"}, NEW y \in {"shadow", "tmp", "bak"}, x # y,
                 at' = Renamed(x, y), UNCHANGED safeAt
          PROVE  NamesOK(at, safeAt, tree)'
      <4>1. x \in Dirs /\ y \in Dirs
        BY NameFacts
      <4> QED BY <1>7, <3>2, <4>1, RenameOK
    <3>3. CASE Sync(Back) /\ UNCHANGED at
      BY <1>7, <3>3, SyncOK DEF TypeInv, NamesOK
    <3>4. CASE WriteMeta(MetaOf("shadow")) /\ UNCHANGED safeAt
      BY <1>7, <3>4, MetaOK, MetaFacts, NameFacts DEF WriteMeta
    <3> QED BY <1>7, <3>1, <3>2, <3>3, <3>4 DEF Swap, Rename
  <2> QED BY <1>7, <2>1, <2>2, NamesType
<1> QED BY <1>1, <1>2, <1>3, <1>4, <1>5, <1>6, <1>7 DEF Reingest

LEMMA StartupType ==
    ASSUME TypeInv, NEW c \in Commands, Spawn(c) \/ Await(c) \/ AfterMount(c) PROVE TypeInv'
<1>1. CASE Spawn(c)
  <2>0. cmd[c].backing \in Backends
    BY <1>1 DEF Spawn, TypeInv, CommandsOK, CommandOK
  <2>1. CommandsOK'
    <3>1. CASE Goto(c, "unmounted")
      BY <3>1, GotoOK DEF TypeInv
    <3>2. ASSUME NEW d \in Daemons, cmd' = [cmd EXCEPT ![c].pc = "await", ![c].child = d]
          PROVE  CommandsOK'
      BY <2>0, <3>2 DEF TypeInv, CommandsOK, CommandOK, Fields
    <3> QED BY <1>1, <3>1, <3>2 DEF Spawn
  <2>2. DaemonsOK'
    <3>1. CASE UNCHANGED <<daemon, serves, pid, unit>>
      BY <1>1, <3>1, SameDaemons DEF Spawn, TypeInv, daemons
    <3>2. ASSUME NEW d \in Daemons, Start(d, cmd[c].backing),
                 pid' = IF load.systemd THEN pid ELSE None, unit' = [unit EXCEPT !.active = load.systemd]
          PROVE  DaemonsOK'
      <4>1. unit' \in [active : BOOLEAN, enabled : BOOLEAN] /\ pid' \in Daemons \cup {None} /\ mount' \in Daemons \cup {None}
        BY <1>1, <3>2, WorkloadsAssumption DEF Spawn, TypeInv, DaemonsOK
      <4> QED BY <1>1, <2>0, <3>2, <4>1, StartOK DEF Spawn, TypeInv
    <3> QED BY <1>1, <3>1, <3>2 DEF Spawn
  <2> QED BY <1>1, <2>1, <2>2, CommandType DEF Spawn, ghosts
<1>2. CASE Await(c)
  <2>1. CommandsOK'
    BY <1>2, GotoOK DEF Await, TypeInv
  <2>2. cmd[c].child \in Daemons
    BY <1>2 DEF Await, TypeInv, CommandsOK, CommandOK
  <2>3. DaemonsOK'
    <3>1. CASE UNCHANGED daemons
      BY <3>1, SameDaemons DEF TypeInv
    <3>2. ASSUME Exit(cmd[c].child), mount' \in {mount, None}, UNCHANGED <<pid, unit>> PROVE DaemonsOK'
      BY <2>2, <3>2, ExitOK DEF TypeInv, DaemonsOK
    <3> QED BY <1>2, <3>1, <3>2 DEF Await
  <2> QED BY <1>2, <2>1, <2>3, CommandType DEF Await, ghosts
<1>3. CASE AfterMount(c)
  <2>1. CommandsOK'
    BY <1>3, GotoOK, EndOK DEF AfterMount, TypeInv
  <2>2. DaemonsOK'
    <3>1. unit' \in [active : BOOLEAN, enabled : BOOLEAN]
      <4>1. UNCHANGED unit \/ EnableAutostart
        BY <1>3 DEF AfterMount
      <4> QED BY <4>1, UnitOK DEF TypeInv, DaemonsOK
    <3> QED BY <1>3, <3>1, AroundDaemons DEF AfterMount, TypeInv, DaemonsOK
  <2> QED BY <1>3, <2>1, <2>2, CommandType DEF AfterMount, ghosts
<1> QED BY <1>1, <1>2, <1>3

LEMMA CommandTypes ==
    ASSUME TypeInv, NEW c \in Commands,
           \/ Apply(c) \/ Restore(c) \/ Remount(c) \/ Purge(c) \/ Maintain(c) \/ Reingest(c)
           \/ Umount(c) \/ InstallAutostart(c)
           \/ Spawn(c) \/ Await(c) \/ AfterMount(c) \/ Kill(c)
    PROVE  TypeInv'
<1>1. CASE Umount(c)
  <2>1. CommandsOK' /\ DaemonsOK'
    BY <1>1, SameCommands, DetachOK DEF Umount, TypeInv
  <2> QED BY <1>1, <2>1, CommandType DEF Umount, ghosts
<1>2. CASE InstallAutostart(c)
  <2>1. CommandsOK' /\ DaemonsOK'
    BY <1>2, SameCommands, UnitOK, AroundDaemons DEF InstallAutostart, TypeInv, DaemonsOK
  <2> QED BY <1>2, <2>1, CommandType DEF InstallAutostart, ghosts
<1>3. CASE Kill(c)
  <2>1. CommandsOK' /\ DaemonsOK'
    BY <1>3, EndOK DEF Kill, TypeInv, DaemonsOK, Release
  <2> QED BY <1>3, <2>1, CommandType DEF Kill, ghosts
<1> QED BY <1>1, <1>2, <1>3, ApplyType, RestoreType, RemountType, PurgeType, MaintainType, ReingestType, StartupType

LEMMA PowerLossType == ASSUME TypeInv, PowerLoss PROVE TypeInv'
<1>1. PICK dirs \in SUBSET {Projects, Back}, kept \in BOOLEAN :
        /\ at' = [n \in Names |-> IF n \in UNION dirs THEN at[n] ELSE safeAt[n]]
        /\ tree' = IF kept THEN tree ELSE [t \in Trees |-> [tree[t] EXCEPT !.data = tree[t].safe]]
  BY DEF PowerLoss
<1>2. tree' \in [Trees -> [data : SUBSET Records, safe : SUBSET Records]]
  BY <1>1 DEF TypeInv, NamesOK
<1>3. NamesOK(at', at', tree')
  <2>1. NamesOK(at, safeAt, tree)
    BY DEF TypeInv
  <2>2. \A b : b = [n \in Names |-> IF n \in UNION dirs THEN at[n] ELSE safeAt[n]] => NamesOK(b, b, tree')
    BY <1>2, <2>1, LostNames
  <2> QED BY <1>1, <2>2
<1>4. NamesOK(at, safeAt, tree)'
  BY <1>3 DEF PowerLoss
<1>5. CommandsOK'
  BY IdleOK DEF PowerLoss, CommandsOK
<1>6. DaemonsOK'
  BY DEF PowerLoss, TypeInv, DaemonsOK
<1>7. UNCHANGED load /\ session' = None
  BY DEF PowerLoss
<1> QED BY <1>4, <1>5, <1>6, <1>7 DEF TypeInv

LEMMA NextType == TypeInv /\ [Next]_vars => TypeInv'
<1> SUFFICES ASSUME TypeInv, [Next]_vars PROVE TypeInv'
  OBVIOUS
<1>1. CASE UNCHANGED vars
  BY <1>1, SameCommands, SameDaemons, CommandType DEF vars, TypeInv, ghosts
<1>2. CASE Next
  BY <1>2, UserType, DaemonType, CommandTypes, PowerLossType DEF Next
<1> QED BY <1>1, <1>2

\* The names of a project lead to trees, no two of them to the same one, and a
\* daemon has a backing exactly while it runs: for any number of commands at the
\* same time, and whatever is killed, dies or is lost with the power.
THEOREM TypeCorrect == Spec => []TypeOK
<1> QED BY InitType, NextType, TypeInvImplies, PTL DEF Spec

(***************************************************************************)
(* What users wrote                                                         *)
(***************************************************************************)

Power     == "power" \in load.faults
\* What is under the project's own names, of which every backing began as a copy.
Plain     == Data("mp") \cup Data("orig")
\* What a name leads to after a power loss.
Synced(n) == IF safeAt[n] # None THEN tree[safeAt[n]].data ELSE {}
Kept(b, r) == at[b] # None /\ safeAt[b] = at[b] /\ r \in tree[at[b]].safe

\* reingest's copy has nothing orig has not, and a user's program has the project
\* itself open.
DataOK ==
    /\ NothingLost
    /\ Data("tmp") \subseteq Plain
    /\ session # None => session = at["mp"] /\ tree[session].data # {}

\* What a power loss preserves: the projects' directory holds the same before and
\* after it, and what was written through a mount is in a backing whose name is
\* synced.
DurableOK ==
    /\ at["tmp"] = None /\ at["bak"] = None /\ safeAt["tmp"] = None /\ safeAt["bak"] = None
    /\ Synced("mp") \cup Synced("orig") = Plain
    /\ \A u \in Trees : tree[u].safe \subseteq tree[u].data
    /\ \A n \in Projects : /\ at[n] # None => tree[at[n]].safe = tree[at[n]].data
                           /\ safeAt[n] # None => tree[safeAt[n]].safe = tree[safeAt[n]].data
    /\ \A r \in written : r \in Plain \/ \E b \in Backends : Kept(b, r)

StoreInv == DataOK /\ (Power => DurableOK)

TreeFacts ==
    /\ DOMAIN tree = Trees
    /\ \A u \in Trees : tree[u].data \subseteq Records /\ tree[u].safe \subseteq Records

\* What TypeInv says of the names, ready to use.
LEMMA NamesHere ==
    ASSUME TypeInv
    PROVE  /\ DOMAIN at = Names /\ DOMAIN safeAt = Names
           /\ \A n \in TreeNames : (at[n] \in Trees \/ at[n] = None) /\ (safeAt[n] \in Trees \/ safeAt[n] = None)
           /\ \A m, n \in TreeNames : m # n /\ at[m] # None => at[m] # at[n]
           /\ \A m, n \in TreeNames : m # n /\ safeAt[m] # None => safeAt[m] # safeAt[n]
           /\ \A m \in Projects, n \in Dirs : /\ at[m] # None => at[m] # safeAt[n]
                                              /\ safeAt[m] # None => safeAt[m] # at[n]
           /\ DOMAIN tree = Trees /\ None \notin Trees
           /\ at["meta"] = None \/ at["meta"].backend \in Backends
<1>1. NamesOK(at, safeAt, tree)
  BY DEF TypeInv
<1> QED BY <1>1, NameFacts, MetaFacts DEF NamesOK

\* A record is added to the tree of one name.
LEMMA PutFacts ==
    ASSUME TypeInv, NEW n \in TreeNames, Exists(n), NEW r, Put(n, r), UNCHANGED at
    PROVE  /\ \A m \in TreeNames : Data(m)' = IF m = n THEN Data(m) \cup {r} ELSE Data(m)
           /\ written' = written \cup {r}
           /\ tree'[at[n]].data = tree[at[n]].data \cup {r} /\ tree'[at[n]].safe = tree[at[n]].safe \cup {r}
           /\ \A u \in Trees : u # at[n] => tree'[u] = tree[u]
<1>1. at[n] \in Trees /\ DOMAIN tree = Trees /\ \A m \in TreeNames : (at[m] \in Trees \/ at[m] = None) /\ (m # n => at[m] # at[n])
  BY NamesHere DEF Exists
<1>2. /\ tree'[at[n]].data = tree[at[n]].data \cup {r} /\ tree'[at[n]].safe = tree[at[n]].safe \cup {r}
      /\ \A u \in Trees : u # at[n] => tree'[u] = tree[u]
  BY <1>1 DEF Put
<1>3. written' = written \cup {r}
  BY DEF Put
<1> QED BY <1>1, <1>2, <1>3 DEF Data, Exists

LEMMA PutProject ==
    ASSUME TypeInv, StoreInv, Exists("mp"), NEW r, Put("mp", r), Sync(Projects), UNCHANGED <<load, at, session>>
    PROVE  /\ StoreInv' /\ Plain' = Plain \cup {r}
           /\ \A n \in Dirs : Data(n)' = Data(n)
           /\ \A n \in Back : safeAt'[n] = safeAt[n]
<1>1. /\ \A m \in TreeNames : Data(m)' = IF m = "mp" THEN Data(m) \cup {r} ELSE Data(m)
      /\ written' = written \cup {r}
      /\ tree'[at["mp"]].data = tree[at["mp"]].data \cup {r} /\ tree'[at["mp"]].safe = tree[at["mp"]].safe \cup {r}
      /\ \A u \in Trees : u # at["mp"] => tree'[u] = tree[u]
  BY PutFacts, NameFacts
<1>2. Plain' = Plain \cup {r} /\ \A n \in Dirs : Data(n)' = Data(n)
  BY <1>1, NameFacts DEF Plain
<1>3. /\ safeAt'["mp"] = at["mp"] /\ safeAt'["orig"] = at["orig"]
      /\ \A n \in Back : safeAt'[n] = safeAt[n]
  BY NameFacts DEF Sync
<1>4. DataOK'
  <2>1. NothingLost'
    BY <1>1, NameFacts DEF StoreInv, DataOK, NothingLost
  <2>2. Data("tmp")' \subseteq Plain'
    BY <1>2, NameFacts DEF StoreInv, DataOK
  <2>3. session' # None => session' = at'["mp"] /\ tree'[session'].data # {}
    BY <1>1 DEF StoreInv, DataOK
  <2> QED BY <2>1, <2>2, <2>3 DEF DataOK
<1>5. ASSUME Power PROVE DurableOK'
  <2>0. DurableOK
    BY <1>5 DEF StoreInv
  <2>1. /\ at["mp"] \in Trees
        /\ \A n \in Dirs : at[n] # at["mp"] /\ safeAt[n] # at["mp"]
        /\ \A n \in TreeNames : (at[n] \in Trees \/ at[n] = None) /\ (safeAt[n] \in Trees \/ safeAt[n] = None)
        /\ at["orig"] # at["mp"] /\ at' = at
    BY NamesHere, NameFacts DEF Exists
  <2>2. Synced("mp")' \cup Synced("orig")' = Plain'
    BY <1>3, <2>1 DEF Synced, Plain, Data, Exists
  <2>3. \A u \in Trees : tree'[u].safe \subseteq tree'[u].data
    BY <1>1, <2>0, <2>1 DEF DurableOK
  <2>4. \A n \in Projects : at[n] # None => tree'[at[n]].safe = tree'[at[n]].data
    <3> SUFFICES ASSUME NEW n \in Projects, at[n] # None PROVE tree'[at[n]].safe = tree'[at[n]].data
      OBVIOUS
    <3>1. tree[at[n]].safe = tree[at[n]].data
      BY <2>0 DEF DurableOK
    <3>2. CASE at[n] = at["mp"]
      BY <1>1, <3>1, <3>2
    <3>3. CASE at[n] # at["mp"]
      BY <1>1, <2>1, <3>1, <3>3, NameFacts
    <3> QED BY <3>2, <3>3
  <2>5. \A n \in Projects : safeAt'[n] = at[n]
    BY NameFacts DEF Sync
  <2>6. ASSUME NEW q \in written' PROVE q \in Plain' \/ \E b \in Backends : Kept(b, q)'
    <3>1. CASE q = r
      BY <1>2, <3>1
    <3>2. CASE q \in written
      <4>1. CASE q \in Plain
        BY <1>2, <4>1
      <4>2. ASSUME NEW b \in Backends, Kept(b, q) PROVE Kept(b, q)'
        <5>1. b \in Dirs /\ b \in Back /\ b \in TreeNames
          BY NameFacts
        <5>2. tree'[at[b]] = tree[at[b]] /\ safeAt'[b] = safeAt[b] /\ at'[b] = at[b]
          BY <1>1, <1>3, <2>1, <4>2, <5>1 DEF Kept
        <5> QED BY <4>2, <5>2 DEF Kept
      <4> QED BY <2>0, <3>2, <4>1, <4>2 DEF DurableOK
    <3> QED BY <1>1, <3>1, <3>2
  <2>7. at'["tmp"] = None /\ at'["bak"] = None /\ safeAt'["tmp"] = None /\ safeAt'["bak"] = None
    BY <1>3, <2>0, NameFacts DEF DurableOK
  <2>8. \A n \in Projects : /\ at'[n] # None => tree'[at'[n]].safe = tree'[at'[n]].data
                            /\ safeAt'[n] # None => tree'[safeAt'[n]].safe = tree'[safeAt'[n]].data
    BY <2>1, <2>4, <2>5
  <2> QED BY <2>2, <2>3, <2>6, <2>7, <2>8 DEF DurableOK
<1>6. Power' <=> Power
  BY DEF Power
<1> QED BY <1>2, <1>3, <1>4, <1>5, <1>6 DEF StoreInv

LEMMA PutBacking ==
    ASSUME TypeInv, StoreInv, NEW b \in Backends, Exists(b), NEW r, Put(b, r), Power => safeAt[b] = at[b],
           UNCHANGED <<load, at, safeAt, session>>
    PROVE  /\ StoreInv' /\ Plain' = Plain
           /\ \A n \in TreeNames : Data(n)' = IF n = b THEN Data(n) \cup {r} ELSE Data(n)
<1>0. b \in TreeNames /\ b \in Dirs
  BY NameFacts
<1>1. /\ \A m \in TreeNames : Data(m)' = IF m = b THEN Data(m) \cup {r} ELSE Data(m)
      /\ written' = written \cup {r}
      /\ tree'[at[b]].data = tree[at[b]].data \cup {r} /\ tree'[at[b]].safe = tree[at[b]].safe \cup {r}
      /\ \A u \in Trees : u # at[b] => tree'[u] = tree[u]
  BY <1>0, PutFacts
<1>2. Plain' = Plain
  BY <1>0, <1>1, NameFacts DEF Plain
<1>3. /\ at[b] \in Trees /\ \A n \in Projects : at[n] # at[b] /\ safeAt[n] # at[b]
      /\ \A n \in TreeNames : (at[n] \in Trees \/ at[n] = None) /\ (safeAt[n] \in Trees \/ safeAt[n] = None)
  BY <1>0, NamesHere, NameFacts DEF Exists
<1>4. DataOK'
  <2>1. NothingLost'
    BY <1>0, <1>1 DEF StoreInv, DataOK, NothingLost
  <2>2. Data("tmp")' \subseteq Plain'
    BY <1>1, <1>2, NameFacts DEF StoreInv, DataOK
  <2>3. session' # None => session' = at'["mp"] /\ tree'[session'].data # {}
    BY <1>1, <1>3, NameFacts DEF StoreInv, DataOK
  <2> QED BY <2>1, <2>2, <2>3 DEF DataOK
<1>5. ASSUME Power PROVE DurableOK'
  <2>0. DurableOK /\ at' = at /\ safeAt' = safeAt
    BY <1>5 DEF StoreInv
  <2>1. \A n \in Projects : (safeAt[n] # None => tree'[safeAt[n]] = tree[safeAt[n]]) /\ (at[n] # None => tree'[at[n]] = tree[at[n]])
    BY <1>1, <1>3, NameFacts
  <2>2. Synced("mp")' \cup Synced("orig")' = Plain'
    BY <1>2, <2>0, <2>1, NameFacts DEF Synced, DurableOK
  <2>3. \A u \in Trees : tree'[u].safe \subseteq tree'[u].data
    BY <1>1, <1>3, <2>0 DEF DurableOK
  <2>4. \A n \in Projects : /\ at'[n] # None => tree'[at'[n]].safe = tree'[at'[n]].data
                            /\ safeAt'[n] # None => tree'[safeAt'[n]].safe = tree'[safeAt'[n]].data
    BY <2>0, <2>1 DEF DurableOK
  <2>6. ASSUME NEW q \in written' PROVE q \in Plain' \/ \E k \in Backends : Kept(k, q)'
    <3>1. CASE q = r
      <4>1. Kept(b, q)'
        BY <1>1, <1>3, <1>5, <2>0, <3>1, NameFacts DEF Kept, Exists
      <4> QED BY <4>1
    <3>2. CASE q \in written
      <4>1. CASE q \in Plain
        BY <1>2, <4>1
      <4>2. ASSUME NEW k \in Backends, Kept(k, q) PROVE Kept(k, q)'
        <5>1. at[k] \in Trees /\ tree[at[k]].safe \subseteq tree'[at[k]].safe
          BY <1>1, <1>3, <4>2, NameFacts DEF Kept
        <5> QED BY <2>0, <4>2, <5>1 DEF Kept
      <4> QED BY <2>0, <3>2, <4>1, <4>2 DEF DurableOK
    <3> QED BY <1>1, <3>1, <3>2
  <2> QED BY <2>0, <2>2, <2>3, <2>4, <2>6 DEF DurableOK
<1>6. Power' <=> Power
  BY DEF Power
<1> QED BY <1>1, <1>2, <1>4, <1>5, <1>6 DEF StoreInv

\* The steps on names and trees, and what users wrote.
LEMMA KeptOK ==
    ASSUME TypeInv, DurableOK, Plain \subseteq Plain', written' \subseteq written,
           \A b \in Backends :
              \/ /\ at'[b] = at[b] /\ safeAt'[b] \in {safeAt[b], at[b]}
                 /\ at[b] # None => tree[at[b]].safe \subseteq tree'[at[b]].safe
              \/ at[b] = None
              \/ Data(b) \subseteq Plain
    PROVE  \A r \in written' : r \in Plain' \/ \E b \in Backends : Kept(b, r)'
<1> SUFFICES ASSUME NEW r \in written', r \notin Plain' PROVE \E b \in Backends : Kept(b, r)'
  OBVIOUS
<1>1. PICK b \in Backends : Kept(b, r)
  BY DEF DurableOK
<1>2. Data(b) = tree[at[b]].data /\ at[b] \in Trees
  BY <1>1, NamesHere, NameFacts DEF Kept, Data, Exists
<1>3. r \in Data(b)
  BY <1>1, <1>2 DEF Kept, DurableOK
<1>4. Kept(b, r)'
  BY <1>1, <1>2, <1>3 DEF Kept
<1> QED BY <1>4

LEMMA StoreSame ==
    ASSUME TypeInv, StoreInv, UNCHANGED <<load, tree, session, written>>,
           \A n \in TreeNames : at'[n] = at[n] /\ safeAt'[n] = safeAt[n]
    PROVE  StoreInv' /\ Plain' = Plain /\ \A n \in TreeNames : Data(n)' = Data(n)
<1>1. \A n \in TreeNames : Data(n)' = Data(n) /\ Synced(n)' = Synced(n)
  BY DEF Data, Exists, Synced
<1>2. Plain' = Plain
  BY <1>1, NameFacts DEF Plain
<1>3. \A b \in Backends : \A r : Kept(b, r)' <=> Kept(b, r)
  BY NameFacts DEF Kept
<1>4. DataOK'
  BY <1>1, <1>2, NameFacts DEF StoreInv, DataOK, NothingLost
<1>5. DurableOK => DurableOK'
  BY <1>1, <1>2, <1>3, NameFacts DEF DurableOK
<1> QED BY <1>1, <1>2, <1>4, <1>5 DEF StoreInv, Power

LEMMA StoreSync ==
    ASSUME TypeInv, StoreInv, NEW dir \in {Projects, Back}, Sync(dir), UNCHANGED <<load, at, tree, session, written>>
    PROVE  StoreInv' /\ Plain' = Plain /\ \A n \in TreeNames : Data(n)' = Data(n)
<1>1. Plain' = Plain /\ \A n \in TreeNames : Data(n)' = Data(n)
  BY DEF Plain, Data, Exists
<1>2. DataOK'
  BY <1>1, NameFacts DEF StoreInv, DataOK, NothingLost
<1>3. \A n \in TreeNames : safeAt'[n] \in {safeAt[n], at[n]}
  BY NameFacts DEF Sync
<1>4. ASSUME DurableOK PROVE DurableOK'
  <2>1. Synced("mp")' \cup Synced("orig")' = Plain'
    <3>1. CASE dir = Projects
      <4>1. safeAt'["mp"] = at["mp"] /\ safeAt'["orig"] = at["orig"]
        BY <3>1, NameFacts DEF Sync
      <4> QED BY <4>1 DEF Synced, Plain, Data, Exists
    <3>2. CASE dir = Back
      <4>1. safeAt'["mp"] = safeAt["mp"] /\ safeAt'["orig"] = safeAt["orig"]
        BY <3>2, NameFacts DEF Sync
      <4> QED BY <1>1, <1>4, <4>1 DEF Synced, DurableOK
    <3> QED BY <3>1, <3>2
  <2>2. \A r \in written' : r \in Plain' \/ \E b \in Backends : Kept(b, r)'
    BY <1>1, <1>3, <1>4, KeptOK, NameFacts
  <2>3. \A n \in Projects : /\ at'[n] # None => tree'[at'[n]].safe = tree'[at'[n]].data
                            /\ safeAt'[n] # None => tree'[safeAt'[n]].safe = tree'[safeAt'[n]].data
    BY <1>3, <1>4, NameFacts DEF DurableOK
  <2>4. at'["tmp"] = None /\ at'["bak"] = None /\ safeAt'["tmp"] = None /\ safeAt'["bak"] = None
    BY <1>3, <1>4, NameFacts DEF DurableOK
  <2>5. \A u \in Trees : tree'[u].safe \subseteq tree'[u].data
    BY <1>4 DEF DurableOK
  <2> QED BY <2>1, <2>2, <2>3, <2>4, <2>5 DEF DurableOK
<1> QED BY <1>1, <1>2, <1>4 DEF StoreInv, Power

\* The project and its mountpoint change places, or one of them, empty, goes.
LEMMA StoreProjects ==
    ASSUME TypeInv, StoreInv, UNCHANGED <<load, safeAt, tree, session, written>>, session = None,
           \A n \in Dirs : at'[n] = at[n],
           \A n \in Projects : at'[n] \in {at["mp"], at["orig"], None},
           Plain' = Plain
    PROVE  StoreInv' /\ \A n \in Dirs : Data(n)' = Data(n)
<1>1. \A n \in Dirs : Data(n)' = Data(n)
  BY DEF Data, Exists
<1>2. DataOK'
  <2>1. NothingLost'
    <3> SUFFICES ASSUME NEW r \in written' PROVE \E n \in TreeNames : r \in Data(n)'
      BY DEF NothingLost
    <3>1. PICK n \in TreeNames : r \in Data(n)
      BY DEF StoreInv, DataOK, NothingLost
    <3>2. CASE n \in Dirs
      BY <1>1, <3>1, <3>2
    <3>3. CASE n \in Projects
      <4>1. r \in Plain
        BY <3>1, <3>3 DEF Plain, Projects
      <4> QED BY <4>1, NameFacts DEF Plain
    <3> QED BY <3>2, <3>3, NameFacts
  <2>2. Data("tmp")' \subseteq Plain'
    BY <1>1, NameFacts DEF StoreInv, DataOK
  <2> QED BY <2>1, <2>2 DEF DataOK
<1>3. ASSUME DurableOK PROVE DurableOK'
  <2>1. \A r \in written' : r \in Plain' \/ \E b \in Backends : Kept(b, r)'
    BY <1>3, KeptOK, NameFacts
  <2>2. \A n \in Projects : /\ at'[n] # None => tree'[at'[n]].safe = tree'[at'[n]].data
                            /\ safeAt'[n] # None => tree'[safeAt'[n]].safe = tree'[safeAt'[n]].data
    BY <1>3, NameFacts DEF DurableOK
  <2>3. Synced("mp")' = Synced("mp") /\ Synced("orig")' = Synced("orig")
    BY DEF Synced
  <2> QED BY <1>3, <2>1, <2>2, <2>3, NameFacts DEF DurableOK
<1> QED BY <1>1, <1>2, <1>3 DEF StoreInv, Power

LEMMA StoreRename ==
    ASSUME TypeInv, StoreInv, UNCHANGED <<load, safeAt, tree, session, written>>,
           NEW x \in Projects, NEW y \in Projects, x # y, CanRename(x, y), at' = Renamed(x, y),
           x = "mp" => session = None
    PROVE  StoreInv' /\ Plain' = Plain /\ \A n \in Dirs : Data(n)' = Data(n)
<1>1. /\ at'[x] = None /\ at'[y] = at[x]
      /\ \A n \in Names \ {x, y} : at'[n] = at[n]
  BY RenameOK
<1>2. (x = "mp" /\ y = "orig") \/ (x = "orig" /\ y = "mp")
  BY DEF Projects
<1>3. Plain' = Plain
  BY <1>1, <1>2 DEF Plain, Data, Exists, CanRename
<1>4. session = None
  <2>1. ASSUME y = "mp", session # None PROVE FALSE
    BY <2>1, NameFacts DEF CanRename, Data, Exists, StoreInv, DataOK
  <2> QED BY <1>2, <2>1
<1>5. (\A n \in Dirs : at'[n] = at[n]) /\ \A n \in Projects : at'[n] \in {at["mp"], at["orig"], None}
  BY <1>1, <1>2, NameFacts DEF Projects
<1> QED BY <1>3, <1>4, <1>5, StoreProjects

LEMMA StoreRemove ==
    ASSUME TypeInv, StoreInv, UNCHANGED <<load, safeAt, tree, session, written>>,
           CanRemove("mp"), at' = [at EXCEPT !["mp"] = None]
    PROVE  StoreInv' /\ Plain' = Plain /\ \A n \in Dirs : Data(n)' = Data(n)
<1>1. at'["mp"] = None /\ \A n \in Names \ {"mp"} : at'[n] = at[n]
  BY NameSet, NameFacts
<1>2. at'["orig"] = at["orig"] /\ \A n \in Dirs : at'[n] = at[n]
  BY <1>1, NameFacts DEF Names, TreeNames
<1>3. Plain' = Plain
  BY <1>1, <1>2 DEF Plain, Data, Exists, CanRemove
<1>4. session = None
  BY DEF CanRemove, Data, Exists, StoreInv, DataOK
<1>5. \A n \in Projects : at'[n] \in {at["mp"], at["orig"], None}
  BY <1>1, <1>2 DEF Projects
<1> QED BY <1>2, <1>3, <1>4, <1>5, StoreProjects

LEMMA StoreMakeDir ==
    ASSUME TypeInv, StoreInv, UNCHANGED <<load, safeAt, session, written>>,
           NEW x \in Backends \cup {"mp"}, MakeDir(x)
    PROVE  StoreInv' /\ Plain' = Plain /\ \A n \in TreeNames : Data(n)' = Data(n)
<1>0. x \in TreeNames /\ x # "tmp" /\ x # "bak" /\ x # "orig"
  BY NameFacts
<1>1. /\ at'[x] \in Trees /\ tree'[at'[x]] = NoTree
      /\ \A m \in Names \ {x} : at'[m] = at[m]
      /\ \A m \in TreeNames : at[m] # at'[x] /\ safeAt[m] # at'[x]
      /\ \A w \in Trees \ {at'[x]} : tree'[w] = tree[w]
  BY <1>0, MakeDirOK
<1>2. at[x] = None
  BY DEF MakeDir, Exists
<1>3. \A m \in TreeNames : m # x => at'[m] = at[m] /\ (at[m] # None => tree'[at[m]] = tree[at[m]])
  BY <1>1, NamesHere, NameFacts
<1>4. \A m \in TreeNames : safeAt[m] # None => tree'[safeAt[m]] = tree[safeAt[m]]
  BY <1>1, NamesHere
<1>5. \A n \in TreeNames : Data(n)' = Data(n)
  <2> SUFFICES ASSUME NEW n \in TreeNames PROVE Data(n)' = Data(n)
    OBVIOUS
  <2>1. CASE n = x
    BY <1>1, <1>2, <2>1 DEF Data, Exists, NoTree
  <2>2. CASE n # x
    BY <1>3, <2>2 DEF Data, Exists
  <2> QED BY <2>1, <2>2
<1>6. Plain' = Plain
  BY <1>5, NameFacts DEF Plain
<1>7. DataOK'
  <2>1. session' # None => session' = at'["mp"] /\ tree'[session'].data # {}
    BY <1>2, <1>3, NameFacts DEF StoreInv, DataOK
  <2>2. NothingLost'
    BY <1>5 DEF StoreInv, DataOK, NothingLost
  <2>3. Data("tmp")' \subseteq Plain'
    BY <1>5, <1>6, NameFacts DEF StoreInv, DataOK
  <2> QED BY <2>1, <2>2, <2>3 DEF DataOK
<1>8. ASSUME DurableOK PROVE DurableOK'
  <2>1. \A b \in Backends : \/ /\ at'[b] = at[b] /\ safeAt'[b] \in {safeAt[b], at[b]}
                               /\ at[b] # None => tree[at[b]].safe \subseteq tree'[at[b]].safe
                            \/ at[b] = None
    BY <1>2, <1>3, NameFacts
  <2>2. \A r \in written' : r \in Plain' \/ \E b \in Backends : Kept(b, r)'
    BY <1>6, <1>8, <2>1, KeptOK
  <2>3. \A n \in Projects : /\ at'[n] # None => tree'[at'[n]].safe = tree'[at'[n]].data
                            /\ safeAt'[n] # None => tree'[safeAt'[n]].safe = tree'[safeAt'[n]].data
    <3> SUFFICES ASSUME NEW n \in Projects
                 PROVE  /\ at'[n] # None => tree'[at'[n]].safe = tree'[at'[n]].data
                        /\ safeAt'[n] # None => tree'[safeAt'[n]].safe = tree'[safeAt'[n]].data
      OBVIOUS
    <3>1. safeAt'[n] # None => tree'[safeAt'[n]].safe = tree'[safeAt'[n]].data
      BY <1>4, <1>8, NameFacts DEF DurableOK
    <3>2. at'[n] # None => tree'[at'[n]].safe = tree'[at'[n]].data
      <4>1. CASE n = x
        <5>1. tree'[at'[n]] = NoTree
          BY <1>1, <4>1
        <5>2. NoTree.safe = NoTree.data
          BY DEF NoTree
        <5> QED BY <5>1, <5>2
      <4>2. CASE n # x
        <5>1. at[n] # None => tree[at[n]].safe = tree[at[n]].data
          BY <1>8 DEF DurableOK
        <5>2. at'[n] = at[n] /\ (at[n] # None => tree'[at[n]] = tree[at[n]])
          BY <1>3, <4>2, NameFacts
        <5> QED BY <5>1, <5>2
      <4> QED BY <4>1, <4>2
    <3> QED BY <3>1, <3>2
  <2>4. Synced("mp")' = Synced("mp") /\ Synced("orig")' = Synced("orig")
    BY <1>4, NameFacts DEF Synced
  <2>5. \A u \in Trees : tree'[u].safe \subseteq tree'[u].data
    BY <1>1, <1>8 DEF DurableOK, NoTree
  <2>6. at'["tmp"] = None /\ at'["bak"] = None /\ safeAt'["tmp"] = None /\ safeAt'["bak"] = None
    BY <1>0, <1>3, <1>8, NameFacts DEF DurableOK
  <2> QED BY <1>6, <1>8, <2>2, <2>3, <2>4, <2>5, <2>6 DEF DurableOK
<1> QED BY <1>5, <1>6, <1>7, <1>8 DEF StoreInv, Power

\* A name is dropped of which the project has all.
LEMMA StoreDrop ==
    ASSUME TypeInv, StoreInv, UNCHANGED <<load, safeAt, tree, session, written>>,
           NEW x \in Backends \cup {"tmp"}, Data(x) \subseteq Plain,
           at'[x] = None, \A n \in TreeNames : n # x => at'[n] = at[n]
    PROVE  StoreInv' /\ Plain' = Plain /\ \A n \in TreeNames : n # x => Data(n)' = Data(n)
<1>0. x \in Dirs /\ x \in TreeNames /\ x # "mp" /\ x # "orig" /\ x # "bak"
  BY NameFacts
<1>1. Data(x)' = {} /\ \A n \in TreeNames : n # x => Data(n)' = Data(n)
  BY DEF Data, Exists
<1>2. Plain' = Plain /\ at'["mp"] = at["mp"] /\ at'["orig"] = at["orig"]
  BY <1>0, <1>1, NameFacts DEF Plain
<1>3. DataOK'
  <2>1. NothingLost'
    <3> SUFFICES ASSUME NEW r \in written' PROVE \E n \in TreeNames : r \in Data(n)'
      BY DEF NothingLost
    <3>1. PICK n \in TreeNames : r \in Data(n)
      BY DEF StoreInv, DataOK, NothingLost
    <3>2. CASE n = x
      <4>1. r \in Plain'
        BY <1>2, <3>1, <3>2
      <4> QED BY <4>1, NameFacts DEF Plain
    <3>3. CASE n # x
      BY <1>1, <3>1, <3>3
    <3> QED BY <3>2, <3>3
  <2>2. Data("tmp")' \subseteq Plain'
    BY <1>1, <1>2, NameFacts DEF StoreInv, DataOK
  <2> QED BY <1>2, <2>1, <2>2 DEF StoreInv, DataOK
<1>4. ASSUME DurableOK PROVE DurableOK'
  <2>1. \A b \in Backends : \/ /\ at'[b] = at[b] /\ safeAt'[b] \in {safeAt[b], at[b]}
                               /\ at[b] # None => tree[at[b]].safe \subseteq tree'[at[b]].safe
                            \/ Data(b) \subseteq Plain
    BY NameFacts
  <2>2. \A r \in written' : r \in Plain' \/ \E b \in Backends : Kept(b, r)'
    BY <1>2, <1>4, <2>1, KeptOK
  <2>3. \A n \in Projects : at'[n] = at[n]
    BY <1>2 DEF Projects
  <2>4. at'["tmp"] = None /\ at'["bak"] = None
    BY <1>0, <1>4, NameFacts DEF DurableOK
  <2>5. Synced("mp")' = Synced("mp") /\ Synced("orig")' = Synced("orig")
    BY DEF Synced
  <2> QED BY <1>2, <1>4, <2>2, <2>3, <2>4, <2>5 DEF DurableOK
<1> QED BY <1>1, <1>2, <1>3, <1>4 DEF StoreInv, Power

\* A tree that is not the project's takes in more, or is synced.
LEMMA StoreTree ==
    ASSUME TypeInv, StoreInv, UNCHANGED <<load, at, safeAt, session, written>>,
           NEW n \in Backends \cup {"tmp"}, NEW more \in SUBSET Plain,
           \A u \in Trees : u # at[n] => tree'[u] = tree[u],
           at[n] # None => /\ tree'[at[n]].data = tree[at[n]].data \cup more
                           /\ tree[at[n]].safe \subseteq tree'[at[n]].safe
                           /\ tree'[at[n]].safe \subseteq tree[at[n]].safe \cup tree'[at[n]].data
    PROVE  /\ StoreInv' /\ Plain' = Plain
           /\ \A m \in TreeNames : Data(m)' = IF m = n /\ Exists(n) THEN Data(m) \cup more ELSE Data(m)
<1>0. n \in Dirs /\ n \in TreeNames
  BY NameFacts
<1>1. \A m \in TreeNames : m # n /\ at[m] # None => tree'[at[m]] = tree[at[m]]
  BY <1>0, NamesHere
<1>2. \A m \in TreeNames : Data(m)' = IF m = n /\ Exists(n) THEN Data(m) \cup more ELSE Data(m)
  BY <1>0, <1>1 DEF Data, Exists
<1>3. Plain' = Plain
  BY <1>0, <1>2, NameFacts DEF Plain
<1>4. \A m \in Projects : safeAt[m] # None => tree'[safeAt[m]] = tree[safeAt[m]]
  BY <1>0, NamesHere, NameFacts
<1>5. DataOK'
  <2>1. NothingLost'
    BY <1>2 DEF StoreInv, DataOK, NothingLost
  <2>2. Data("tmp")' \subseteq Plain'
    BY <1>2, <1>3, NameFacts DEF StoreInv, DataOK
  <2>3. session' # None => session' = at'["mp"] /\ tree'[session'].data # {}
    BY <1>0, <1>1, NameFacts DEF StoreInv, DataOK
  <2> QED BY <2>1, <2>2, <2>3 DEF DataOK
<1>6. ASSUME DurableOK PROVE DurableOK'
  <2>1. \A u \in Trees : tree'[u].safe \subseteq tree'[u].data
    <3> SUFFICES ASSUME NEW u \in Trees PROVE tree'[u].safe \subseteq tree'[u].data
      OBVIOUS
    <3>1. tree[u].safe \subseteq tree[u].data
      BY <1>6 DEF DurableOK
    <3>2. CASE u = at[n]
      BY <3>1, <3>2, NameFacts
    <3>3. CASE u # at[n]
      BY <3>1, <3>3
    <3> QED BY <3>2, <3>3
  <2>2. \A b \in Backends : /\ at'[b] = at[b] /\ safeAt'[b] \in {safeAt[b], at[b]}
                            /\ at[b] # None => tree[at[b]].safe \subseteq tree'[at[b]].safe
    <3> SUFFICES ASSUME NEW b \in Backends, at[b] # None PROVE tree[at[b]].safe \subseteq tree'[at[b]].safe
      OBVIOUS
    <3>1. CASE b = n
      BY <3>1
    <3>2. CASE b # n
      BY <1>1, <3>2, NameFacts
    <3> QED BY <3>1, <3>2
  <2>3. \A r \in written' : r \in Plain' \/ \E b \in Backends : Kept(b, r)'
    BY <1>3, <1>6, <2>2, KeptOK
  <2>4. \A m \in Projects : at[m] # None => tree'[at[m]] = tree[at[m]]
    BY <1>0, <1>1, NameFacts
  <2>5. \A m \in Projects : /\ at'[m] # None => tree'[at'[m]].safe = tree'[at'[m]].data
                            /\ safeAt'[m] # None => tree'[safeAt'[m]].safe = tree'[safeAt'[m]].data
    BY <1>4, <1>6, <2>4 DEF DurableOK
  <2>6. Synced("mp")' = Synced("mp") /\ Synced("orig")' = Synced("orig")
    BY <1>4, NameFacts DEF Synced
  <2> QED BY <1>3, <1>6, <2>1, <2>3, <2>5, <2>6 DEF DurableOK
<1> QED BY <1>2, <1>3, <1>5, <1>6 DEF StoreInv, Power

LEMMA StoreIngest ==
    ASSUME TypeInv, StoreInv, UNCHANGED <<load, at, safeAt, session, written>>,
           NEW n \in Backends \cup {"tmp"}, NEW r \in Data("orig"), IngestFile(at[n], r) \/ IngestFileIntoStore(at[n], r)
    PROVE  /\ StoreInv' /\ Plain' = Plain
           /\ \A m \in TreeNames : Data(m)' = IF m = n /\ Exists(n) THEN Data(m) \cup {r} ELSE Data(m)
<1>1. DOMAIN tree = Trees /\ (at[n] # None => at[n] \in Trees) /\ n \in TreeNames
  BY NamesHere, NameFacts
<1>2. \A u \in Trees : u # at[n] => tree'[u] = tree[u]
  BY <1>1 DEF IngestFile, IngestFileIntoStore
<1>3. \A u \in Trees : DOMAIN tree[u] = {"data", "safe"} /\ tree[u] \in [data : SUBSET Records, safe : SUBSET Records]
  BY DEF TypeInv, NamesOK
<1>4. ASSUME at[n] # None
      PROVE  /\ tree'[at[n]].data = tree[at[n]].data \cup {r}
             /\ tree[at[n]].safe \subseteq tree'[at[n]].safe
             /\ tree'[at[n]].safe \subseteq tree[at[n]].safe \cup tree'[at[n]].data
  <2>1. CASE IngestFile(at[n], r)
    BY <1>1, <1>3, <1>4, <2>1 DEF IngestFile
  <2>2. CASE IngestFileIntoStore(at[n], r)
    BY <1>1, <1>3, <1>4, <2>2 DEF IngestFileIntoStore
  <2> QED BY <2>1, <2>2
<1>5. {r} \in SUBSET Plain
  BY DEF Plain
<1> QED BY <1>2, <1>4, <1>5, StoreTree

LEMMA StoreFsync ==
    ASSUME TypeInv, StoreInv, UNCHANGED <<load, at, safeAt, session, written>>, tree' = FsyncTree(at["shadow"])
    PROVE  StoreInv' /\ Plain' = Plain /\ \A m \in TreeNames : Data(m)' = Data(m)
<1>1. DOMAIN tree = Trees /\ (at["shadow"] # None => at["shadow"] \in Trees)
  BY NamesHere, NameFacts
<1>2. \A u \in Trees : u # at["shadow"] => tree'[u] = tree[u]
  BY <1>1 DEF FsyncTree
<1>3. \A u \in Trees : DOMAIN tree[u] = {"data", "safe"}
  BY DEF TypeInv, NamesOK
<1>4. at["shadow"] # None => tree'[at["shadow"]].data = tree[at["shadow"]].data /\ tree'[at["shadow"]].safe = tree[at["shadow"]].data
  BY <1>1, <1>3 DEF FsyncTree
<1>5. CASE ~Power
  <2>1. DataOK /\ \A m \in TreeNames : Data(m)' = Data(m)
    BY <1>1, <1>2, <1>4, NamesHere DEF StoreInv, Data, Exists
  <2>2. Plain' = Plain
    BY <2>1, NameFacts DEF Plain
  <2>3. NothingLost' /\ Data("tmp")' \subseteq Plain'
    BY <2>1, <2>2, NameFacts DEF DataOK, NothingLost
  <2>4. session' # None => session' = at'["mp"] /\ tree'[session'].data # {}
    BY <1>2, <1>4, <2>1 DEF DataOK, TypeInv
  <2> QED BY <1>5, <2>1, <2>2, <2>3, <2>4 DEF StoreInv, DataOK, Power
<1>6. CASE Power
  <2>1. DurableOK
    BY <1>6 DEF StoreInv
  <2>2. at["shadow"] # None => /\ tree'[at["shadow"]].data = tree[at["shadow"]].data \cup {}
                               /\ tree[at["shadow"]].safe \subseteq tree'[at["shadow"]].safe
                               /\ tree'[at["shadow"]].safe \subseteq tree[at["shadow"]].safe \cup tree'[at["shadow"]].data
    BY <1>1, <1>4, <2>1 DEF DurableOK
  <2>3. /\ StoreInv' /\ Plain' = Plain
        /\ \A m \in TreeNames : Data(m)' = IF m = "shadow" /\ Exists("shadow") THEN Data(m) \cup {} ELSE Data(m)
    BY <1>2, <2>2, StoreTree, NameFacts
  <2> QED BY <2>3
<1> QED BY <1>5, <1>6

\* reingest begins a new copy, in a new tree or in the one an earlier copy left.
LEMMA StoreCopyBegins ==
    ASSUME TypeInv, StoreInv, UNCHANGED <<load, safeAt, session, written>>, ~Power,
           NEW u \in Unused \cup ({at["tmp"]} \ {None}),
           at' = [at EXCEPT !["tmp"] = u], tree' = [tree EXCEPT ![u] = NoTree]
    PROVE  StoreInv' /\ Plain' = Plain /\ \A m \in TreeNames : m # "tmp" => Data(m)' = Data(m)
<1>0. "tmp" \in TreeNames /\ "tmp" # "mp" /\ "tmp" # "orig"
  BY NameFacts
<1>1. at'["tmp"] = u /\ \A m \in TreeNames : m # "tmp" => at'[m] = at[m]
  BY NameSet, NameFacts
<1>2. u \in Trees /\ \A m \in TreeNames : m # "tmp" => at[m] # u
  BY <1>0, NamesHere DEF Unused
<1>3. tree'[u] = NoTree /\ \A w \in Trees : w # u => tree'[w] = tree[w]
  BY <1>2, NamesHere
<1>4. Data("tmp")' = {} /\ \A m \in TreeNames : m # "tmp" => Data(m)' = Data(m)
  BY <1>1, <1>2, <1>3, NamesHere DEF Data, Exists, NoTree
<1>5. Plain' = Plain
  BY <1>4, NameFacts DEF Plain
<1>6. NothingLost'
  <2> SUFFICES ASSUME NEW r \in written' PROVE \E n \in TreeNames : r \in Data(n)'
    BY DEF NothingLost
  <2>1. PICK n \in TreeNames : r \in Data(n)
    BY DEF StoreInv, DataOK, NothingLost
  <2>2. CASE n = "tmp"
    <3>1. r \in Plain'
      BY <1>5, <2>1, <2>2 DEF StoreInv, DataOK
    <3> QED BY <3>1, NameFacts DEF Plain
  <2>3. CASE n # "tmp"
    BY <1>4, <2>1, <2>3
  <2> QED BY <2>2, <2>3
<1>7. session' # None => session' = at'["mp"] /\ tree'[session'].data # {}
  BY <1>0, <1>1, <1>2, <1>3, NameFacts DEF StoreInv, DataOK, TypeInv
<1> QED BY <1>4, <1>5, <1>6, <1>7 DEF StoreInv, DataOK, Power

\* One of the backing's names is moved over a name under which there is nothing.
LEMMA StoreSwap ==
    ASSUME TypeInv, StoreInv, UNCHANGED <<load, safeAt, tree, session, written>>, ~Power,
           NEW x \in Dirs, NEW y \in Dirs, x # y, y # "tmp", Data(y) = {}, at' = Renamed(x, y)
    PROVE  StoreInv' /\ Plain' = Plain
<1>0. x \in TreeNames /\ y \in TreeNames /\ x # "mp" /\ y # "mp" /\ x # "orig" /\ y # "orig"
  BY NameFacts
<1>1. at'[x] = None /\ at'[y] = at[x] /\ \A n \in Names \ {x, y} : at'[n] = at[n]
  BY RenameOK
<1>2. \A n \in TreeNames : n # x /\ n # y => at'[n] = at[n]
  BY <1>1, NameFacts
<1>3. Data(x)' = {} /\ Data(y)' = Data(x) /\ \A n \in TreeNames : n # x /\ n # y => Data(n)' = Data(n)
  BY <1>1, <1>2 DEF Data, Exists
<1>4. Plain' = Plain
  BY <1>0, <1>3, NameFacts DEF Plain
<1>5. NothingLost'
  <2> SUFFICES ASSUME NEW r \in written' PROVE \E n \in TreeNames : r \in Data(n)'
    BY DEF NothingLost
  <2>1. PICK n \in TreeNames : r \in Data(n)
    BY DEF StoreInv, DataOK, NothingLost
  <2>2. CASE n = x
    BY <1>0, <1>3, <2>1, <2>2
  <2>3. CASE n # x
    BY <1>3, <2>1, <2>3
  <2> QED BY <2>2, <2>3
<1>6. Data("tmp")' \subseteq Plain'
  BY <1>3, <1>4, NameFacts DEF StoreInv, DataOK
<1>7. session' # None => session' = at'["mp"] /\ tree'[session'].data # {}
  BY <1>0, <1>2, NameFacts DEF StoreInv, DataOK
<1> QED BY <1>4, <1>5, <1>6, <1>7 DEF StoreInv, DataOK, Power

\* What is purged is given up.
LEMMA StorePurge ==
    ASSUME TypeInv, StoreInv, UNCHANGED <<load, safeAt, tree, session>>, ~Power,
           at' = [n \in Names |-> IF n \in Purged THEN None ELSE at[n]],
           written' = written \cap UNION {Data(n) : n \in TreeNames \ Purged}
    PROVE  StoreInv' /\ Plain' = Plain /\ at'["meta"] = at["meta"]
<1>1. Purged \subseteq Backends
  BY NamesHere DEF Purged, Exists
<1>2. \A n \in Names : at'[n] = IF n \in Purged THEN None ELSE at[n]
  OBVIOUS
<1>3. at'["meta"] = at["meta"] /\ \A n \in TreeNames : n \notin Purged => at'[n] = at[n] /\ Data(n)' = Data(n)
  BY <1>1, <1>2, NameFacts DEF Data, Exists
<1>4. "mp" \notin Purged /\ "orig" \notin Purged /\ "tmp" \notin Purged
  BY <1>1, NameFacts
<1>5. Plain' = Plain
  BY <1>3, <1>4, NameFacts DEF Plain
<1>6. NothingLost'
  BY <1>3 DEF NothingLost
<1>7. Data("tmp")' \subseteq Plain'
  BY <1>3, <1>4, <1>5, NameFacts DEF StoreInv, DataOK
<1>8. session' # None => session' = at'["mp"] /\ tree'[session'].data # {}
  BY <1>3, <1>4, NameFacts DEF StoreInv, DataOK
<1> QED BY <1>3, <1>5, <1>6, <1>7, <1>8 DEF StoreInv, DataOK, Power

\* A power loss.
LEMMA StoreLoss ==
    ASSUME TypeInv, StoreInv, PowerLoss PROVE StoreInv'
<1>0. Power /\ DurableOK /\ Power' = Power
  BY DEF PowerLoss, Power, StoreInv
<1>1. PICK dirs \in SUBSET {Projects, Back}, kept \in BOOLEAN :
          /\ at' = [n \in Names |-> IF n \in UNION dirs THEN at[n] ELSE safeAt[n]]
          /\ tree' = IF kept THEN tree ELSE [t \in Trees |-> [tree[t] EXCEPT !.data = tree[t].safe]]
  BY DEF PowerLoss
<1>2. safeAt' = at' /\ session' = None /\ written' = written
  BY DEF PowerLoss
<1>3. \A n \in TreeNames : at'[n] = at[n] \/ at'[n] = safeAt[n]
  BY <1>1, NameFacts
<1>4. \/ at'["mp"] = at["mp"] /\ at'["orig"] = at["orig"]
      \/ at'["mp"] = safeAt["mp"] /\ at'["orig"] = safeAt["orig"]
  <2>1. CASE Projects \in dirs
    BY <1>1, <2>1, NameFacts
  <2>2. CASE Projects \notin dirs
    <3>1. "mp" \notin UNION dirs /\ "orig" \notin UNION dirs
      BY <2>2, NameFacts
    <3> QED BY <1>1, <3>1, NameFacts
  <2> QED BY <2>1, <2>2
<1>5. \A u \in Trees : /\ tree'[u].safe = tree[u].safe /\ tree[u].safe \subseteq tree'[u].data
                       /\ tree'[u].data \in {tree[u].data, tree[u].safe}
  <2> SUFFICES ASSUME NEW u \in Trees
               PROVE  /\ tree'[u].safe = tree[u].safe /\ tree[u].safe \subseteq tree'[u].data
                      /\ tree'[u].data \in {tree[u].data, tree[u].safe}
    OBVIOUS
  <2>1. DOMAIN tree[u] = {"data", "safe"} /\ tree[u].safe \subseteq tree[u].data
    BY <1>0 DEF TypeInv, NamesOK, DurableOK
  <2>2. CASE kept
    BY <1>1, <2>1, <2>2
  <2>3. CASE ~kept
    <3>1. tree'[u] = [tree[u] EXCEPT !.data = tree[u].safe]
      BY <1>1, <2>3
    <3> QED BY <2>1, <3>1
  <2> QED BY <2>2, <2>3
<1>6. \A n \in Projects : /\ at[n] # None => tree'[at[n]].data = tree[at[n]].data /\ tree'[at[n]].safe = tree'[at[n]].data
                          /\ safeAt[n] # None => tree'[safeAt[n]].data = tree[safeAt[n]].data /\ tree'[safeAt[n]].safe = tree'[safeAt[n]].data
  <2> SUFFICES ASSUME NEW n \in Projects
               PROVE  /\ at[n] # None => tree'[at[n]].data = tree[at[n]].data /\ tree'[at[n]].safe = tree'[at[n]].data
                      /\ safeAt[n] # None => tree'[safeAt[n]].data = tree[safeAt[n]].data /\ tree'[safeAt[n]].safe = tree'[safeAt[n]].data
    OBVIOUS
  <2>1. /\ at[n] # None => at[n] \in Trees /\ tree[at[n]].safe = tree[at[n]].data
        /\ safeAt[n] # None => safeAt[n] \in Trees /\ tree[safeAt[n]].safe = tree[safeAt[n]].data
    BY <1>0, NamesHere, NameFacts DEF DurableOK
  <2> QED BY <1>5, <2>1
<1>7. Plain' = Plain
  <2>1. ASSUME at'["mp"] = at["mp"], at'["orig"] = at["orig"] PROVE Plain' = Plain
    BY <1>6, <2>1, NameFacts DEF Plain, Data, Exists
  <2>2. ASSUME at'["mp"] = safeAt["mp"], at'["orig"] = safeAt["orig"] PROVE Plain' = Plain
    <3>1. Plain' = Synced("mp") \cup Synced("orig")
      BY <1>6, <2>2, NameFacts DEF Plain, Data, Exists, Synced
    <3> QED BY <1>0, <3>1 DEF DurableOK
  <2> QED BY <1>4, <2>1, <2>2
<1>8. \A r \in written' : r \in Plain' \/ \E b \in Backends : Kept(b, r)'
  <2> SUFFICES ASSUME NEW r \in written', r \notin Plain' PROVE \E b \in Backends : Kept(b, r)'
    OBVIOUS
  <2>1. PICK b \in Backends : Kept(b, r)
    BY <1>0, <1>2, <1>7 DEF DurableOK
  <2>2. at[b] \in Trees /\ at'[b] = at[b] /\ safeAt'[b] = at[b]
    BY <1>2, <1>3, <2>1, NamesHere, NameFacts DEF Kept
  <2>3. Kept(b, r)'
    BY <1>5, <2>1, <2>2 DEF Kept
  <2> QED BY <2>3
<1>9. NothingLost'
  <2> SUFFICES ASSUME NEW r \in written' PROVE \E n \in TreeNames : r \in Data(n)'
    BY DEF NothingLost
  <2>1. CASE r \in Plain'
    BY <2>1, NameFacts DEF Plain
  <2>2. ASSUME NEW b \in Backends, Kept(b, r)' PROVE r \in Data(b)'
    <3>1. at'[b] \in Trees /\ at'[b] # None /\ r \in tree'[at'[b]].safe
      BY <1>3, <2>2, NamesHere, NameFacts DEF Kept
    <3>2. r \in tree'[at'[b]].data
      BY <1>5, <3>1
    <3> QED BY <3>1, <3>2 DEF Data, Exists
  <2> QED BY <1>8, <2>1, <2>2, NameFacts
<1>10. at'["tmp"] = None /\ at'["bak"] = None
  BY <1>0, <1>3, NameFacts DEF DurableOK
<1>11. DataOK'
  <2>1. Data("tmp")' = {}
    BY <1>10 DEF Data, Exists
  <2> QED BY <1>2, <1>9, <2>1 DEF DataOK
<1>12. DurableOK'
  <2>1. Synced("mp")' \cup Synced("orig")' = Plain'
    BY <1>2 DEF Synced, Plain, Data, Exists
  <2>2. \A n \in Projects : at'[n] # None => tree'[at'[n]].safe = tree'[at'[n]].data
    BY <1>3, <1>6, NameFacts
  <2>3. \A u \in Trees : tree'[u].safe \subseteq tree'[u].data
    BY <1>5
  <2> QED BY <1>2, <1>8, <1>10, <2>1, <2>2, <2>3 DEF DurableOK
<1> QED BY <1>11, <1>12 DEF StoreInv

(***************************************************************************)
(* What a command relies on                                                 *)
(***************************************************************************)

\* One command at a time.
OneCommand == \A b, c \in Commands : b = c

\* A power loss leaves the sidecar there, and the backing it names.
Settled ==
    /\ at["meta"] # None /\ safeAt["meta"] # None
    /\ at[at["meta"].backend] = safeAt[at["meta"].backend]

\* apply before it writes the sidecar, and the steps that lead to a mount.
Early(c) ==
    /\ cmd[c].kind = "apply"
    /\ cmd[c].pc \in {"move", "sync", "mkdir", "backing", "copy", "fsync", "commit", "rollback", "back", "synced", "drop"}
Late(c)  == cmd[c].kind = "maintain" \/ cmd[c].pc \in {"spawn", "await", "mounted"} \/ At(c, "apply", "durable")

\* While apply can still roll back, nothing is mounted and no daemon is about to
\* mount: the new backing holds nothing but copies.
Alone == at["meta"] = None /\ mount = None /\ \A d \in Daemons : daemon[d] \notin {"starting", "open"}

CommandInv(c) ==
    /\ Early(c) => Alone /\ Data(cmd[c].backing) \subseteq Plain
    /\ At(c, "apply", "move") => session = None
    /\ At(c, "reingest", "replace") => at["shadow"] = None
    /\ cmd[c].kind \in {"purge", "reingest"} => cmd[c].kind \in load.commands
    /\ Power /\ Late(c) => at["meta"] # None /\ cmd[c].backing = at["meta"].backend

\* Where a power loss is possible, daemons run, and systemd may start one, only
\* while the sidecar and the backing it names are durable.
QuietOK ==
    /\ Settled \/ (AllOff /\ ~unit.active /\ ~unit.enabled)
    /\ at["meta"] # None => Settled \/ \E k \in Commands : At(k, "apply", "durable")
    /\ \A d \in Daemons : daemon[d] # "off" => serves[d] = at["meta"].backend

LifeInv == TypeInv /\ StoreInv /\ (\A k \in Commands : CommandInv(k)) /\ (Power => QuietOK)

\* What a step of a command has to keep.
StepKept(c) == StoreInv' /\ CommandInv(c)' /\ (Power => QuietOK')

LEMMA PowerFacts ==
    ASSUME Supported(Workloads), TypeInv, Power
    PROVE  "purge" \notin load.commands /\ "reingest" \notin load.commands /\ "kill" \notin load.faults
  BY DEF Supported, TypeInv, Power

LEMMA QuietStep ==
    ASSUME QuietOK,
           Settled => Settled' /\ at'["meta"].backend = at["meta"].backend,
           at'["meta"] # None => Settled' \/ \E k \in Commands : At(k, "apply", "durable")',
           \A d \in Daemons : daemon'[d] # "off" =>
              \/ daemon[d] # "off" /\ serves'[d] = serves[d]
              \/ Settled' /\ serves'[d] = at'["meta"].backend,
           unit'.active \/ unit'.enabled => unit.active \/ unit.enabled \/ Settled'
    PROVE  QuietOK'
<1>1. Settled' \/ (AllOff' /\ ~unit'.active /\ ~unit'.enabled)
  BY DEF QuietOK, AllOff
<1>2. \A d \in Daemons : daemon'[d] # "off" => serves'[d] = at'["meta"].backend
  BY DEF QuietOK, AllOff
<1> QED BY <1>1, <1>2 DEF QuietOK

\* The names of back_root and what a power loss keeps of them stay.
LEMMA SettledSame ==
    ASSUME TypeInv, \A n \in Back : at'[n] = at[n] /\ safeAt'[n] = safeAt[n]
    PROVE  Settled' = Settled /\ at'["meta"] = at["meta"]
<1>1. "meta" \in Back /\ Backends \subseteq Back /\ (at["meta"] = None \/ at["meta"].backend \in Backends)
  BY NamesHere, NameFacts
<1>2. at'["meta"] = at["meta"] /\ safeAt'["meta"] = safeAt["meta"]
  BY <1>1
<1>3. CASE at["meta"] = None
  BY <1>2, <1>3 DEF Settled
<1>4. CASE at["meta"] # None
  <2>1. at'[at["meta"].backend] = at[at["meta"].backend] /\ safeAt'[at["meta"].backend] = safeAt[at["meta"].backend]
    BY <1>1, <1>4
  <2> QED BY <1>2, <2>1 DEF Settled
<1> QED BY <1>2, <1>3, <1>4

LEMMA SettledHere ==
    ASSUME QuietOK, OneCommand, NEW c \in Commands, ~At(c, "apply", "durable")
    PROVE  at["meta"] # None => Settled
  BY DEF QuietOK, OneCommand

\* A command that does nothing, while others act.
LEMMA CommandWaits ==
    ASSUME NEW c \in Commands, CommandInv(c), cmd' = cmd, load' = load, session' \in {session, None},
           at'["shadow"] = at["shadow"], at'["meta"] = at["meta"],
           Early(c) => Alone' /\ Data(cmd[c].backing)' \subseteq Plain'
    PROVE  CommandInv(c)'
<1>1. Early(c)' = Early(c) /\ Late(c)' = Late(c) /\ Power' = Power
  BY DEF Early, Late, At, Power
<1>2. \A kind, pc : At(c, kind, pc)' = At(c, kind, pc)
  BY DEF At
<1> QED BY <1>1, <1>2 DEF CommandInv

LEMMA InitLife == Init => LifeInv
<1> SUFFICES ASSUME Init PROVE LifeInv
  OBVIOUS
<1>0. TypeInv
  BY InitType
<1>1. PICK u \in Trees : at = [n \in Names |-> IF n = "mp" THEN u ELSE None]
  BY DEF Init
<1>2. at["mp"] = u /\ safeAt["mp"] = u /\ \A n \in Names : n # "mp" => at[n] = None /\ safeAt[n] = None
  BY <1>1, NameFacts DEF Init
<1>3. /\ \A w \in Trees : tree[w].data = {} /\ tree[w].safe = {}
      /\ written = {} /\ session = None
  BY DEF Init, NoTree
<1>4. \A n \in TreeNames : Data(n) = {} /\ Synced(n) = {}
  BY <1>2, <1>3, NameFacts DEF Data, Exists, Synced
<1>5. DataOK
  BY <1>3, <1>4, NameFacts DEF DataOK, NothingLost
<1>6. DurableOK
  <2>1. \A n \in Projects : /\ at[n] # None => tree[at[n]].safe = tree[at[n]].data
                            /\ safeAt[n] # None => tree[safeAt[n]].safe = tree[safeAt[n]].data
    BY <1>2, <1>3, NameFacts
  <2> QED BY <1>2, <1>3, <1>4, <2>1, NameFacts DEF DurableOK, Plain
<1>7. QuietOK
  BY <1>2, NameFacts DEF QuietOK, AllOff, Init
<1>8. \A k \in Commands : CommandInv(k)
  BY DEF Init, CommandInv, Early, Late, At, Idle
<1> QED BY <1>0, <1>5, <1>6, <1>7, <1>8 DEF LifeInv, StoreInv

\* Users.
LEMMA UserLife ==
    ASSUME LifeInv,
           \/ \E r \in Records : Write(r) \/ SessionWrite(r) \/ \E d \in Daemons : LateWrite(d, r)
           \/ OpenSession \/ CloseSession
    PROVE  StoreInv' /\ (\A k \in Commands : CommandInv(k)') /\ (Power => QuietOK')
<1>0. TypeInv /\ StoreInv /\ (\A k \in Commands : CommandInv(k)) /\ (Power => QuietOK)
  BY DEF LifeInv
<1>1. UNCHANGED <<load, at, cmd, mount, daemon, serves, unit>> /\ \A n \in Back : safeAt'[n] = safeAt[n]
  <2>1. ASSUME Sync(Projects) PROVE \A n \in Back : safeAt'[n] = safeAt[n]
    BY <2>1, NameFacts DEF Sync, Back
  <2> QED BY <2>1 DEF Write, SessionWrite, LateWrite, OpenSession, CloseSession, daemons, names
<1>2. Power => QuietOK'
  <2>1. Settled' = Settled
    BY <1>0, <1>1, SettledSame
  <2>2. (\E k \in Commands : At(k, "apply", "durable")) => \E k \in Commands : At(k, "apply", "durable")'
    BY <1>1 DEF At
  <2> QED BY <1>0, <1>1, <2>1, <2>2, QuietStep DEF QuietOK
<1>3. ASSUME StoreInv', session' \in {session, None},
             \A k \in Commands : Early(k) => Data(cmd[k].backing)' \subseteq Plain'
      PROVE  \A k \in Commands : CommandInv(k)'
  <2> SUFFICES ASSUME NEW k \in Commands PROVE CommandInv(k)'
    OBVIOUS
  <2>1. Early(k) => Alone'
    BY <1>0, <1>1 DEF CommandInv, Alone
  <2> QED BY <1>0, <1>1, <1>3, <2>1, CommandWaits
<1>4. \A k \in Commands : Early(k) => /\ Alone /\ Data(cmd[k].backing) \subseteq Plain
                                      /\ cmd[k].backing \in Backends /\ cmd[k].backing \in Dirs /\ cmd[k].backing \in TreeNames
  BY <1>0, NameFacts DEF CommandInv, Early, TypeInv, CommandsOK, CommandOK
<1>5. ASSUME NEW r \in Records, Put("mp", r), Exists("mp"), Sync(Projects), UNCHANGED session
      PROVE  StoreInv' /\ (\A k \in Commands : CommandInv(k)')
  <2>1. StoreInv' /\ Plain' = Plain \cup {r} /\ \A n \in Dirs : Data(n)' = Data(n)
    BY <1>0, <1>1, <1>5, PutProject
  <2>2. \A k \in Commands : Early(k) => Data(cmd[k].backing)' \subseteq Plain'
    BY <1>1, <1>4, <2>1
  <2> QED BY <1>3, <1>5, <2>1, <2>2
<1>6. ASSUME NEW r \in Records, NEW b \in Backends, Put(b, r), Exists(b), UNCHANGED <<safeAt, session>>, ~Alone,
             Power => safeAt[b] = at[b]
      PROVE  StoreInv' /\ (\A k \in Commands : CommandInv(k)')
  <2>1. StoreInv'
    BY <1>0, <1>1, <1>6, PutBacking
  <2> QED BY <1>3, <1>4, <1>6, <2>1
<1>7. ASSUME NEW r \in Records, Write(r) PROVE StoreInv' /\ (\A k \in Commands : CommandInv(k)')
  <2>1. CASE /\ Healthy /\ Exists(serves[mount]) /\ Put(serves[mount], r)
             /\ UNCHANGED <<load, at, safeAt, daemons, cmd, session>>
    <3>1. mount \in Daemons /\ daemon[mount] = "serving" /\ mount # None
      BY <1>0, <2>1 DEF Healthy, Health, TypeInv, DaemonsOK
    <3>2. serves[mount] \in Backends
      BY <1>0, <3>1 DEF TypeInv, DaemonsOK
    <3>3. ~Alone
      BY <3>1 DEF Alone
    <3>4. Power => safeAt[serves[mount]] = at[serves[mount]]
      BY <1>0, <3>1 DEF QuietOK, AllOff, Settled
    <3> QED BY <1>6, <2>1, <3>2, <3>3, <3>4
  <2>2. CASE /\ mount = None /\ Exists("mp") /\ Put("mp", r) /\ Sync(Projects) /\ UNCHANGED session
    BY <1>5, <2>2
  <2> QED BY <1>7, <2>1, <2>2 DEF Write
<1>8. ASSUME NEW r \in Records, NEW d \in Daemons, LateWrite(d, r) PROVE StoreInv' /\ (\A k \in Commands : CommandInv(k)')
  <2>1. daemon[d] = "leaving" /\ Exists(serves[d]) /\ at["meta"] = MetaOf(serves[d]) /\ Put(serves[d], r) /\ UNCHANGED <<safeAt, session>>
    BY <1>8 DEF LateWrite
  <2>2. serves[d] \in Backends
    BY <1>0, <2>1 DEF TypeInv, DaemonsOK
  <2>3. ~Alone
    BY <2>1, <2>2, MetaFacts DEF Alone
  <2>4. Power => safeAt[serves[d]] = at[serves[d]]
    BY <1>0, <2>1 DEF QuietOK, AllOff, Settled
  <2> QED BY <1>6, <2>1, <2>2, <2>3, <2>4
<1>9. ASSUME NEW r \in Records, SessionWrite(r) PROVE StoreInv' /\ (\A k \in Commands : CommandInv(k)')
  <2>1. PICK n \in TreeNames : Active(n) /\ Put(n, r)
    BY <1>9 DEF SessionWrite
  <2>2. session # None /\ at[n] = session /\ at["mp"] = session
    BY <1>0, <2>1 DEF Active, StoreInv, DataOK
  <2>3. n = "mp"
    BY <1>0, <2>2, NamesHere, NameFacts
  <2> QED BY <1>5, <1>9, <2>1, <2>2, <2>3 DEF SessionWrite, Exists
<1>10. ASSUME OpenSession PROVE StoreInv' /\ (\A k \in Commands : CommandInv(k)')
  <2>1. /\ UNCHANGED <<names, written>> /\ session' = at["mp"] /\ tree[at["mp"]].data # {}
        /\ \A k \in Commands : cmd[k] = Idle
    BY <1>10 DEF OpenSession, Data, Exists
  <2>2. \A n \in TreeNames : Data(n)' = Data(n) /\ Synced(n)' = Synced(n)
    BY <2>1 DEF names, Data, Exists, Synced
  <2>3. Plain' = Plain /\ \A b \in Backends : \A r : Kept(b, r)' = Kept(b, r)
    BY <2>1, <2>2, NameFacts DEF Plain, names, Kept
  <2>4. DataOK'
    BY <1>0, <2>1, <2>2, <2>3, NameFacts DEF StoreInv, DataOK, NothingLost, names
  <2>5. DurableOK => DurableOK'
    BY <2>1, <2>2, <2>3, NameFacts DEF DurableOK, names
  <2>6. \A k \in Commands : CommandInv(k)'
    BY <1>1, <2>1 DEF CommandInv, Early, Late, At, Idle
  <2> QED BY <1>0, <1>1, <2>4, <2>5, <2>6 DEF StoreInv, Power
<1>11. ASSUME CloseSession PROVE StoreInv' /\ (\A k \in Commands : CommandInv(k)')
  <2>1. UNCHANGED <<names, written>> /\ session' = None
    BY <1>11 DEF CloseSession
  <2>2. \A n \in TreeNames : Data(n)' = Data(n) /\ Synced(n)' = Synced(n)
    BY <2>1 DEF names, Data, Exists, Synced
  <2>3. Plain' = Plain /\ \A b \in Backends : \A r : Kept(b, r)' = Kept(b, r)
    BY <2>1, <2>2, NameFacts DEF Plain, names, Kept
  <2>4. DataOK'
    BY <1>0, <2>1, <2>2, <2>3, NameFacts DEF StoreInv, DataOK, NothingLost
  <2>5. DurableOK => DurableOK'
    BY <2>1, <2>2, <2>3, NameFacts DEF DurableOK, names
  <2>6. \A k \in Commands : Early(k) => Data(cmd[k].backing)' \subseteq Plain'
    BY <1>1, <1>4, <2>2, <2>3
  <2>7. StoreInv'
    BY <1>0, <1>1, <2>4, <2>5 DEF StoreInv, Power
  <2> QED BY <1>3, <2>1, <2>6, <2>7
<1> QED BY <1>2, <1>7, <1>8, <1>9, <1>10, <1>11

\* Daemons.
LEMMA DaemonLife ==
    ASSUME LifeInv, NEW d \in Daemons, Open(d) \/ Serve(d) \/ Leave(d) \/ Die(d) \/ Restart(d)
    PROVE  StoreInv' /\ (\A k \in Commands : CommandInv(k)') /\ (Power => QuietOK')
<1>0. TypeInv /\ StoreInv /\ (\A k \in Commands : CommandInv(k)) /\ (Power => QuietOK)
  BY DEF LifeInv
<1>1. UNCHANGED <<load, at, safeAt, tree, cmd, session, written>>
  BY DEF Open, Serve, Leave, Die, Restart, names, ghosts
<1>2. StoreInv' /\ Plain' = Plain /\ \A n \in TreeNames : Data(n)' = Data(n)
  BY <1>0, <1>1, StoreSame
<1>3. DOMAIN daemon = Daemons /\ DOMAIN serves = Daemons /\ mount \in Daemons \cup {None} /\ unit \in [active : BOOLEAN, enabled : BOOLEAN]
  BY <1>0 DEF TypeInv, DaemonsOK
<1>4. Resolved # None => at["meta"] # None /\ Resolved = at["meta"].backend
  <2>1. ASSUME Resolved # None PROVE at["meta"] # None /\ Resolved = at["meta"].backend
    BY <1>0, <2>1, CommittedMeta, NameFacts DEF Resolved, MountSpec
  <2> QED BY <2>1
<1>5. \A k \in Commands : CommandInv(k)'
  <2> SUFFICES ASSUME NEW k \in Commands PROVE CommandInv(k)'
    OBVIOUS
  <2>1. ASSUME Alone PROVE Alone'
    <3>1. CASE Open(d)
      BY <2>1, <3>1 DEF Open, Alone
    <3>2. CASE Serve(d)
      BY <2>1, <3>2 DEF Serve, Alone
    <3>3. CASE Leave(d)
      BY <1>1, <1>3, <2>1, <3>3 DEF Leave, Alone, Exit
    <3>4. CASE Die(d)
      BY <1>1, <1>3, <2>1, <3>4 DEF Die, Alone, Exit
    <3>5. CASE Restart(d)
      BY <1>4, <2>1, <3>5 DEF Restart, Alone
    <3> QED BY <3>1, <3>2, <3>3, <3>4, <3>5
  <2>2. Early(k) => cmd[k].backing \in TreeNames
    BY <1>0, NameFacts DEF Early, TypeInv, CommandsOK, CommandOK
  <2>3. Early(k) => Alone' /\ Data(cmd[k].backing)' \subseteq Plain'
    BY <1>0, <1>1, <1>2, <2>1, <2>2 DEF CommandInv
  <2> QED BY <1>0, <1>1, <2>3, CommandWaits
<1>6. ASSUME Power PROVE QuietOK'
  <2>0. QuietOK /\ Settled' = Settled /\ at' = at
    BY <1>0, <1>1, <1>6, SettledSame
  <2>1. at'["meta"] # None => Settled' \/ \E k \in Commands : At(k, "apply", "durable")'
    BY <1>1, <2>0 DEF QuietOK, At
  <2>2. /\ \A e \in Daemons : daemon'[e] # "off" =>
              \/ daemon[e] # "off" /\ serves'[e] = serves[e]
              \/ Settled' /\ serves'[e] = at'["meta"].backend
        /\ unit'.active \/ unit'.enabled => unit.active \/ unit.enabled \/ Settled'
    <3>1. CASE Open(d)
      BY <1>3, <3>1 DEF Open, Exit
    <3>2. CASE Serve(d)
      BY <1>3, <3>2 DEF Serve, Exit
    <3>3. CASE Leave(d)
      BY <1>3, <3>3 DEF Leave, Exit
    <3>4. CASE Die(d)
      BY <1>3, <3>4 DEF Die, Exit
    <3>5. CASE Restart(d)
      <4>1. Settled /\ unit' = unit /\ Resolved = at["meta"].backend /\ Start(d, Resolved)
        BY <1>4, <2>0, <3>5 DEF Restart, QuietOK
      <4> QED BY <1>3, <2>0, <4>1 DEF Start
    <3> QED BY <3>1, <3>2, <3>3, <3>4, <3>5
  <2> QED BY <2>0, <2>1, <2>2, QuietStep
<1> QED BY <1>2, <1>5, <1>6

\* A power loss ends every command.
LEMMA LossLife ==
    ASSUME LifeInv, PowerLoss
    PROVE  StoreInv' /\ (\A k \in Commands : CommandInv(k)') /\ (Power => QuietOK')
<1>0. TypeInv /\ StoreInv /\ Power /\ QuietOK
  BY DEF LifeInv, PowerLoss, Power
<1>1. StoreInv'
  BY <1>0, StoreLoss
<1>2. \A k \in Commands : CommandInv(k)'
  BY DEF PowerLoss, CommandInv, Early, Late, At, Idle
<1>3. at'["meta"] \in {at["meta"], safeAt["meta"]} /\ safeAt' = at'
  BY NameFacts DEF PowerLoss
<1>4. Settled' <=> at'["meta"] # None
  BY <1>3 DEF Settled
<1>5. /\ unit.enabled => Settled
      /\ unit'.active = unit.enabled /\ unit'.enabled = unit.enabled
      /\ \A d \in Daemons : daemon'[d] = "off"
  BY <1>0 DEF QuietOK, PowerLoss, TypeInv, DaemonsOK
<1>6. Settled => Settled'
  BY <1>3, <1>4 DEF Settled
<1> QED BY <1>1, <1>2, <1>4, <1>5, <1>6 DEF QuietOK, AllOff

\* The steps commands share.
LEMMA GotoFacts ==
    ASSUME CommandsOK, NEW c \in Commands, NEW pc, Goto(c, pc)
    PROVE  cmd'[c].kind = cmd[c].kind /\ cmd'[c].pc = pc /\ cmd'[c].backing = cmd[c].backing
  BY DEF CommandsOK, CommandOK, Goto, Fields

LEMMA EndFacts ==
    ASSUME CommandsOK, NEW c \in Commands, End(c) PROVE CommandInv(c)'
<1>1. cmd'[c].kind = "none" /\ cmd'[c].pc = "idle"
  BY DEF CommandsOK, End, Idle
<1> QED BY <1>1 DEF CommandInv, Early, Late, At

LEMMA BeginFacts ==
    ASSUME CommandsOK, NEW c \in Commands, NEW kind, NEW pc, NEW b, Begin(c, kind, pc, b)
    PROVE  /\ cmd'[c].kind = kind /\ cmd'[c].pc = pc /\ cmd'[c].backing = b
           /\ \A d \in Daemons : daemon[d] \notin {"starting", "open"}
           /\ cmd[c].kind = "none" /\ cmd[c].pc = "idle"
<1> DEFINE k == [Idle EXCEPT !.kind = kind, !.pc = pc, !.mounted = mount # None, !.backing = b]
<1>1. cmd' = [cmd EXCEPT ![c] = k] /\ cmd[c] = Idle /\ \A d \in Daemons : daemon[d] \notin {"starting", "open"}
  BY DEF Begin
<1>2. k.kind = kind /\ k.pc = pc /\ k.backing = b
  BY DEF Idle
<1>3. cmd[c].kind = "none" /\ cmd[c].pc = "idle"
  BY <1>1 DEF Idle
<1> HIDE DEF k
<1> QED BY <1>1, <1>2, <1>3 DEF CommandsOK

LEMMA LifeFacts ==
    ASSUME LifeInv, NEW c \in Commands
    PROVE  /\ TypeInv /\ StoreInv /\ CommandInv(c) /\ (Power => QuietOK) /\ CommandsOK /\ CommandOK(cmd[c])
           /\ DOMAIN daemon = Daemons /\ DOMAIN serves = Daemons /\ mount \in Daemons \cup {None}
           /\ unit \in [active : BOOLEAN, enabled : BOOLEAN]
  BY DEF LifeInv, TypeInv, DaemonsOK, CommandsOK

\* A step that leaves the names as they are.
LEMMA StillStep ==
    ASSUME LifeInv, OneCommand, NEW c \in Commands, UNCHANGED <<load, at, safeAt, tree, session, written>>,
           ~At(c, "apply", "durable"), CommandInv(c)',
           Power => /\ \A d \in Daemons : daemon'[d] # "off" =>
                          \/ daemon[d] # "off" /\ serves'[d] = serves[d]
                          \/ Settled /\ serves'[d] = at["meta"].backend
                    /\ unit'.active \/ unit'.enabled => unit.active \/ unit.enabled \/ Settled
    PROVE  StepKept(c)
<1>0. TypeInv /\ StoreInv /\ (Power => QuietOK)
  BY LifeFacts
<1>1. StoreInv'
  BY <1>0, StoreSame
<1>2. Settled' = Settled
  BY <1>0, SettledSame
<1>3. ASSUME Power PROVE QuietOK'
  <2>1. at["meta"] # None => Settled
    BY <1>0, <1>3, SettledHere
  <2> QED BY <1>0, <1>2, <1>3, <2>1, QuietStep
<1> QED BY <1>1, <1>3 DEF StepKept

\* A step that leaves the daemons as they are.
LEMMA NamesStep ==
    ASSUME LifeInv, OneCommand, NEW c \in Commands, StoreInv', CommandInv(c)', UNCHANGED <<daemon, serves>>,
           unit'.active \/ unit'.enabled => unit.active \/ unit.enabled,
           Power => /\ Settled => Settled' /\ at'["meta"].backend = at["meta"].backend
                    /\ at'["meta"] # None => Settled' \/ At(c, "apply", "durable")'
    PROVE  StepKept(c)
<1>0. Power => QuietOK
  BY DEF LifeInv
<1>1. ASSUME Power PROVE QuietOK'
  BY <1>0, <1>1, QuietStep
<1> QED BY <1>1 DEF StepKept

\* The same, of a step in the projects' directory.
LEMMA ProjectsStep ==
    ASSUME LifeInv, OneCommand, NEW c \in Commands, StoreInv', CommandInv(c)', UNCHANGED <<daemon, serves>>,
           unit'.active \/ unit'.enabled => unit.active \/ unit.enabled,
           ~At(c, "apply", "durable"), \A n \in Back : at'[n] = at[n] /\ safeAt'[n] = safeAt[n]
    PROVE  StepKept(c)
<1>0. TypeInv /\ (Power => QuietOK)
  BY DEF LifeInv
<1>1. Settled' = Settled /\ at'["meta"] = at["meta"]
  BY <1>0, SettledSame
<1>2. Power => (at["meta"] # None => Settled)
  BY <1>0, SettledHere
<1> QED BY <1>1, <1>2, NamesStep

LEMMA UnmountQuiet ==
    ASSUME DaemonsOK, Unmount
    PROVE  /\ \A d \in Daemons : daemon'[d] # "off" => daemon[d] # "off" /\ serves'[d] = serves[d]
           /\ unit'.active \/ unit'.enabled => unit.active \/ unit.enabled
<1>1. CASE Detach
  BY <1>1 DEF Detach, Healthy, Health
<1>2. CASE Stop
  BY <1>2 DEF Stop, ExecStop, DaemonsOK
<1> QED BY <1>1, <1>2 DEF Unmount

LEMMA UnmountAutoLife ==
    ASSUME LifeInv, OneCommand, NEW c \in Commands, NEW kind, NEW pc, NEW next,
           kind \in {"apply", "restore", "remount"}, pc = "unmount", next \in {"rmdir", "meta", "end"},
           UnmountAuto(c, kind, pc, next)
    PROVE  StepKept(c)
<1>1. CommandsOK /\ DaemonsOK /\ At(c, kind, pc) /\ Unmount /\ UNCHANGED <<load, at, safeAt, tree, session, written>>
  BY DEF LifeInv, TypeInv, UnmountAuto, names, ghosts
<1>2. CommandInv(c)'
  <2>1. CASE End(c)
    BY <1>1, <2>1, EndFacts
  <2>2. CASE Goto(c, next)
    <3>1. cmd'[c].kind = kind /\ cmd'[c].pc = next
      BY <1>1, <2>2, GotoFacts DEF At
    <3> QED BY <3>1 DEF CommandInv, Early, Late, At
  <2> QED BY <2>1, <2>2 DEF UnmountAuto
<1>3. ~At(c, "apply", "durable")
  BY <1>1 DEF At
<1> QED BY <1>1, <1>2, <1>3, UnmountQuiet, StillStep

LEMMA UnmountCleanLife ==
    ASSUME LifeInv, OneCommand, NEW c \in Commands, NEW kind, NEW pc, NEW next,
           kind \in {"maintain", "reingest"}, pc = "unmount", next = "wait",
           UnmountClean(c, kind, pc, next)
    PROVE  StepKept(c)
<1>1. CommandsOK /\ CommandInv(c) /\ DaemonsOK /\ At(c, kind, pc) /\ UNCHANGED <<load, at, safeAt, tree, session, written>>
  BY DEF LifeInv, TypeInv, UnmountClean, names, ghosts
<1>2. CommandInv(c)'
  <2>1. CASE End(c)
    BY <1>1, <2>1, EndFacts
  <2>2. CASE Goto(c, next)
    <3>1. cmd'[c].kind = kind /\ cmd'[c].pc = next /\ cmd'[c].backing = cmd[c].backing /\ cmd[c].kind = kind
      BY <1>1, <2>2, GotoFacts DEF At
    <3> QED BY <1>1, <3>1 DEF CommandInv, Early, Late, At, Power
  <2> QED BY <2>1, <2>2 DEF UnmountClean
<1>3. ~At(c, "apply", "durable")
  BY <1>1 DEF At
<1>4. /\ \A d \in Daemons : daemon'[d] # "off" => daemon[d] # "off" /\ serves'[d] = serves[d]
      /\ unit'.active \/ unit'.enabled => unit.active \/ unit.enabled
  <2>1. Unmount \/ UNCHANGED daemons
    BY DEF UnmountClean
  <2> QED BY <1>1, <2>1, UnmountQuiet DEF daemons
<1> QED BY <1>1, <1>2, <1>3, <1>4, StillStep

LEMMA WaitExitLife ==
    ASSUME LifeInv, OneCommand, Supported(Workloads), NEW c \in Commands, NEW kind, NEW pc, NEW next,
           kind \in {"maintain", "reingest"}, pc = "wait", next \in {"lock", "aside"},
           WaitExit(c, kind, pc, next)
    PROVE  StepKept(c)
<1>1. /\ TypeInv /\ StoreInv /\ CommandsOK /\ CommandOK(cmd[c]) /\ CommandInv(c) /\ At(c, kind, pc)
      /\ UNCHANGED <<load, safeAt, tree, daemons, session, written>>
  BY LifeFacts DEF WaitExit, ghosts
<1>2. cmd[c].kind = kind /\ (kind = "reingest" => ~Power) /\ ~At(c, "apply", "durable")
  BY <1>1, PowerFacts DEF At, CommandInv
<1>3. CASE Goto(c, next) /\ UNCHANGED at
  <2>1. cmd'[c].kind = kind /\ cmd'[c].pc = next /\ cmd'[c].backing = cmd[c].backing
    BY <1>1, <1>2, <1>3, GotoFacts
  <2>2. CommandInv(c)'
    BY <1>1, <1>2, <1>3, <2>1 DEF CommandInv, Early, Late, At, Power
  <2> QED BY <1>1, <1>2, <1>3, <2>2, StillStep DEF daemons
<1>4. CASE GiveUp(c) /\ at' = [at EXCEPT !["tmp"] = IF kind = "reingest" THEN None ELSE at["tmp"]]
  <2>1. cmd'[c].kind = "remount" /\ cmd'[c].pc = "spawn" /\ cmd'[c].backing = cmd[c].backing
    BY <1>1, <1>4 DEF GiveUp, CommandsOK, CommandOK, Fields
  <2>2. DOMAIN at' = Names /\ at'["tmp"] = (IF kind = "reingest" THEN None ELSE at["tmp"]) /\ \A n \in Names \ {"tmp"} : at'[n] = at[n]
    BY <1>1, <1>4, NameSet, NameFacts
  <2>3. at'["meta"] = at["meta"] /\ \A n \in TreeNames : n # "tmp" => at'[n] = at[n]
    BY <2>2, NameFacts
  <2>4. CommandInv(c)'
    BY <1>1, <1>2, <2>1, <2>3 DEF CommandInv, Early, Late, At, Power
  <2>5. CASE kind = "reingest"
    <3>1. Data("tmp") \subseteq Plain
      BY <1>1 DEF StoreInv, DataOK
    <3>2. StoreInv'
      BY <1>1, <2>2, <2>3, <2>5, <3>1, StoreDrop
    <3> QED BY <1>1, <1>2, <2>4, <2>5, <3>2 DEF StepKept
  <2>6. CASE kind = "maintain"
    <3>1. \A n \in Names : at'[n] = at[n]
      BY <2>2, <2>6
    <3>2. StoreInv'
      BY <1>1, <3>1, StoreSame, NameFacts
    <3> QED BY <1>1, <1>2, <2>4, <3>1, <3>2, ProjectsStep, NameFacts DEF daemons, Back
  <2> QED BY <2>5, <2>6
<1> QED BY <1>3, <1>4 DEF WaitExit

LEMMA SpawnLife ==
    ASSUME LifeInv, OneCommand, NEW c \in Commands, Spawn(c) PROVE StepKept(c)
<1>1. /\ TypeInv /\ CommandsOK /\ CommandOK(cmd[c]) /\ CommandInv(c) /\ (Power => QuietOK) /\ cmd[c].pc = "spawn"
      /\ UNCHANGED <<load, at, safeAt, tree, session, written>>
      /\ DOMAIN daemon = Daemons /\ DOMAIN serves = Daemons
  BY LifeFacts DEF Spawn, names, ghosts
<1>2. ~At(c, "apply", "durable")
  BY <1>1 DEF At
<1>3. Power => Settled /\ cmd[c].backing = at["meta"].backend
  BY <1>1, <1>2, SettledHere DEF CommandInv, Late
<1>4. cmd'[c].kind = cmd[c].kind /\ cmd'[c].pc \in {"await", "unmounted"} /\ cmd'[c].backing = cmd[c].backing
  BY <1>1, GotoFacts DEF Spawn, CommandsOK, CommandOK, Fields
<1>5. CommandInv(c)'
  BY <1>1, <1>4 DEF CommandInv, Early, Late, At, Power
<1>6. \A d \in Daemons : daemon'[d] # "off" =>
          \/ daemon[d] # "off" /\ serves'[d] = serves[d]
          \/ serves'[d] = cmd[c].backing
  BY <1>1 DEF Spawn, Start
<1> QED BY <1>1, <1>2, <1>3, <1>5, <1>6, StillStep

LEMMA AwaitLife ==
    ASSUME LifeInv, OneCommand, NEW c \in Commands, Await(c) PROVE StepKept(c)
<1>1. /\ TypeInv /\ CommandsOK /\ CommandOK(cmd[c]) /\ CommandInv(c) /\ cmd[c].pc = "await"
      /\ UNCHANGED <<load, at, safeAt, tree, session, written, unit>>
      /\ DOMAIN daemon = Daemons /\ DOMAIN serves = Daemons
  BY LifeFacts DEF Await, names, ghosts, daemons
<1>2. ~At(c, "apply", "durable")
  BY <1>1 DEF At
<1>4. cmd'[c].kind = cmd[c].kind /\ cmd'[c].pc \in {"mounted", "unmounted"} /\ cmd'[c].backing = cmd[c].backing
  <2>1. Goto(c, "mounted") \/ Goto(c, "unmounted")
    BY DEF Await
  <2> QED BY <1>1, <2>1, GotoFacts
<1>5. CommandInv(c)'
  BY <1>1, <1>4 DEF CommandInv, Early, Late, At, Power
<1>6. \A d \in Daemons : daemon'[d] # "off" => daemon[d] # "off" /\ serves'[d] = serves[d]
  BY <1>1 DEF Await, Exit, daemons
<1> QED BY <1>1, <1>2, <1>5, <1>6, StillStep

LEMMA AfterMountLife ==
    ASSUME LifeInv, OneCommand, NEW c \in Commands, AfterMount(c) PROVE StepKept(c)
<1>1. /\ TypeInv /\ CommandsOK /\ CommandOK(cmd[c]) /\ CommandInv(c) /\ (Power => QuietOK) /\ cmd[c].pc \in {"mounted", "unmounted"}
      /\ UNCHANGED <<load, at, safeAt, tree, session, written, daemon, serves>>
      /\ unit \in [active : BOOLEAN, enabled : BOOLEAN]
  BY LifeFacts DEF AfterMount, names, ghosts
<1>2. ~At(c, "apply", "durable")
  BY <1>1 DEF At
<1>3. \/ Goto(c, "meta") /\ cmd[c].kind = "reingest" /\ UNCHANGED unit
      \/ Goto(c, "unmount") /\ cmd[c].kind = "apply" /\ UNCHANGED unit
      \/ End(c) /\ cmd[c].pc = "mounted" /\ EnableAutostart
      \/ End(c) /\ UNCHANGED unit
  BY DEF AfterMount, At
<1>4. CommandInv(c)'
  <2>1. CASE End(c)
    BY <1>1, <2>1, EndFacts
  <2>2. CASE Goto(c, "meta") /\ cmd[c].kind = "reingest"
    <3>1. cmd'[c].kind = "reingest" /\ cmd'[c].pc = "meta"
      BY <1>1, <2>2, GotoFacts
    <3> QED BY <1>1, <2>2, <3>1 DEF CommandInv, Early, Late, At, Power
  <2>3. CASE Goto(c, "unmount") /\ cmd[c].kind = "apply"
    <3>1. cmd'[c].kind = "apply" /\ cmd'[c].pc = "unmount"
      BY <1>1, <2>3, GotoFacts
    <3> QED BY <1>1, <3>1 DEF CommandInv, Early, Late, At, Power
  <2> QED BY <1>3, <2>1, <2>2, <2>3
<1>5. Power => (unit'.active \/ unit'.enabled => unit.active \/ unit.enabled \/ Settled)
  <2>1. ASSUME Power, cmd[c].pc = "mounted" PROVE Settled
    BY <1>1, <1>2, <2>1, SettledHere DEF CommandInv, Late
  <2> QED BY <1>3, <2>1
<1> QED BY <1>1, <1>2, <1>4, <1>5, StillStep

\* A command that only changes its own step and is not about to mount.
LEMMA OwnStep ==
    ASSUME LifeInv, OneCommand, NEW c \in Commands, UNCHANGED <<load, names, mount, daemon, serves, unit, ghosts>>,
           ~At(c, "apply", "durable"), CommandInv(c)'
    PROVE  StepKept(c)
<1>1. UNCHANGED <<load, at, safeAt, tree, session, written, daemon, serves, unit>>
  BY DEF names, ghosts
<1> QED BY <1>1, StillStep

LEMMA CopyIntoLife ==
    ASSUME LifeInv, OneCommand, Supported(Workloads), NEW c \in Commands, NEW kind, NEW n, NEW next,
           \/ kind = "apply" /\ n = cmd[c].backing /\ next = "fsync"
           \/ kind = "reingest" /\ n = "tmp" /\ next = "unmount",
           CopyInto(c, kind, "copy", n, next)
    PROVE  StepKept(c)
<1>1. /\ TypeInv /\ StoreInv /\ CommandsOK /\ CommandOK(cmd[c]) /\ CommandInv(c) /\ At(c, kind, "copy")
      /\ UNCHANGED <<load, at, safeAt, daemons, session, written>>
  BY LifeFacts DEF CopyInto, ghosts
<1>2. cmd[c].kind = kind /\ cmd[c].pc = "copy" /\ n \in Backends \cup {"tmp"} /\ n \in TreeNames
      /\ (kind = "apply" => n # "tmp" /\ cmd[c].backing \in TreeNames)
  BY <1>1, NameFacts DEF At, CommandOK
<1>3. /\ StoreInv' /\ Plain' = Plain
      /\ \A m \in TreeNames : Data(m)' \subseteq Data(m) \cup Plain
  <2>1. CASE UNCHANGED tree
    BY <1>1, <2>1, StoreSame
  <2>2. ASSUME NEW r \in Data("orig"), IngestFile(at[n], r) \/ IngestFileIntoStore(at[n], r)
        PROVE  StoreInv' /\ Plain' = Plain /\ \A m \in TreeNames : Data(m)' \subseteq Data(m) \cup Plain
    <3>1. /\ StoreInv' /\ Plain' = Plain
          /\ \A m \in TreeNames : Data(m)' = IF m = n /\ Exists(n) THEN Data(m) \cup {r} ELSE Data(m)
      BY <1>1, <1>2, <2>2, StoreIngest
    <3> QED BY <3>1 DEF Plain
  <2>3. UNCHANGED tree \/ \E r \in Data("orig") : IngestFile(at[n], r) \/ IngestFileIntoStore(at[n], r)
    BY DEF CopyInto
  <2> QED BY <2>1, <2>2, <2>3
<1>4. cmd'[c].kind = kind /\ cmd'[c].pc \in {"copy", "fsync", "unmount"} /\ cmd'[c].backing = cmd[c].backing
  <2>1. CASE UNCHANGED cmd
    BY <1>2, <2>1
  <2>2. CASE Goto(c, next)
    BY <1>1, <1>2, <2>2, GotoFacts
  <2> QED BY <2>1, <2>2 DEF CopyInto
<1>5. CommandInv(c)'
  <2>1. CASE kind = "apply"
    <3>1. Alone /\ Data(cmd[c].backing) \subseteq Plain
      BY <1>1, <1>2, <2>1 DEF CommandInv, Early
    <3>2. Alone' /\ Data(cmd[c].backing)' \subseteq Plain'
      BY <1>1, <1>2, <1>3, <1>4, <2>1, <3>1 DEF Alone, daemons, Data, Exists
    <3> QED BY <1>4, <2>1, <3>2 DEF CommandInv, Late, At
  <2>2. CASE kind = "reingest"
    BY <1>1, <1>2, <1>4, <2>2 DEF CommandInv, Early, Late, At, Power
  <2> QED BY <2>1, <2>2
<1>6. ~At(c, "apply", "durable")
  BY <1>2 DEF At
<1> QED BY <1>1, <1>3, <1>5, <1>6, ProjectsStep DEF daemons

\* apply.
LEMMA EarlyStep ==
    ASSUME LifeInv, NEW c \in Commands, Early(c), UNCHANGED <<load, daemons>>, at'["meta"] = None,
           cmd'[c].kind = "apply", cmd'[c].pc # "move", cmd'[c].pc \notin {"durable", "spawn", "await", "mounted"},
           NEW b, cmd'[c].backing = b, Data(b)' \subseteq Plain'
    PROVE  CommandInv(c)'
<1>1. Alone
  BY DEF LifeInv, CommandInv
<1>2. Alone'
  BY <1>1 DEF Alone, daemons
<1>3. Data(cmd[c].backing)' \subseteq Plain'
  BY DEF Data, Exists
<1> QED BY <1>2, <1>3 DEF CommandInv, Late, At

LEMMA BeginApplyLife ==
    ASSUME LifeInv, OneCommand, NEW c \in Commands, BeginApply(c) PROVE StepKept(c)
<1>1. TypeInv /\ StoreInv /\ CommandsOK /\ UNCHANGED <<load, names, daemons, ghosts>>
  BY LifeFacts DEF BeginApply
<1>2. PICK b \in load.backends : CanApply(b) /\ Begin(c, "apply", "move", b)
  BY DEF BeginApply
<1>3. b \in Backends /\ b \in TreeNames
  BY <1>1, WorkloadsAssumption, NameFacts DEF TypeInv
<1>4. /\ cmd'[c].kind = "apply" /\ cmd'[c].pc = "move" /\ cmd'[c].backing = b
      /\ \A d \in Daemons : daemon[d] \notin {"starting", "open"}
      /\ cmd[c].kind = "none"
  BY <1>1, <1>2, BeginFacts
<1>5. Data(b) = {} /\ mount = None /\ at["meta"] = None
  BY <1>2 DEF CanApply, Occupied, Data, Exists
<1>6. session = None
  BY <1>1, <1>2 DEF CanApply, Active, StoreInv, DataOK
<1>7. Alone' /\ Data(b)' = {} /\ session' = None
  BY <1>1, <1>4, <1>5, <1>6 DEF Alone, names, daemons, ghosts, Data, Exists
<1>8. CommandInv(c)'
  BY <1>4, <1>7 DEF CommandInv, Early, Late, At
<1>9. ~At(c, "apply", "durable")
  BY <1>4 DEF At
<1> QED BY <1>1, <1>8, <1>9, OwnStep DEF daemons

LEMMA ApplyMoveLife ==
    ASSUME LifeInv, OneCommand, NEW c \in Commands, ApplyMove(c) PROVE StepKept(c)
<1>1. TypeInv /\ StoreInv /\ CommandsOK /\ CommandInv(c) /\ UNCHANGED <<load, daemons, session, written>>
  BY LifeFacts DEF ApplyMove, ghosts
<1>2. cmd[c].kind = "apply" /\ Early(c)
  BY DEF ApplyMove, At, Early
<1>3. PICK b \in Backends : b = cmd[c].backing
  BY <1>1, <1>2 DEF CommandsOK, CommandOK
<1>30. b \in Dirs /\ b \in TreeNames /\ b \in Names /\ b \in Back
  BY NameFacts
<1>4. at["meta"] = None /\ Data(b) \subseteq Plain /\ ~At(c, "apply", "durable")
  BY <1>1, <1>2, <1>3 DEF CommandInv, Alone, Early, At
<1>5. ASSUME StoreInv', Plain' = Plain, NEW pc \in {"sync", "mkdir", "backing", "copy", "rollback"}, Goto(c, pc),
             Data(b)' = Data(b), at'["meta"] = at["meta"]
      PROVE  StepKept(c)
  <2>1. cmd'[c].kind = "apply" /\ cmd'[c].pc = pc /\ cmd'[c].backing = b
    BY <1>1, <1>2, <1>3, <1>5, GotoFacts
  <2>2. CommandInv(c)'
    BY <1>1, <1>2, <1>4, <1>5, <2>1, EarlyStep
  <2>3. ~Settled
    BY <1>4 DEF Settled
  <2> QED BY <1>1, <1>4, <1>5, <2>2, <2>3, NamesStep DEF daemons
<1>6. \A n \in Dirs : n \in Back
  BY NameFacts
<1>7. CASE /\ At(c, "apply", "move") /\ CanRename("mp", "orig") /\ Rename("mp", "orig") /\ Goto(c, "sync")
           /\ UNCHANGED <<tree, safeAt>>
  <2>1. session = None
    BY <1>1, <1>7 DEF CommandInv
  <2>2. at' = Renamed("mp", "orig") /\ "mp" # "orig" /\ "mp" \in Projects /\ "orig" \in Projects
    BY <1>7 DEF Rename, Projects
  <2>3. StoreInv' /\ Plain' = Plain /\ \A n \in Dirs : Data(n)' = Data(n)
    BY <1>1, <1>7, <2>1, <2>2, StoreRename
  <2>4. at'["meta"] = at["meta"]
    BY <1>1, <1>7, <2>2, RenameOK, NameFacts
  <2> QED BY <1>30, <1>5, <1>7, <2>3, <2>4
<1>8. CASE UNCHANGED at /\ End(c) /\ UNCHANGED <<tree, safeAt>>
  BY <1>1, <1>4, <1>8, EndFacts, StillStep DEF daemons
<1>9. CASE Sync(Projects) /\ Goto(c, "mkdir") /\ UNCHANGED <<at, tree>>
  <2>1. StoreInv' /\ Plain' = Plain /\ \A n \in TreeNames : Data(n)' = Data(n)
    BY <1>1, <1>9, StoreSync
  <2> QED BY <1>30, <1>5, <1>9, <2>1
<1>10. CASE MakeDir("mp") /\ Goto(c, "backing") /\ UNCHANGED safeAt
  <2>1. StoreInv' /\ Plain' = Plain /\ \A n \in TreeNames : Data(n)' = Data(n)
    BY <1>1, <1>10, StoreMakeDir
  <2>2. at'["meta"] = at["meta"]
    BY <1>1, <1>10, MakeDirOK, NameFacts
  <2> QED BY <1>30, <1>5, <1>10, <2>1, <2>2
<1>11. CASE MakeDir(cmd[c].backing) /\ Goto(c, "copy") /\ UNCHANGED safeAt
  <2>1. StoreInv' /\ Plain' = Plain /\ \A n \in TreeNames : Data(n)' = Data(n)
    BY <1>1, <1>3, <1>11, StoreMakeDir
  <2>2. at'["meta"] = at["meta"]
    BY <1>1, <1>3, <1>30, <1>11, MakeDirOK, NameFacts
  <2> QED BY <1>30, <1>5, <1>11, <2>1, <2>2
<1>12. CASE UNCHANGED <<at, tree, safeAt>> /\ (Goto(c, "copy") \/ Goto(c, "rollback"))
  <2>1. StoreInv' /\ Plain' = Plain /\ \A n \in TreeNames : Data(n)' = Data(n)
    BY <1>1, <1>12, StoreSame
  <2> QED BY <1>30, <1>5, <1>12, <2>1
<1> QED BY <1>7, <1>8, <1>9, <1>10, <1>11, <1>12 DEF ApplyMove, names

LEMMA ApplyCommitLife ==
    ASSUME LifeInv, OneCommand, NEW c \in Commands, ApplyCommit(c) PROVE StepKept(c)
<1>1. TypeInv /\ StoreInv /\ CommandsOK /\ CommandInv(c) /\ (Power => QuietOK) /\ UNCHANGED <<load, daemons, session, written>>
  BY LifeFacts DEF ApplyCommit
<1>2. cmd[c].kind = "apply" /\ cmd[c].backing \in Backends /\ cmd[c].backing \in TreeNames
  BY <1>1, NameFacts DEF ApplyCommit, At, CommandsOK, CommandOK
<1>3. ASSUME At(c, "apply", "fsync") \/ At(c, "apply", "commit")
      PROVE  Early(c) /\ Alone /\ Data(cmd[c].backing) \subseteq Plain /\ ~At(c, "apply", "durable") /\ ~Settled
  BY <1>1, <1>3 DEF Early, At, CommandInv, Alone, Settled
<1>4. ASSUME At(c, "apply", "fsync"), Goto(c, "commit"), UNCHANGED at,
             StoreInv', Plain' = Plain, \A n \in TreeNames : Data(n)' = Data(n)
      PROVE  StepKept(c)
  <2>1. cmd'[c].kind = "apply" /\ cmd'[c].pc = "commit" /\ cmd'[c].backing = cmd[c].backing
    BY <1>1, <1>2, <1>4, GotoFacts
  <2>0. PICK b \in Backends : b = cmd[c].backing
    BY <1>2
  <2>2. Data(b)' \subseteq Plain' /\ cmd'[c].backing = b
    BY <1>3, <1>4, <2>0, <2>1, NameFacts
  <2>3. CommandInv(c)'
    BY <1>1, <1>3, <1>4, <2>1, <2>2, EarlyStep DEF Alone
  <2> QED BY <1>1, <1>3, <1>4, <2>3, NamesStep DEF daemons, Alone
<1>5. CASE At(c, "apply", "fsync") /\ Goto(c, "commit") /\ tree' = FsyncTree(at["shadow"]) /\ UNCHANGED <<safeAt, at>>
  <2>1. StoreInv' /\ Plain' = Plain /\ \A n \in TreeNames : Data(n)' = Data(n)
    BY <1>1, <1>5, StoreFsync
  <2> QED BY <1>4, <1>5, <2>1
<1>6. CASE At(c, "apply", "fsync") /\ Goto(c, "commit") /\ Sync(Back) /\ UNCHANGED <<tree, at>>
  <2>1. StoreInv' /\ Plain' = Plain /\ \A n \in TreeNames : Data(n)' = Data(n)
    BY <1>1, <1>6, StoreSync
  <2> QED BY <1>4, <1>6, <2>1
<1>7. CASE At(c, "apply", "commit") /\ End(c) /\ UNCHANGED names
  BY <1>1, <1>3, <1>7, EndFacts, StillStep DEF daemons, names
<1>8. CASE At(c, "apply", "commit") /\ WriteMeta(MetaOf(cmd[c].backing)) /\ Goto(c, "durable") /\ UNCHANGED <<safeAt, tree>>
  <2>0. MetaOf(cmd[c].backing) \in Meta /\ MetaOf(cmd[c].backing).backend = cmd[c].backing /\ MetaOf(cmd[c].backing) # None
    BY <1>2, MetaFacts
  <2>1. at'["meta"] = MetaOf(cmd[c].backing) /\ \A n \in TreeNames : at'[n] = at[n]
    BY <1>1, <1>8, <2>0, MetaOK DEF WriteMeta
  <2>2. StoreInv'
    BY <1>1, <1>8, <2>1, StoreSame
  <2>3. cmd'[c].kind = "apply" /\ cmd'[c].pc = "durable" /\ cmd'[c].backing = cmd[c].backing
    BY <1>1, <1>2, <1>8, GotoFacts
  <2>4. CommandInv(c)'
    BY <2>0, <2>1, <2>3 DEF CommandInv, Early, Late, At
  <2>5. At(c, "apply", "durable")'
    BY <2>3 DEF At
  <2> QED BY <1>1, <1>3, <1>8, <2>2, <2>4, <2>5, NamesStep DEF daemons
<1>9. CASE At(c, "apply", "durable") /\ Sync(Back) /\ Goto(c, "spawn") /\ UNCHANGED <<at, tree>>
  <2>1. StoreInv'
    BY <1>1, <1>9, StoreSync
  <2>2. cmd'[c].kind = "apply" /\ cmd'[c].pc = "spawn" /\ cmd'[c].backing = cmd[c].backing
    BY <1>1, <1>2, <1>9, GotoFacts
  <2>3. CommandInv(c)'
    BY <1>1, <1>9, <2>2 DEF CommandInv, Early, Late, At, Power
  <2>4. ASSUME at["meta"] # None PROVE Settled'
    <3>1. at["meta"].backend \in Back /\ at["meta"].backend \in Names /\ "meta" \in Back /\ "meta" \in Names
      BY <1>1, <2>4, NamesHere, NameFacts
    <3>2. safeAt'["meta"] = at["meta"] /\ safeAt'[at["meta"].backend] = at[at["meta"].backend]
      BY <1>9, <3>1 DEF Sync
    <3> QED BY <1>9, <2>4, <3>2 DEF Settled
  <2> QED BY <1>1, <1>9, <2>1, <2>3, <2>4, NamesStep DEF daemons, Settled
<1> QED BY <1>5, <1>6, <1>7, <1>8, <1>9 DEF ApplyCommit, names

LEMMA RollbackLife ==
    ASSUME LifeInv, OneCommand, NEW c \in Commands, Rollback(c) PROVE StepKept(c)
<1>1. TypeInv /\ StoreInv /\ CommandsOK /\ CommandInv(c) /\ UNCHANGED <<load, tree, daemons, session, written>>
  BY LifeFacts DEF Rollback, ghosts
<1>2. cmd[c].kind = "apply" /\ Early(c)
  BY DEF Rollback, At, Early
<1>3. PICK b \in Backends : b = cmd[c].backing
  BY <1>1, <1>2 DEF CommandsOK, CommandOK
<1>30. b \in Dirs /\ b \in TreeNames /\ b \in Names /\ b \in Back
  BY NameFacts
<1>4. at["meta"] = None /\ ~Settled /\ Data(b) \subseteq Plain /\ ~At(c, "apply", "durable")
  BY <1>1, <1>2, <1>3 DEF CommandInv, Alone, Early, At, Settled
<1>5. ASSUME StoreInv', Plain' = Plain, NEW pc \in {"back", "synced", "drop"}, Goto(c, pc),
             Data(b)' = Data(b), at'["meta"] = at["meta"]
      PROVE  StepKept(c)
  <2>1. cmd'[c].kind = "apply" /\ cmd'[c].pc = pc /\ cmd'[c].backing = b
    BY <1>1, <1>2, <1>3, <1>5, GotoFacts
  <2>2. CommandInv(c)'
    BY <1>1, <1>2, <1>4, <1>5, <2>1, EarlyStep
  <2> QED BY <1>1, <1>4, <1>5, <2>2, NamesStep DEF daemons
<1>6. CASE CanRemove("mp") /\ at' = [at EXCEPT !["mp"] = None] /\ Goto(c, "back") /\ UNCHANGED safeAt
  <2>1. StoreInv' /\ Plain' = Plain /\ \A n \in Dirs : Data(n)' = Data(n)
    BY <1>1, <1>6, StoreRemove
  <2>2. at'["meta"] = at["meta"]
    BY <1>1, <1>6, NameSet, NameFacts
  <2> QED BY <1>30, <1>5, <1>6, <2>1, <2>2
<1>7. CASE CanRename("orig", "mp") /\ at' = Renamed("orig", "mp") /\ Goto(c, "synced") /\ UNCHANGED safeAt
  <2>0. "mp" # "orig" /\ "mp" \in Projects /\ "orig" \in Projects
    BY DEF Projects
  <2>1. StoreInv' /\ Plain' = Plain /\ \A n \in Dirs : Data(n)' = Data(n)
    BY <1>1, <1>7, <2>0, StoreRename
  <2>2. at'["meta"] = at["meta"]
    BY <1>1, <1>7, <2>0, RenameOK, NameFacts
  <2> QED BY <1>30, <1>5, <1>7, <2>1, <2>2
<1>8. CASE UNCHANGED <<at, safeAt>> /\ (Goto(c, "back") \/ Goto(c, "synced"))
  <2>1. StoreInv' /\ Plain' = Plain /\ \A n \in TreeNames : Data(n)' = Data(n)
    BY <1>1, <1>8, StoreSame
  <2> QED BY <1>30, <1>5, <1>8, <2>1
<1>9. CASE Sync(Projects) /\ Goto(c, "drop") /\ UNCHANGED at
  <2>1. StoreInv' /\ Plain' = Plain /\ \A n \in TreeNames : Data(n)' = Data(n)
    BY <1>1, <1>9, StoreSync
  <2> QED BY <1>30, <1>5, <1>9, <2>1
<1>10. CASE at' = [at EXCEPT ![cmd[c].backing] = None, !["meta"] = None] /\ End(c) /\ UNCHANGED safeAt
  <2>1. at'["meta"] = None /\ at'[b] = None /\ \A n \in TreeNames : n # b => at'[n] = at[n]
    BY <1>1, <1>3, <1>30, <1>10, NamesHere, NameFacts
  <2>2. StoreInv'
    BY <1>1, <1>3, <1>4, <1>10, <2>1, StoreDrop
  <2> QED BY <1>1, <1>4, <1>10, <2>1, <2>2, EndFacts, NamesStep DEF daemons
<1> QED BY <1>6, <1>7, <1>8, <1>9, <1>10 DEF Rollback

LEMMA ApplyLife ==
    ASSUME LifeInv, OneCommand, Supported(Workloads), NEW c \in Commands, Apply(c) PROVE StepKept(c)
  BY BeginApplyLife, ApplyMoveLife, CopyIntoLife, ApplyCommitLife, RollbackLife, UnmountAutoLife DEF Apply

\* restore, remount and purge.
LEMMA RestoreLife ==
    ASSUME LifeInv, OneCommand, NEW c \in Commands, Restore(c) PROVE StepKept(c)
<1>1. /\ TypeInv /\ StoreInv /\ CommandsOK /\ CommandInv(c) /\ (Power => QuietOK)
      /\ unit \in [active : BOOLEAN, enabled : BOOLEAN]
  BY LifeFacts
<1>2. CASE BeginRestore(c)
  <2>1. cmd'[c].kind = "restore" /\ cmd'[c].pc = "unmount" /\ cmd[c].kind = "none"
    BY <1>1, <1>2, BeginFacts DEF BeginRestore
  <2>2. CommandInv(c)' /\ ~At(c, "apply", "durable")
    BY <2>1 DEF CommandInv, Early, Late, At
  <2> QED BY <1>2, <2>2, OwnStep DEF BeginRestore, daemons
<1>3. CASE UnmountAuto(c, "restore", "unmount", "rmdir")
  BY <1>3, UnmountAutoLife
<1>4. ASSUME ~BeginRestore(c), ~UnmountAuto(c, "restore", "unmount", "rmdir") PROVE StepKept(c)
  <2>1. /\ UNCHANGED <<load, tree, daemon, serves, session, written>>
        /\ UNCHANGED unit \/ DisableAutostart
    BY <1>4 DEF Restore, ghosts
  <2>2. unit'.active \/ unit'.enabled => unit.active \/ unit.enabled
    BY <1>1, <2>1 DEF DisableAutostart
  <2>3. cmd[c].kind = "restore" /\ (End(c) \/ \E pc \in {"rename", "sync", "meta", "durable"} : Goto(c, pc))
    BY <1>4 DEF Restore, At
  <2>4. CommandInv(c)'
    <3>1. CASE End(c)
      BY <1>1, <3>1, EndFacts
    <3>2. ASSUME NEW pc \in {"rename", "sync", "meta", "durable"}, Goto(c, pc) PROVE CommandInv(c)'
      <4>1. cmd'[c].kind = "restore" /\ cmd'[c].pc = pc
        BY <1>1, <2>3, <3>2, GotoFacts
      <4> QED BY <4>1 DEF CommandInv, Early, Late, At
    <3> QED BY <2>3, <3>1, <3>2
  <2>5. ~At(c, "apply", "durable")
    BY <2>3 DEF At
  <2>6. Power => (at["meta"] # None => Settled)
    BY <1>1, <2>5, SettledHere
  <2>7. CASE UNCHANGED <<at, safeAt>>
    <3>1. StoreInv'
      BY <1>1, <2>1, <2>7, StoreSame
    <3> QED BY <2>1, <2>2, <2>4, <2>5, <2>7, <3>1, ProjectsStep
  <2>8. CASE CanRemove("mp") /\ at' = [at EXCEPT !["mp"] = None] /\ UNCHANGED safeAt
    <3>1. StoreInv'
      BY <1>1, <2>1, <2>8, StoreRemove
    <3>2. \A n \in Back : at'[n] = at[n]
      BY <1>1, <2>8, NameSet, NameFacts DEF Back
    <3> QED BY <2>1, <2>2, <2>4, <2>5, <2>8, <3>1, <3>2, ProjectsStep
  <2>9. CASE CanRename("orig", "mp") /\ Rename("orig", "mp") /\ UNCHANGED safeAt
    <3>0. "mp" # "orig" /\ "mp" \in Projects /\ "orig" \in Projects /\ at' = Renamed("orig", "mp")
      BY <2>9 DEF Projects, Rename
    <3>1. StoreInv'
      BY <1>1, <2>1, <2>9, <3>0, StoreRename
    <3>2. \A n \in Back : at'[n] = at[n]
      BY <1>1, <2>1, <2>9, <3>0, RenameOK, NameFacts DEF Back
    <3> QED BY <2>1, <2>2, <2>4, <2>5, <2>9, <3>1, <3>2, ProjectsStep
  <2>10. CASE Sync(Projects) /\ UNCHANGED at
    <3>1. StoreInv'
      BY <1>1, <2>1, <2>10, StoreSync
    <3>2. \A n \in Back : safeAt'[n] = safeAt[n]
      BY <2>10, NameFacts DEF Sync, Back
    <3> QED BY <2>1, <2>2, <2>4, <2>5, <2>10, <3>1, <3>2, ProjectsStep
  <2>11. CASE Committed /\ at' = [at EXCEPT !["meta"].committed = FALSE] /\ UNCHANGED safeAt
    <3>1. at["meta"] \in Meta /\ at["meta"].backend \in Backends
      BY <1>1, <2>11, CommittedMeta
    <3>2. at' = [at EXCEPT !["meta"] = [at["meta"] EXCEPT !.committed = FALSE]]
      BY <2>11
    <3>3. /\ at'["meta"] = [at["meta"] EXCEPT !.committed = FALSE]
          /\ \A n \in TreeNames : at'[n] = at[n]
      BY <1>1, <2>1, <2>11, <3>1, <3>2, MetaOK, MetaFacts
    <3>4. at'["meta"].backend = at["meta"].backend /\ at'["meta"] # None
      BY <3>1, <3>3, MetaFacts, NameFacts
    <3>5. StoreInv'
      BY <1>1, <2>1, <2>11, <3>3, StoreSame
    <3>6. Settled => Settled'
      BY <2>11, <3>1, <3>3, <3>4, NameFacts DEF Settled
    <3> QED BY <2>1, <2>2, <2>4, <2>6, <3>1, <3>4, <3>5, <3>6, NamesStep, NameFacts
  <2>12. CASE Sync(Back) /\ UNCHANGED at
    <3>1. StoreInv'
      BY <1>1, <2>1, <2>12, StoreSync
    <3>2. Settled => Settled'
      <4> SUFFICES ASSUME Settled PROVE Settled'
        OBVIOUS
      <4>1. at["meta"] # None /\ at["meta"].backend \in Back /\ at["meta"].backend \in Names /\ "meta" \in Back /\ "meta" \in Names
        BY <1>1, NamesHere, NameFacts DEF Settled
      <4>2. safeAt'["meta"] = at["meta"] /\ safeAt'[at["meta"].backend] = at[at["meta"].backend]
        BY <2>12, <4>1 DEF Sync
      <4> QED BY <2>12, <4>1, <4>2 DEF Settled
    <3> QED BY <2>1, <2>2, <2>4, <2>6, <2>12, <3>1, <3>2, NamesStep
  <2> QED BY <1>4, <2>7, <2>8, <2>9, <2>10, <2>11, <2>12 DEF Restore
<1> QED BY <1>2, <1>3, <1>4

LEMMA RemountLife ==
    ASSUME LifeInv, OneCommand, NEW c \in Commands, Remount(c) PROVE StepKept(c)
<1>1. TypeInv /\ StoreInv /\ CommandsOK /\ CommandInv(c)
  BY LifeFacts
<1>2. CASE BeginRemount(c)
  <2>1. cmd'[c].kind = "remount" /\ cmd'[c].pc \in {"unmount", "meta"} /\ cmd[c].kind = "none"
    BY <1>1, <1>2, BeginFacts DEF BeginRemount
  <2>2. CommandInv(c)' /\ ~At(c, "apply", "durable")
    BY <2>1 DEF CommandInv, Early, Late, At
  <2> QED BY <1>2, <2>2, OwnStep DEF BeginRemount, daemons
<1>3. CASE UnmountAuto(c, "remount", "unmount", "meta")
  BY <1>3, UnmountAutoLife
<1>4. CASE At(c, "remount", "meta") /\ UNCHANGED <<load, names, daemons, ghosts>>
           /\ IF Committed
              THEN cmd' = [cmd EXCEPT ![c].pc = "spawn", ![c].backing = MountSpec(at["meta"])]
              ELSE End(c)
  <2>1. ~At(c, "apply", "durable") /\ cmd[c].kind = "remount"
    BY <1>4 DEF At
  <2>2. CASE ~Committed
    BY <1>1, <1>4, <2>1, <2>2, EndFacts, OwnStep DEF daemons
  <2>3. CASE Committed
    <3>1. at["meta"] # None /\ MountSpec(at["meta"]) = at["meta"].backend
      BY <1>1, <2>3, CommittedMeta, NameFacts DEF MountSpec
    <3>2. cmd'[c].kind = "remount" /\ cmd'[c].pc = "spawn" /\ cmd'[c].backing = at["meta"].backend
      BY <1>1, <1>4, <2>1, <2>3, <3>1 DEF CommandsOK, CommandOK, Fields
    <3>3. CommandInv(c)'
      BY <1>4, <3>1, <3>2 DEF CommandInv, Early, Late, At, names
    <3> QED BY <1>4, <2>1, <3>3, OwnStep DEF daemons
  <2> QED BY <2>2, <2>3
<1> QED BY <1>2, <1>3, <1>4 DEF Remount

LEMMA PurgeLife ==
    ASSUME LifeInv, OneCommand, Supported(Workloads), NEW c \in Commands, Purge(c) PROVE StepKept(c)
<1>1. TypeInv /\ StoreInv /\ CommandsOK /\ CommandInv(c) /\ UNCHANGED <<load, safeAt, tree, daemons, session>>
  BY LifeFacts DEF Purge, ghosts
<1>2. ~Power
  BY <1>1, PowerFacts DEF Purge, Run, At, CommandInv
<1>3. CASE /\ Run("purge") /\ Begin(c, "purge", "meta", None)
           /\ at' = [n \in Names |-> IF n \in Purged THEN None ELSE at[n]]
           /\ written' = written \cap UNION {Data(n) : n \in TreeNames \ Purged}
  <2>1. cmd'[c].kind = "purge" /\ cmd'[c].pc = "meta"
    BY <1>1, <1>3, BeginFacts
  <2>2. CommandInv(c)'
    BY <1>1, <1>2, <1>3, <2>1 DEF CommandInv, Early, Late, At, Run, Power
  <2>3. StoreInv'
    BY <1>1, <1>2, <1>3, StorePurge
  <2> QED BY <1>2, <2>2, <2>3 DEF StepKept
<1>4. CASE at' = [at EXCEPT !["meta"] = None] /\ End(c) /\ UNCHANGED ghosts
  <2>1. \A n \in TreeNames : at'[n] = at[n]
    BY <1>1, <1>4, NamesHere, NameFacts
  <2>2. StoreInv'
    BY <1>1, <1>4, <2>1, StoreSame DEF ghosts
  <2> QED BY <1>1, <1>2, <1>4, <2>2, EndFacts DEF StepKept
<1> QED BY <1>3, <1>4 DEF Purge

LEMMA UmountLife ==
    ASSUME LifeInv, OneCommand, NEW c \in Commands, Umount(c) \/ InstallAutostart(c) PROVE StepKept(c)
<1>1. TypeInv /\ CommandsOK /\ DaemonsOK /\ CommandInv(c) /\ (Power => QuietOK) /\ unit \in [active : BOOLEAN, enabled : BOOLEAN]
  BY LifeFacts DEF LifeInv, TypeInv
<1>2. UNCHANGED <<load, at, safeAt, tree, session, written, cmd>> /\ cmd[c].kind = "none" /\ cmd[c].pc = "idle"
  BY DEF Umount, InstallAutostart, names, ghosts, Idle
<1>3. CommandInv(c)' /\ ~At(c, "apply", "durable")
  BY <1>2 DEF CommandInv, Early, Late, At
<1>4. CASE Umount(c)
  <2>1. Detach
    BY <1>4 DEF Umount
  <2>2. /\ \A d \in Daemons : daemon'[d] # "off" => daemon[d] # "off" /\ serves'[d] = serves[d]
        /\ UNCHANGED unit
    BY <2>1 DEF Detach, Healthy, Health
  <2> QED BY <1>2, <1>3, <2>2, StillStep
<1>5. CASE InstallAutostart(c)
  <2>1. Power => Settled
    BY <1>1, <1>3, <1>5, SettledHere, CommittedMeta, NameFacts DEF InstallAutostart
  <2> QED BY <1>2, <1>3, <1>5, <2>1, StillStep DEF InstallAutostart
<1> QED BY <1>4, <1>5

\* compact and seal.
LEMMA MaintainLife ==
    ASSUME LifeInv, OneCommand, Supported(Workloads), NEW c \in Commands, Maintain(c) PROVE StepKept(c)
<1>1. TypeInv /\ StoreInv /\ CommandsOK /\ CommandInv(c)
  BY LifeFacts
<1>2. CASE /\ BeginCompact(c) \/ BeginSeal(c) \/ OfflineCompact(c) \/ OfflineSeal(c)
           /\ UNCHANGED <<load, names, daemons, ghosts>>
  <2>1. ASSUME NEW pc \in {"lock", "unmount"}, NEW b, Begin(c, "maintain", pc, b),
               at["meta"] # None, b = at["meta"].backend
        PROVE  CommandInv(c)' /\ ~At(c, "apply", "durable")
    <3>1. cmd'[c].kind = "maintain" /\ cmd'[c].pc = pc /\ cmd'[c].backing = b /\ cmd[c].kind = "none"
      BY <1>1, <2>1, BeginFacts
    <3> QED BY <1>2, <2>1, <3>1 DEF CommandInv, Early, Late, At, names
  <2>2. ASSUME NEW b, Begin(c, "offline", "lock", b)
        PROVE  CommandInv(c)' /\ ~At(c, "apply", "durable")
    <3>1. cmd'[c].kind = "offline" /\ cmd'[c].pc = "lock" /\ cmd[c].kind = "none"
      BY <1>1, <2>2, BeginFacts
    <3> QED BY <3>1 DEF CommandInv, Early, Late, At
  <2>3. BeginCompact(c) => CommandInv(c)' /\ ~At(c, "apply", "durable")
    BY <1>1, <2>1, CommittedMeta, NameFacts DEF BeginCompact
  <2>4. BeginSeal(c) => CommandInv(c)' /\ ~At(c, "apply", "durable")
    BY <2>1, MetaFacts, NameFacts DEF BeginSeal
  <2>5. OfflineCompact(c) \/ OfflineSeal(c) => CommandInv(c)' /\ ~At(c, "apply", "durable")
    BY <2>2 DEF OfflineCompact, OfflineSeal
  <2> QED BY <1>2, <2>3, <2>4, <2>5, OwnStep DEF daemons
<1>3. CASE UnmountClean(c, "maintain", "unmount", "wait")
  BY <1>3, UnmountCleanLife
<1>4. CASE WaitExit(c, "maintain", "wait", "lock")
  BY <1>4, WaitExitLife
<1>5. ASSUME cmd[c].kind \in {"maintain", "offline"}, cmd[c].pc \notin {"spawn", "await", "mounted"},
             UNCHANGED <<load, names, mount, daemon, serves, unit, ghosts>>,
             End(c) \/ \E pc \in {"rewrite", "after", "spawn"} : Goto(c, pc) /\ (pc = "spawn" => cmd[c].kind = "maintain")
      PROVE  StepKept(c)
  <2>1. CommandInv(c)'
    <3>1. CASE End(c)
      BY <1>1, <3>1, EndFacts
    <3>2. ASSUME NEW pc \in {"rewrite", "after", "spawn"}, Goto(c, pc), pc = "spawn" => cmd[c].kind = "maintain"
          PROVE  CommandInv(c)'
      <4>1. cmd'[c].kind = cmd[c].kind /\ cmd'[c].pc = pc /\ cmd'[c].backing = cmd[c].backing
        BY <1>1, <3>2, GotoFacts
      <4> QED BY <1>1, <1>5, <3>2, <4>1 DEF CommandInv, Early, Late, At, Power, names
    <3> QED BY <1>5, <3>1, <3>2
  <2>2. ~At(c, "apply", "durable")
    BY <1>5 DEF At
  <2> QED BY <1>5, <2>1, <2>2, OwnStep
<1>6. CASE Lock(c)
  BY <1>5, <1>6 DEF Lock
<1>7. CASE /\ cmd[c].kind \in {"maintain", "offline"} /\ cmd[c].pc = "rewrite"
           /\ Goto(c, "after")
           /\ UNCHANGED <<load, names, mount, daemon, serves, pid, unit, ghosts>>
  BY <1>5, <1>7
<1>8. CASE /\ cmd[c].kind \in {"maintain", "offline"} /\ cmd[c].pc = "after"
           /\ IF cmd[c].kind = "maintain" /\ cmd[c].mounted THEN Goto(c, "spawn") ELSE End(c)
           /\ UNCHANGED <<load, names, daemons, ghosts>>
  BY <1>5, <1>8 DEF daemons
<1> QED BY <1>2, <1>3, <1>4, <1>6, <1>7, <1>8 DEF Maintain

\* reingest.
LEMMA SwapLife ==
    ASSUME LifeInv, OneCommand, Supported(Workloads), NEW c \in Commands,
           Swap(c), UNCHANGED <<load, tree, daemons, session, written>>
    PROVE  StepKept(c)
<1>1. TypeInv /\ StoreInv /\ CommandsOK /\ CommandInv(c)
  BY LifeFacts
<1>2. cmd[c].kind = "reingest" /\ ~Power
  <2>1. cmd[c].kind = "reingest"
    BY DEF Swap, At
  <2> QED BY <1>1, <2>1, PowerFacts DEF CommandInv
<1>3. ASSUME NEW pc \in {"replace", "sync", "spawn", "durable"}, Goto(c, pc), pc = "replace" => at'["shadow"] = None
      PROVE  CommandInv(c)'
  <2>1. cmd'[c].kind = "reingest" /\ cmd'[c].pc = pc
    BY <1>1, <1>2, <1>3, GotoFacts
  <2> QED BY <1>1, <1>2, <1>3, <2>1 DEF CommandInv, Early, Late, At, Power
<1>4. "shadow" \in Dirs /\ "bak" \in Dirs /\ "tmp" \in Dirs /\ "shadow" # "bak" /\ "shadow" # "tmp" /\ "bak" # "tmp"
  BY NameFacts
<1>5. CASE CanRename("shadow", "bak") /\ Rename("shadow", "bak") /\ Goto(c, "replace") /\ UNCHANGED safeAt
  <2>1. at' = Renamed("shadow", "bak") /\ Data("bak") = {}
    BY <1>5 DEF Rename, CanRename
  <2>2. StoreInv' /\ at'["shadow"] = None
    BY <1>1, <1>2, <1>4, <1>5, <2>1, StoreSwap, RenameOK
  <2> QED BY <1>2, <1>3, <1>5, <2>2 DEF StepKept
<1>6. CASE UNCHANGED at /\ End(c) /\ UNCHANGED safeAt
  <2>1. StoreInv'
    BY <1>1, <1>6, StoreSame
  <2> QED BY <1>1, <1>2, <1>6, <2>1, EndFacts DEF StepKept
<1>7. CASE Rename("tmp", "shadow") /\ Goto(c, "sync") /\ UNCHANGED safeAt
  <2>1. at' = Renamed("tmp", "shadow") /\ Data("shadow") = {}
    BY <1>7 DEF Rename, CanRename
  <2>2. StoreInv'
    BY <1>1, <1>2, <1>4, <1>7, <2>1, StoreSwap
  <2> QED BY <1>2, <1>3, <1>7, <2>2 DEF StepKept
<1>8. CASE At(c, "reingest", "replace") /\ at' = Renamed("bak", "shadow") /\ GiveUp(c) /\ UNCHANGED safeAt
  <2>1. Data("shadow") = {}
    BY <1>1, <1>8 DEF CommandInv, Data, Exists
  <2>2. StoreInv'
    BY <1>1, <1>2, <1>4, <1>8, <2>1, StoreSwap
  <2>3. cmd'[c].kind = "remount" /\ cmd'[c].pc = "spawn"
    BY <1>1, <1>8 DEF GiveUp, CommandsOK, CommandOK, Fields
  <2>4. CommandInv(c)'
    BY <1>2, <2>3 DEF CommandInv, Early, Late, At, Power
  <2> QED BY <1>2, <2>2, <2>4 DEF StepKept
<1>9. CASE Sync(Back) /\ (Goto(c, "spawn") \/ End(c)) /\ UNCHANGED at
  <2>1. StoreInv'
    BY <1>1, <1>9, StoreSync
  <2> QED BY <1>1, <1>2, <1>3, <1>9, <2>1, EndFacts DEF StepKept
<1>10. CASE WriteMeta(MetaOf("shadow")) /\ Goto(c, "durable") /\ UNCHANGED safeAt
  <2>1. \A n \in TreeNames : at'[n] = at[n]
    BY <1>1, <1>10, NamesHere, NameFacts DEF WriteMeta
  <2>2. StoreInv'
    BY <1>1, <1>10, <2>1, StoreSame
  <2> QED BY <1>2, <1>3, <1>10, <2>2 DEF StepKept
<1> QED BY <1>5, <1>6, <1>7, <1>8, <1>9, <1>10 DEF Swap, Rename

LEMMA ReingestLife ==
    ASSUME LifeInv, OneCommand, Supported(Workloads), NEW c \in Commands, Reingest(c) PROVE StepKept(c)
<1>1. TypeInv /\ StoreInv /\ CommandsOK /\ CommandInv(c)
  BY LifeFacts
<1>2. CASE BeginReingest(c)
  <2>1. /\ cmd'[c].kind = "reingest" /\ cmd'[c].pc = "mkdir" /\ cmd[c].kind = "none"
        /\ "reingest" \in load.commands /\ UNCHANGED load
    BY <1>1, <1>2, BeginFacts DEF BeginReingest, Run
  <2>2. CommandInv(c)' /\ ~At(c, "apply", "durable")
    BY <2>1 DEF CommandInv, Early, Late, At
  <2> QED BY <1>2, <2>2, OwnStep DEF BeginReingest, daemons
<1>3. ASSUME At(c, "reingest", "mkdir") \/ At(c, "reingest", "copy")
      PROVE  cmd[c].kind = "reingest" /\ ~Power
  <2>1. cmd[c].kind = "reingest"
    BY <1>3 DEF At
  <2> QED BY <1>1, <2>1, PowerFacts DEF CommandInv
<1>4. CASE /\ At(c, "reingest", "mkdir")
           /\ \E t \in Unused \cup ({at["tmp"]} \ {None}) :
                 at' = [at EXCEPT !["tmp"] = t] /\ tree' = [tree EXCEPT ![t] = NoTree]
           /\ Goto(c, "copy")
           /\ UNCHANGED <<load, safeAt, daemons, ghosts>>
  <2>1. StoreInv'
    BY <1>1, <1>3, <1>4, StoreCopyBegins DEF ghosts
  <2>2. cmd'[c].kind = "reingest" /\ cmd'[c].pc = "copy"
    BY <1>1, <1>3, <1>4, GotoFacts
  <2>3. CommandInv(c)'
    BY <1>1, <1>3, <1>4, <2>2 DEF CommandInv, Early, Late, At, Power
  <2> QED BY <1>3, <1>4, <2>1, <2>3 DEF StepKept
<1>5. CASE CopyInto(c, "reingest", "copy", "tmp", "unmount")
  BY <1>5, CopyIntoLife
<1>6. CASE /\ At(c, "reingest", "copy")
           /\ at' = [at EXCEPT !["tmp"] = None]
           /\ End(c)
           /\ UNCHANGED <<load, safeAt, tree, daemons, ghosts>>
  <2>1. at'["tmp"] = None /\ \A n \in TreeNames : n # "tmp" => at'[n] = at[n]
    BY <1>1, <1>6, NameSet, NameFacts
  <2>2. Data("tmp") \subseteq Plain
    BY <1>1 DEF StoreInv, DataOK
  <2>3. StoreInv'
    BY <1>1, <1>6, <2>1, <2>2, StoreDrop DEF ghosts
  <2> QED BY <1>1, <1>3, <1>6, <2>3, EndFacts DEF StepKept
<1>7. CASE UnmountClean(c, "reingest", "unmount", "wait")
  BY <1>7, UnmountCleanLife
<1>8. CASE WaitExit(c, "reingest", "wait", "aside")
  BY <1>8, WaitExitLife
<1>9. CASE Swap(c) /\ UNCHANGED <<load, tree, daemons, session, written>>
  BY <1>9, SwapLife
<1> QED BY <1>2, <1>4, <1>5, <1>6, <1>7, <1>8, <1>9 DEF Reingest

LEMMA KillLife ==
    ASSUME LifeInv, OneCommand, Supported(Workloads), NEW c \in Commands, Kill(c) PROVE StepKept(c)
<1>1. TypeInv /\ StoreInv /\ CommandsOK /\ "kill" \in load.faults
      /\ UNCHANGED <<load, at, safeAt, tree, session, written>> /\ End(c)
  BY LifeFacts DEF Kill, names, ghosts
<1> QED BY <1>1, StoreSame, EndFacts, PowerFacts DEF StepKept

LEMMA LoadStays == ASSUME [Next]_vars PROVE UNCHANGED load
<1>1. CASE UNCHANGED vars
  BY <1>1 DEF vars
<1>2. ASSUME NEW c \in Commands,
             \/ Apply(c) \/ Restore(c) \/ Remount(c) \/ Purge(c) \/ Maintain(c) \/ Reingest(c)
             \/ Umount(c) \/ InstallAutostart(c)
             \/ Spawn(c) \/ Await(c) \/ AfterMount(c) \/ Kill(c)
      PROVE  UNCHANGED load
  <2>1. Apply(c) => UNCHANGED load
    BY DEF Apply, BeginApply, ApplyMove, CopyInto, ApplyCommit, Rollback, UnmountAuto
  <2>2. Restore(c) => UNCHANGED load
    BY DEF Restore, BeginRestore, UnmountAuto
  <2>3. Remount(c) => UNCHANGED load
    BY DEF Remount, BeginRemount, UnmountAuto
  <2>4. Maintain(c) => UNCHANGED load
    BY DEF Maintain, UnmountClean, WaitExit, Lock
  <2>5. Reingest(c) => UNCHANGED load
    BY DEF Reingest, BeginReingest, CopyInto, UnmountClean, WaitExit
  <2>6. Purge(c) \/ Umount(c) \/ InstallAutostart(c) \/ Spawn(c) \/ Await(c) \/ AfterMount(c) \/ Kill(c) => UNCHANGED load
    BY DEF Purge, Umount, InstallAutostart, Spawn, Await, AfterMount, Kill
  <2> QED BY <1>2, <2>1, <2>2, <2>3, <2>4, <2>5, <2>6
<1>3. ASSUME NEW r \in Records, Write(r) \/ SessionWrite(r) \/ \E d \in Daemons : LateWrite(d, r) PROVE UNCHANGED load
  BY <1>3 DEF Write, SessionWrite, LateWrite
<1>4. ASSUME NEW d \in Daemons, Open(d) \/ Serve(d) \/ Leave(d) \/ Die(d) \/ Restart(d) PROVE UNCHANGED load
  BY <1>4 DEF Open, Serve, Leave, Die, Restart
<1>5. OpenSession \/ CloseSession \/ PowerLoss => UNCHANGED load
  BY DEF OpenSession, CloseSession, PowerLoss
<1> QED BY <1>1, <1>2, <1>3, <1>4, <1>5 DEF Next

LEMMA NextLife ==
    ASSUME LifeInv, OneCommand, Supported(Workloads), [Next]_vars PROVE LifeInv'
<1>1. TypeInv'
  BY NextType DEF LifeInv
<1>2. Power' = Power
  BY LoadStays DEF Power
<1>3. ASSUME NEW c \in Commands, StepKept(c) PROVE LifeInv'
  BY <1>1, <1>2, <1>3 DEF StepKept, LifeInv, OneCommand
<1>4. ASSUME StoreInv', \A k \in Commands : CommandInv(k)', Power => QuietOK' PROVE LifeInv'
  BY <1>1, <1>2, <1>4 DEF LifeInv
<1>5. CASE \/ \E r \in Records : Write(r) \/ SessionWrite(r) \/ \E d \in Daemons : LateWrite(d, r)
           \/ OpenSession \/ CloseSession
  BY <1>4, <1>5, UserLife
<1>6. CASE \E d \in Daemons : Open(d) \/ Serve(d) \/ Leave(d) \/ Die(d) \/ Restart(d)
  BY <1>4, <1>6, DaemonLife
<1>7. CASE PowerLoss
  BY <1>4, <1>7, LossLife
<1>8. ASSUME NEW c \in Commands,
             \/ Apply(c) \/ Restore(c) \/ Remount(c) \/ Purge(c) \/ Maintain(c) \/ Reingest(c)
             \/ Umount(c) \/ InstallAutostart(c)
             \/ Spawn(c) \/ Await(c) \/ AfterMount(c) \/ Kill(c)
      PROVE  LifeInv'
  BY <1>3, <1>8, ApplyLife, RestoreLife, RemountLife, PurgeLife, MaintainLife, ReingestLife, UmountLife,
     SpawnLife, AwaitLife, AfterMountLife, KillLife
<1>9. CASE UNCHANGED vars
  <2>1. UNCHANGED <<load, at, safeAt, tree, cmd, session, written, mount, daemon, serves, unit>>
    BY <1>9 DEF vars, names, daemons, ghosts
  <2>2. StoreInv' /\ Plain' = Plain /\ \A n \in TreeNames : Data(n)' = Data(n)
    BY <2>1, StoreSame DEF LifeInv
  <2>3. \A k \in Commands : CommandInv(k)'
    <3> SUFFICES ASSUME NEW k \in Commands PROVE CommandInv(k)'
      OBVIOUS
    <3>1. Early(k) => Alone' /\ Data(cmd[k].backing)' \subseteq Plain'
      BY <2>1, <2>2 DEF LifeInv, CommandInv, Alone, Plain, Data, Exists
    <3> QED BY <2>1, <3>1, CommandWaits DEF LifeInv
  <2>4. Power => QuietOK'
    BY <2>1 DEF LifeInv, QuietOK, Settled, AllOff, At
  <2> QED BY <1>4, <2>2, <2>3, <2>4
<1> QED BY <1>5, <1>6, <1>7, <1>8, <1>9 DEF Next

\* Whatever a user wrote and did not purge is under one of the project's names at
\* every step of every command, whoever is killed or restarted, after every crash
\* and power loss: while one command runs at a time, in a supported workload.
THEOREM NothingIsLost ==
    ASSUME OneCommand, Supported(Workloads) PROVE Spec => []NothingLost
<1>1. Init => LifeInv
  BY InitLife
<1>2. LifeInv /\ [Next]_vars => LifeInv'
  BY NextLife
<1>3. LifeInv => NothingLost
  BY DEF LifeInv, StoreInv, DataOK
<1> QED BY <1>1, <1>2, <1>3, PTL DEF Spec

(***************************************************************************)
(* What the mount shows                                                     *)
(***************************************************************************)

\* Nobody replaces the backing where systemd may start a daemon meanwhile.
Attended == "reingest" \in load.commands => ~load.systemd

\* What a power loss leaves of the tree a name leads to.
Safe(n) == IF Exists(n) THEN tree[at[n]].safe ELSE {}

\* The daemons that serve the project or are about to.
Live == {d \in Daemons : daemon[d] \in {"starting", "open", "serving"}}

\* A live daemon has the backing the sidecar names, or one that is not there, and
\* what the sidecar names holds what users are owed.
ShowsOK ==
    /\ \A d \in Daemons : daemon[d] = "serving" => mount = d
    /\ \A d \in Daemons : daemon[d] \in {"open", "serving"} => Exists(serves[d])
    /\ at["meta"] # None /\ Exists(at["meta"].backend) => shown \subseteq Data(at["meta"].backend)
    /\ \A d \in Live : Exists(serves[d]) => at["meta"] # None /\ serves[d] = at["meta"].backend
    /\ unit.active \/ unit.enabled => load.systemd

\* The steps at which a command works on the backing the sidecar names.
Bound(c) ==
    \/ cmd[c].kind \in {"maintain", "reingest"}
    \/ cmd[c].pc \in {"spawn", "await", "mounted"}
    \/ At(c, "apply", "durable")

\* What a command has verified, or synced, before it goes on: apply and reingest
\* that all of orig is in the new tree, apply before it writes the sidecar also that
\* a power loss will not take it back.
CommandNames(c) ==
    /\ cmd[c].kind = "reingest" => cmd[c].backing = "shadow"
    /\ Bound(c) => at["meta"] # None /\ cmd[c].backing = at["meta"].backend
    /\ cmd[c].kind = "apply" /\ cmd[c].pc \in {"fsync", "commit"} => Data("orig") \subseteq Data(cmd[c].backing)
    /\ Early(c) /\ cmd[c].backing = "container" => Data("container") \subseteq Safe("container")
    /\ At(c, "apply", "commit") => Data("orig") \subseteq Safe(cmd[c].backing)
    /\ At(c, "apply", "durable") => shown \subseteq Safe(cmd[c].backing) /\ (Power => safeAt["meta"] = None)
    /\ cmd[c].kind = "reingest" /\ cmd[c].pc \in {"unmount", "wait", "aside", "replace"} => Data("orig") \subseteq Data("tmp")
    /\ At(c, "reingest", "replace") => shown \subseteq Data("bak")
    /\ At(c, "purge", "meta") => (at["meta"] # None => ~Exists(at["meta"].backend))

\* While reingest exchanges the backing, and after a purge, no daemon serves one.
CommandDaemons(c) ==
    /\ At(c, "purge", "meta") => \A d \in Live : ~Exists(serves[d])
    /\ cmd[c].kind = "reingest" /\ cmd[c].pc \in {"wait", "aside", "replace", "sync"} => Live = {}
    /\ cmd[c].kind = "reingest" /\ cmd[c].pc \in {"mkdir", "copy", "unmount"} =>
          \A d \in Daemons : daemon[d] \notin {"starting", "open"}

\* A power loss brings back no sidecar that was gone, and leaves a settled backing
\* all that users are owed.
DurableShows ==
    /\ at["meta"] = None => safeAt["meta"] = None
    /\ Settled => safeAt["meta"].backend = at["meta"].backend /\ shown \subseteq Safe(at["meta"].backend)

ShowInv ==
    /\ ShowsOK /\ (\A k \in Commands : CommandNames(k) /\ CommandDaemons(k))
    /\ (Power => DurableShows)

\* What a step of a command has to keep.
ShowKept(c) == ShowsOK' /\ CommandNames(c)' /\ CommandDaemons(c)' /\ (Power => DurableShows')

LEMMA InitShow == Init => ShowInv
<1> SUFFICES ASSUME Init PROVE ShowInv
  OBVIOUS
<1>1. PICK u \in Trees : at = [n \in Names |-> IF n = "mp" THEN u ELSE None]
  BY DEF Init
<1>2. at["meta"] = None /\ safeAt["meta"] = None
  BY <1>1, NameFacts DEF Init
<1>3. (\A d \in Daemons : daemon[d] = "off") /\ ~unit.active /\ ~unit.enabled
  BY DEF Init
<1>4. \A k \in Commands : cmd[k].kind = "none" /\ cmd[k].pc = "idle"
  BY DEF Init, Idle
<1> QED BY <1>2, <1>3, <1>4 DEF ShowInv, ShowsOK, Live, CommandNames, CommandDaemons, Bound, Early, At, DurableShows, Settled

LEMMA ShowFacts ==
    ASSUME LifeInv, ShowInv, NEW c \in Commands
    PROVE  /\ TypeInv /\ StoreInv /\ CommandInv(c) /\ (Power => QuietOK) /\ CommandsOK /\ CommandOK(cmd[c])
           /\ ShowsOK /\ CommandNames(c) /\ CommandDaemons(c) /\ (Power => DurableShows)
  BY LifeFacts DEF ShowInv

\* Before apply has written the sidecar, no daemon is live.
LEMMA AloneNoneLive == ASSUME ShowsOK, Alone, None \notin Daemons PROVE Live = {}
  BY DEF ShowsOK, Alone, Live

\* back_root, what is in it and what of it is safe stay.
BackSame ==
    /\ \A n \in Back : at'[n] = at[n] /\ safeAt'[n] = safeAt[n]
    /\ \A n \in Dirs : Data(n)' = Data(n) /\ Safe(n)' = Safe(n)

DaemonsStay ==
    /\ UNCHANGED <<load, mount, daemon, serves>>
    /\ unit'.active \/ unit'.enabled => unit.active \/ unit.enabled

\* What daemons may do to the mount where the names stay.
DaemonsShow ==
    /\ UNCHANGED load
    /\ \A d \in Daemons : daemon'[d] = "serving" => mount' = d
    /\ \A d \in Daemons : daemon'[d] \in {"open", "serving"} => Exists(serves[d])'
    /\ \A d \in Daemons : daemon'[d] \in {"starting", "open", "serving"} =>
          \/ d \in Live /\ serves'[d] = serves[d]
          \/ at["meta"] # None /\ serves'[d] = at["meta"].backend
    /\ unit'.active \/ unit'.enabled => load.systemd

LEMMA NamesStaySame ==
    ASSUME TypeInv, UNCHANGED <<at, safeAt, tree>>
    PROVE  BackSame /\ (\A n \in TreeNames : Data(n)' = Data(n)) /\ Plain' = Plain
  BY DEF BackSame, Data, Safe, Exists, Plain

\* A daemon that runs has one of the backends.
LEMMA ServesBackend ==
    ASSUME TypeInv, NEW d \in Daemons, daemon[d] # "off" PROVE serves[d] \in Backends
  BY DEF TypeInv, DaemonsOK

\* The backings, the sidecar and what of them is safe stay, and daemons behave.
LEMMA BackendsShow ==
    ASSUME TypeInv, ShowInv, DaemonsShow, UNCHANGED shown, serves' \in [Daemons -> Backends \cup {None}],
           \A n \in Backends : at'[n] = at[n] /\ safeAt'[n] = safeAt[n],
           safeAt'["meta"] = safeAt["meta"], at'["meta"] = None <=> at["meta"] = None,
           at["meta"] # None => at'["meta"].backend = at["meta"].backend,
           \A b \in Backends : Data(b)' = Data(b) /\ Safe(b)' = Safe(b)
    PROVE  ShowsOK' /\ (Power => DurableShows')
<1>1. ShowsOK /\ (Power => DurableShows)
  BY DEF ShowInv
<1>2. Settled' = Settled
  <2>1. CASE at["meta"] = None
    BY <2>1 DEF Settled
  <2>2. ASSUME at["meta"] # None PROVE Settled' = Settled
    <3>1. PICK b \in Backends : b = at["meta"].backend /\ b = at'["meta"].backend
      BY <2>2, NamesHere
    <3>2. at'[b] = at[b] /\ safeAt'[b] = safeAt[b]
      OBVIOUS
    <3> QED BY <2>2, <3>1, <3>2 DEF Settled
  <2> QED BY <2>1, <2>2
<1>3. \A b \in Backends : Exists(b)' = Exists(b) /\ Data(b)' = Data(b) /\ Safe(b)' = Safe(b)
  BY DEF Exists
<1>4. at["meta"] # None => at["meta"].backend \in Backends
  BY NamesHere
<1>5. at'["meta"] # None /\ Exists(at["meta"].backend)' => shown' \subseteq Data(at["meta"].backend)'
  <2> SUFFICES ASSUME at'["meta"] # None, Exists(at["meta"].backend)' PROVE shown' \subseteq Data(at["meta"].backend)'
    OBVIOUS
  <2>1. PICK b \in Backends : b = at["meta"].backend /\ b = at'["meta"].backend
    BY <1>4
  <2>2. Exists(b)' /\ Data(b)' = Data(b) /\ Exists(b)
    BY <1>3, <2>1 DEF Exists
  <2>3. shown' \subseteq Data(b)'
    BY <1>1, <2>1, <2>2 DEF ShowsOK
  <2> QED BY <2>1, <2>3 DEF Data, Exists
<1>6. \A d \in Live' : Exists(serves[d])' => at'["meta"] # None /\ serves'[d] = at'["meta"].backend
  <2> SUFFICES ASSUME NEW d \in Live', Exists(serves[d])' PROVE at'["meta"] # None /\ serves'[d] = at'["meta"].backend
    OBVIOUS
  <2>1. d \in Daemons /\ daemon'[d] \in {"starting", "open", "serving"}
    BY DEF Live
  <2>2. CASE d \in Live /\ serves'[d] = serves[d]
    <3>1. serves[d] \in Backends
      BY <2>2, ServesBackend DEF Live
    <3>2. Exists(serves[d])
      BY <1>3, <2>2, <3>1 DEF Exists
    <3> QED BY <1>1, <2>2, <3>2 DEF ShowsOK
  <2>3. CASE at["meta"] # None /\ serves'[d] = at["meta"].backend
    BY <2>3
  <2> QED BY <2>1, <2>2, <2>3 DEF DaemonsShow
<1>7. ShowsOK'
  BY <1>5, <1>6 DEF ShowsOK, DaemonsShow
<1>8. Power => DurableShows'
  <2> SUFFICES ASSUME Power PROVE DurableShows'
    OBVIOUS
  <2>1. ASSUME Settled PROVE shown' \subseteq Safe(at["meta"].backend)'
    <3>1. PICK b \in Backends : b = at["meta"].backend /\ b = at'["meta"].backend
      BY <1>4, <2>1 DEF Settled
    <3>2. shown' \subseteq Safe(b)'
      BY <1>1, <1>3, <2>1, <3>1 DEF DurableShows
    <3> QED BY <3>1, <3>2 DEF Safe, Exists
  <2> QED BY <1>1, <1>2, <2>1 DEF DurableShows, Settled
<1> QED BY <1>7, <1>8

LEMMA BackShows ==
    ASSUME TypeInv, ShowInv, BackSame, DaemonsShow, UNCHANGED shown, serves' \in [Daemons -> Backends \cup {None}]
    PROVE  ShowsOK' /\ (Power => DurableShows')
  BY NameFacts, BackendsShow DEF BackSame

\* Where the daemons stay they may show what they did.
LEMMA StaySame ==
    ASSUME TypeInv, ShowInv, DaemonsStay, BackSame
    PROVE  DaemonsShow /\ Live' = Live /\ serves' \in [Daemons -> Backends \cup {None}]
<1>1. ShowsOK
  BY DEF ShowInv
<1>2. \A d \in Daemons : daemon'[d] \in {"open", "serving"} => Exists(serves[d])'
  <2> SUFFICES ASSUME NEW d \in Daemons, daemon[d] \in {"open", "serving"} PROVE Exists(serves[d])'
    BY DEF DaemonsStay
  <2>1. serves[d] \in Back
    BY ServesBackend, NameFacts
  <2> QED BY <1>1, <2>1 DEF BackSame, DaemonsStay, Exists, ShowsOK
<1> QED BY <1>1, <1>2 DEF DaemonsShow, DaemonsStay, ShowsOK, Live, TypeInv, DaemonsOK

LEMMA BackStays ==
    ASSUME TypeInv, ShowInv, BackSame, DaemonsStay, UNCHANGED shown
    PROVE  ShowsOK' /\ (Power => DurableShows') /\ Live' = Live
  BY StaySame, BackShows

\* A command that does nothing, while others act.
LEMMA NamesWait ==
    ASSUME TypeInv, NEW c \in Commands, CommandOK(cmd[c]), CommandNames(c), UNCHANGED <<load, cmd, shown>>, BackSame,
           Data("orig")' \subseteq Data("orig")
    PROVE  CommandNames(c)'
<1>1. Early(c)' = Early(c) /\ Bound(c)' = Bound(c) /\ Power' = Power
  BY DEF Early, Bound, At, Power
<1>2. \A kind, pc : At(c, kind, pc)' = At(c, kind, pc)
  BY DEF At
<1>3. at'["meta"] = at["meta"] /\ safeAt'["meta"] = safeAt["meta"]
  BY NameFacts DEF BackSame
<1>4. \A b \in Dirs : Exists(b)' = Exists(b) /\ Data(b)' = Data(b) /\ Safe(b)' = Safe(b)
  BY NameFacts DEF BackSame, Exists
<1>5. "container" \in Dirs /\ "tmp" \in Dirs /\ "bak" \in Dirs /\ (at["meta"] # None => at["meta"].backend \in Dirs)
  BY NamesHere, NameFacts
<1>6. cmd[c].kind = "apply" => cmd[c].backing \in Dirs
  BY NameFacts DEF CommandOK
<1>7. cmd[c].kind = "apply" => Data(cmd[c].backing)' = Data(cmd[c].backing) /\ Safe(cmd[c].backing)' = Safe(cmd[c].backing)
  BY <1>4, <1>6
<1>8. at["meta"] # None => Exists(at["meta"].backend)' = Exists(at["meta"].backend)
  BY <1>3, <1>4, <1>5
<1> QED BY <1>1, <1>2, <1>3, <1>4, <1>5, <1>7, <1>8 DEF CommandNames, At

LEMMA DaemonsWait ==
    ASSUME TypeInv, NEW c \in Commands, CommandDaemons(c), UNCHANGED cmd, BackSame, DaemonsStay, Live' = Live
    PROVE  CommandDaemons(c)'
<1>1. \A kind, pc : At(c, kind, pc)' = At(c, kind, pc)
  BY DEF At
<1>2. \A d \in Live : Exists(serves[d])' = Exists(serves[d])
  <2> SUFFICES ASSUME NEW d \in Live PROVE Exists(serves[d])' = Exists(serves[d])
    OBVIOUS
  <2>1. serves[d] \in Back
    BY ServesBackend, NameFacts DEF Live
  <2> QED BY <2>1 DEF BackSame, DaemonsStay, Exists
<1> QED BY <1>1, <1>2 DEF CommandDaemons, DaemonsStay

\* A record reaches the backing the sidecar names, through its daemon.
LEMMA PutShow ==
    ASSUME LifeInv, ShowInv, NEW r, NEW b \in Backends, Put(b, r), Exists(b), at["meta"] # None, at["meta"].backend = b,
           UNCHANGED <<load, at, safeAt, daemons, cmd>>, shown' = shown \cup {r},
           \A c \in Commands : ~At(c, "reingest", "replace")
    PROVE  ShowInv'
<1>0. TypeInv /\ ShowsOK /\ (Power => DurableShows) /\ b \in TreeNames
  BY NameFacts DEF LifeInv, ShowInv
<1>1. \A n \in TreeNames : Data(n)' = IF n = b THEN Data(n) \cup {r} ELSE Data(n)
  BY <1>0, PutFacts
<1>2. \A n \in TreeNames : Safe(n)' = IF n = b THEN Safe(n) \cup {r} ELSE Safe(n)
  <2>1. /\ tree'[at[b]].safe = tree[at[b]].safe \cup {r}
        /\ \A u \in Trees : u # at[b] => tree'[u] = tree[u]
    BY <1>0, PutFacts
  <2> QED BY <1>0, <2>1, NamesHere DEF Safe, Exists
<1>3. \A n : Exists(n)' = Exists(n)
  BY DEF Exists
<1>4. ShowsOK'
  BY <1>0, <1>1, <1>3 DEF ShowsOK, Live, daemons
<1>5. ASSUME NEW k \in Commands PROVE CommandNames(k)' /\ CommandDaemons(k)'
  <2>1. CommandNames(k) /\ CommandDaemons(k) /\ CommandOK(cmd[k])
    BY ShowFacts
  <2>2. Early(k)' = Early(k) /\ Bound(k)' = Bound(k) /\ Power' = Power
    BY DEF Early, Bound, At, Power
  <2>3. \A kind, pc : At(k, kind, pc)' = At(k, kind, pc)
    BY DEF At
  <2>4. cmd[k].kind = "apply" => cmd[k].backing \in TreeNames
    BY <2>1, NameFacts DEF CommandOK
  <2>5. "container" \in TreeNames /\ "orig" \in TreeNames /\ "tmp" \in TreeNames /\ b # "orig" /\ b # "tmp"
    BY NameFacts
  <2>6. At(k, "apply", "durable") => cmd[k].backing = b
    BY <2>1 DEF CommandNames, Bound
  <2>7. Data("orig")' = Data("orig") /\ Data("tmp")' = Data("tmp")
    BY <1>1, <2>5
  <2>8. Data("container") \subseteq Safe("container") => Data("container")' \subseteq Safe("container")'
    BY <1>1, <1>2, <2>5
  <2>9. cmd[k].kind = "apply" => Data(cmd[k].backing) \subseteq Data(cmd[k].backing)' /\ Safe(cmd[k].backing) \subseteq Safe(cmd[k].backing)'
    BY <1>1, <1>2, <2>4
  <2>10. cmd[k].backing = b => Safe(cmd[k].backing)' = Safe(cmd[k].backing) \cup {r}
    BY <1>0, <1>2
  <2>11. CommandNames(k)'
    BY <1>3, <2>1, <2>2, <2>3, <2>6, <2>7, <2>8, <2>9, <2>10 DEF CommandNames, At
  <2>12. CommandDaemons(k)'
    BY <1>3, <2>1, <2>3 DEF CommandDaemons, Live, daemons
  <2> QED BY <2>11, <2>12
<1>6. Power => DurableShows'
  BY <1>0, <1>2 DEF DurableShows, Settled
<1> QED BY <1>4, <1>5, <1>6 DEF ShowInv, Power

\* One reaches the plain project, or nothing happens to back_root.
LEMMA ElsewhereShow ==
    ASSUME LifeInv, ShowInv, BackSame, DaemonsStay, UNCHANGED <<cmd, shown>>, Data("orig")' = Data("orig")
    PROVE  ShowInv'
<1>1. ShowsOK' /\ (Power => DurableShows') /\ Live' = Live
  BY BackStays DEF LifeInv
<1>2. \A k \in Commands : CommandNames(k)' /\ CommandDaemons(k)'
  <2> SUFFICES ASSUME NEW k \in Commands PROVE CommandNames(k)' /\ CommandDaemons(k)'
    OBVIOUS
  <2>1. TypeInv /\ CommandOK(cmd[k]) /\ CommandNames(k) /\ CommandDaemons(k) /\ UNCHANGED load
    BY ShowFacts DEF DaemonsStay
  <2> QED BY <1>1, <2>1, NamesWait, DaemonsWait
<1> QED BY <1>1, <1>2 DEF ShowInv, Power, DaemonsStay

LEMMA UserShow ==
    ASSUME LifeInv, ShowInv,
           \/ \E r \in Records : Write(r) \/ SessionWrite(r) \/ \E d \in Daemons : LateWrite(d, r)
           \/ OpenSession \/ CloseSession
    PROVE  ShowInv'
<1>0. TypeInv /\ StoreInv /\ ShowsOK
  BY DEF LifeInv, ShowInv
<1>1. ASSUME NEW r \in Records, Put("mp", r), Exists("mp"), Sync(Projects), UNCHANGED <<load, at, daemons, cmd, shown>>
      PROVE  ShowInv'
  <2>1. /\ \A n \in TreeNames : Data(n)' = IF n = "mp" THEN Data(n) \cup {r} ELSE Data(n)
        /\ \A u \in Trees : u # at["mp"] => tree'[u] = tree[u]
    BY <1>0, <1>1, PutFacts, NameFacts
  <2>2. \A n \in Dirs : Data(n)' = Data(n) /\ Safe(n)' = Safe(n)
    BY <1>0, <1>1, <2>1, NamesHere, NameFacts DEF Safe, Exists
  <2>3. \A n \in Back : at'[n] = at[n] /\ safeAt'[n] = safeAt[n]
    BY <1>1, NameFacts DEF Sync, Back
  <2>4. Data("orig")' = Data("orig")
    BY <2>1, NameFacts
  <2> QED BY <1>1, <2>2, <2>3, <2>4, ElsewhereShow DEF BackSame, DaemonsStay, daemons
<1>2. ASSUME NEW d \in Daemons, daemon[d] \in {"serving", "leaving"}, Exists(serves[d]), at["meta"] # None, at["meta"].backend = serves[d],
             NEW r, Put(serves[d], r), shown' = shown \cup {r}, UNCHANGED <<load, at, safeAt, daemons, cmd>>
      PROVE  ShowInv'
  <2>1. PICK b \in Backends : b = serves[d]
    BY <1>0, <1>2, ServesBackend
  <2>2. ASSUME NEW c \in Commands, At(c, "reingest", "replace") PROVE FALSE
    <3>1. CommandNames(c) /\ CommandInv(c)
      BY ShowFacts
    <3>2. at["shadow"] = None /\ at["meta"].backend = "shadow"
      BY <2>2, <3>1 DEF CommandNames, CommandInv, Bound, At
    <3> QED BY <1>2, <3>2 DEF Exists
  <2> QED BY <1>2, <2>1, <2>2, PutShow
<1>3. ASSUME NEW r \in Records, Write(r) PROVE ShowInv'
  <2>1. CASE /\ Healthy /\ Exists(serves[mount]) /\ Put(serves[mount], r) /\ shown' = shown \cup {r}
             /\ UNCHANGED <<load, at, safeAt, daemons, cmd, session>>
    <3>1. mount \in Daemons /\ daemon[mount] = "serving"
      BY <1>0, <2>1 DEF Healthy, Health, TypeInv, DaemonsOK
    <3>2. at["meta"] # None /\ at["meta"].backend = serves[mount]
      BY <1>0, <2>1, <3>1 DEF ShowsOK, Live
    <3> QED BY <1>2, <2>1, <3>1, <3>2
  <2>2. CASE /\ Put("mp", r) /\ Exists("mp") /\ Sync(Projects) /\ UNCHANGED <<load, at, daemons, cmd, session, shown>>
    BY <1>1, <2>2
  <2> QED BY <1>3, <2>1, <2>2 DEF Write
<1>4. ASSUME NEW r \in Records, NEW d \in Daemons, LateWrite(d, r) PROVE ShowInv'
  <2>1. serves[d] \in Backends /\ at["meta"] = MetaOf(serves[d])
    BY <1>0, <1>4, ServesBackend DEF LateWrite
  <2>2. at["meta"] # None /\ at["meta"].backend = serves[d]
    BY <2>1, MetaFacts
  <2> QED BY <1>2, <1>4, <2>2 DEF LateWrite
<1>5. ASSUME NEW r \in Records, SessionWrite(r) PROVE ShowInv'
  <2>1. PICK n \in TreeNames : Active(n) /\ Put(n, r)
    BY <1>5 DEF SessionWrite
  <2>2. session # None /\ at[n] = session /\ at["mp"] = session
    BY <1>0, <2>1 DEF Active, StoreInv, DataOK
  <2>3. n = "mp"
    BY <1>0, <2>2, NamesHere, NameFacts
  <2> QED BY <1>1, <1>5, <2>1, <2>2, <2>3 DEF SessionWrite, Exists
<1>6. ASSUME OpenSession \/ CloseSession PROVE ShowInv'
  <2>1. UNCHANGED <<load, at, safeAt, tree, mount, daemon, serves, unit, cmd, shown>>
    BY <1>6 DEF OpenSession, CloseSession, names, daemons
  <2> QED BY <1>0, <2>1, NamesStaySame, NameFacts, ElsewhereShow DEF DaemonsStay
<1> QED BY <1>3, <1>4, <1>5, <1>6

LEMMA DaemonShow ==
    ASSUME LifeInv, LifeInv', Attended, ShowInv, NEW d \in Daemons, Open(d) \/ Serve(d) \/ Leave(d) \/ Die(d) \/ Restart(d)
    PROVE  ShowInv'
<1>0. TypeInv /\ ShowsOK /\ DOMAIN daemon = Daemons /\ DOMAIN serves = Daemons /\ mount \in Daemons \cup {None} /\ None \notin Daemons
  BY ProcessesAssumption DEF LifeInv, ShowInv, TypeInv, DaemonsOK
<1>1. UNCHANGED <<load, at, safeAt, tree, cmd, shown>>
  BY DEF Open, Serve, Leave, Die, Restart, names, ghosts
<1>2. BackSame /\ (\A n \in TreeNames : Data(n)' = Data(n))
  BY <1>0, <1>1, NamesStaySame
<1>3. \A n : Exists(n)' = Exists(n)
  BY <1>1 DEF Exists
<1>4. Resolved # None => at["meta"] # None /\ Resolved = at["meta"].backend
  <2>1. ASSUME Resolved # None PROVE at["meta"] # None /\ Resolved = at["meta"].backend
    BY <1>0, <2>1, CommittedMeta, NameFacts DEF Resolved, MountSpec
  <2> QED BY <2>1
<1>5. CASE Restart(d)
  <2>1. /\ daemon'[d] = "starting" /\ serves'[d] = at["meta"].backend /\ at["meta"] # None /\ mount' = mount /\ unit' = unit
        /\ \A e \in Daemons : e # d => daemon'[e] = daemon[e] /\ serves'[e] = serves[e]
    BY <1>0, <1>4, <1>5 DEF Restart, Start
  <2>2. \A e \in Daemons : daemon'[e] \in {"open", "serving"} => Exists(serves[e])'
    <3> SUFFICES ASSUME NEW e \in Daemons, daemon'[e] \in {"open", "serving"} PROVE Exists(serves[e])'
      OBVIOUS
    <3>1. e # d /\ daemon[e] \in {"open", "serving"} /\ serves'[e] = serves[e]
      BY <2>1
    <3> QED BY <1>0, <1>1, <3>1 DEF ShowsOK, Exists
  <2>3. DaemonsShow
    BY <1>0, <1>1, <2>1, <2>2 DEF DaemonsShow, ShowsOK, Live
  <2>4. ASSUME NEW k \in Commands PROVE CommandDaemons(k)'
    <3>1. CommandNames(k) /\ CommandDaemons(k) /\ CommandInv(k)
      BY ShowFacts
    <3>2. cmd[k].kind # "reingest"
      BY <1>0, <1>5, <3>1 DEF CommandInv, Attended, Restart, ShowsOK
    <3>3. At(k, "purge", "meta") => \A e \in Live' : ~Exists(serves[e])'
      BY <1>1, <2>1, <3>1 DEF CommandNames, CommandDaemons, Live, Exists
    <3> QED BY <1>1, <3>2, <3>3 DEF CommandDaemons, At
  <2>5. ASSUME NEW k \in Commands PROVE CommandNames(k)'
    BY <1>0, <1>1, <1>2, ShowFacts, NamesWait, NameFacts
  <2> QED BY <1>0, <1>1, <1>2, <2>3, <2>4, <2>5, BackShows DEF ShowInv, LifeInv, TypeInv, DaemonsOK, Power
<1>6. CASE ~Restart(d)
  <2>0. /\ \A e \in Daemons : e # d => daemon'[e] = daemon[e] /\ serves'[e] = serves[e]
        /\ unit'.active \/ unit'.enabled => unit.active \/ unit.enabled
        /\ \/ daemon'[d] = "off" /\ mount' \in {mount, IF mount = d THEN None ELSE mount}
           \/ daemon[d] = "starting" /\ daemon'[d] = "open" /\ serves'[d] = serves[d] /\ Exists(serves[d]) /\ mount' = mount
           \/ daemon[d] = "open" /\ daemon'[d] = "serving" /\ serves'[d] = serves[d] /\ mount = None /\ mount' = d
    <3>1. CASE Open(d)
      BY <1>0, <3>1 DEF Open, Exit
    <3>2. CASE Serve(d)
      BY <1>0, <3>2 DEF Serve, Exit
    <3>3. CASE Leave(d)
      BY <1>0, <3>3 DEF Leave, Exit, LifeInv, TypeInv, DaemonsOK
    <3>4. CASE Die(d)
      BY <1>0, <3>4 DEF Die, Exit
    <3> QED BY <1>6, <3>1, <3>2, <3>3, <3>4
  <2>1. \A e \in Daemons : daemon'[e] = "serving" => mount' = e
    BY <1>0, <2>0 DEF ShowsOK
  <2>2. \A e \in Daemons : daemon'[e] \in {"open", "serving"} => Exists(serves[e])'
    <3> SUFFICES ASSUME NEW e \in Daemons, daemon'[e] \in {"open", "serving"} PROVE Exists(serves[e])'
      OBVIOUS
    <3>1. serves'[e] = serves[e] /\ Exists(serves[e])
      BY <1>0, <2>0 DEF ShowsOK
    <3> QED BY <1>1, <3>1 DEF Exists
  <2>3. \A e \in Live' : e \in Live /\ serves'[e] = serves[e]
    BY <2>0 DEF Live
  <2>4. DaemonsShow
    BY <1>0, <1>1, <2>0, <2>1, <2>2, <2>3 DEF DaemonsShow, ShowsOK, Live
  <2>5. ASSUME NEW k \in Commands PROVE CommandDaemons(k)'
    <3>1. CommandDaemons(k)
      BY ShowFacts
    <3>2. At(k, "purge", "meta") => \A e \in Live' : ~Exists(serves[e])'
      BY <1>1, <2>3, <3>1 DEF CommandDaemons, Exists
    <3>3. (\A e \in Daemons : daemon[e] \notin {"starting", "open"}) => \A e \in Daemons : daemon'[e] \notin {"starting", "open"}
      BY <2>0
    <3>4. Live = {} => Live' = {}
      BY <2>3
    <3> QED BY <1>1, <3>1, <3>2, <3>3, <3>4 DEF CommandDaemons, At
  <2>6. ASSUME NEW k \in Commands PROVE CommandNames(k)'
    BY <1>0, <1>1, <1>2, ShowFacts, NamesWait, NameFacts
  <2> QED BY <1>0, <1>1, <1>2, <2>4, <2>5, <2>6, BackShows DEF ShowInv, LifeInv, TypeInv, DaemonsOK, Power
<1> QED BY <1>5, <1>6

\* A power loss.
LEMMA LossShow ==
    ASSUME LifeInv, ShowInv, PowerLoss PROVE ShowInv'
<1>0. TypeInv /\ Power /\ QuietOK /\ DurableOK /\ ShowsOK /\ DurableShows
  BY DEF LifeInv, StoreInv, ShowInv, PowerLoss, Power
<1>1. PICK dirs \in SUBSET {Projects, Back}, kept \in BOOLEAN :
          /\ at' = [n \in Names |-> IF n \in UNION dirs THEN at[n] ELSE safeAt[n]]
          /\ tree' = IF kept THEN tree ELSE [t \in Trees |-> [tree[t] EXCEPT !.data = tree[t].safe]]
  BY DEF PowerLoss
<1>2. safeAt' = at' /\ shown' = shown /\ load' = load /\ \A d \in Daemons : daemon'[d] = "off"
  BY DEF PowerLoss
<1>3. \/ \A n \in Back : at'[n] = at[n]
      \/ \A n \in Back : at'[n] = safeAt[n]
  <2>0. Back \subseteq Names /\ Projects \cap Back = {}
    BY DEF Back
  <2>1. CASE Back \in dirs
    BY <1>1, <2>0, <2>1
  <2>2. CASE Back \notin dirs
    <3>1. \A n \in Back : n \notin UNION dirs
      BY <2>0, <2>2
    <3> QED BY <1>1, <2>0, <3>1
  <2> QED BY <2>1, <2>2
<1>4. at["meta"] # None => /\ at["meta"].backend \in Backends /\ at["meta"].backend \in Back
                           /\ shown \subseteq Safe(at["meta"].backend)
                           /\ Settled \/ safeAt["meta"] = None
  <2> SUFFICES ASSUME at["meta"] # None
               PROVE  /\ at["meta"].backend \in Backends /\ at["meta"].backend \in Back
                      /\ shown \subseteq Safe(at["meta"].backend)
                      /\ Settled \/ safeAt["meta"] = None
    OBVIOUS
  <2>1. at["meta"].backend \in Backends /\ at["meta"].backend \in Back
    BY <1>0, NamesHere, NameFacts
  <2>2. CASE Settled
    BY <1>0, <2>1, <2>2 DEF DurableShows
  <2>3. ASSUME NEW k \in Commands, At(k, "apply", "durable")
        PROVE  shown \subseteq Safe(at["meta"].backend) /\ safeAt["meta"] = None
    BY <1>0, <2>3 DEF ShowInv, CommandNames, Bound
  <2> QED BY <1>0, <2>1, <2>2, <2>3 DEF QuietOK
<1>5. at'["meta"] # None => /\ at["meta"] # None /\ at'["meta"].backend = at["meta"].backend
                            /\ at'[at["meta"].backend] = at[at["meta"].backend]
  BY <1>0, <1>3, <1>4, NameFacts DEF Settled, DurableShows
<1>6. \A u \in Trees : tree'[u].safe = tree[u].safe /\ tree[u].safe \subseteq tree'[u].data
  <2> SUFFICES ASSUME NEW u \in Trees PROVE tree'[u].safe = tree[u].safe /\ tree[u].safe \subseteq tree'[u].data
    OBVIOUS
  <2>1. DOMAIN tree[u] = {"data", "safe"} /\ tree[u].safe \subseteq tree[u].data
    BY <1>0 DEF TypeInv, NamesOK, DurableOK
  <2>2. CASE kept
    BY <1>1, <2>1, <2>2
  <2>3. CASE ~kept
    <3>1. tree'[u] = [tree[u] EXCEPT !.data = tree[u].safe]
      BY <1>1, <2>3
    <3> QED BY <2>1, <3>1
  <2> QED BY <2>2, <2>3
<1>7. at'["meta"] # None => shown \subseteq Safe(at["meta"].backend)' /\ shown \subseteq Data(at["meta"].backend)'
  <2> SUFFICES ASSUME at'["meta"] # None PROVE shown \subseteq Safe(at["meta"].backend)' /\ shown \subseteq Data(at["meta"].backend)'
    OBVIOUS
  <2>1. PICK b \in Backends : b = at["meta"].backend /\ b = at'["meta"].backend /\ at'[b] = at[b] /\ shown \subseteq Safe(b)
    BY <1>4, <1>5
  <2>2. at[b] \in Trees \/ at[b] = None
    BY <1>0, NamesHere, NameFacts
  <2>3. shown \subseteq Safe(b)' /\ shown \subseteq Data(b)'
    BY <1>6, <2>1, <2>2, NameFacts DEF Safe, Data, Exists
  <2> QED BY <2>1, <2>3 DEF Safe, Data, Exists
<1>8. ShowsOK'
  BY <1>0, <1>2, <1>7 DEF ShowsOK, Live, PowerLoss, TypeInv, DaemonsOK
<1>9. DurableShows'
  BY <1>2, <1>7 DEF DurableShows, Settled
<1>10. \A k \in Commands : CommandNames(k)' /\ CommandDaemons(k)'
  BY DEF PowerLoss, CommandNames, CommandDaemons, Early, Bound, At, Idle
<1> QED BY <1>8, <1>9, <1>10 DEF ShowInv

(***************************************************************************)
(* Commands and what the mount shows                                        *)
(***************************************************************************)

LEMMA EndShow ==
    ASSUME CommandsOK, NEW c \in Commands, End(c) PROVE CommandNames(c)' /\ CommandDaemons(c)'
<1>1. cmd'[c].kind = "none" /\ cmd'[c].pc = "idle"
  BY DEF CommandsOK, End, Idle
<1> QED BY <1>1 DEF CommandNames, CommandDaemons, Early, Bound, At

\* A command that leaves the names alone.
LEMMA StillShow ==
    ASSUME LifeInv, LifeInv', ShowInv, NEW c \in Commands, UNCHANGED <<load, at, safeAt, tree, shown>>,
           DaemonsShow, CommandNames(c)', CommandDaemons(c)'
    PROVE  ShowKept(c)
<1>1. TypeInv /\ serves' \in [Daemons -> Backends \cup {None}]
  BY DEF LifeInv, TypeInv, DaemonsOK
<1> QED BY <1>1, NamesStaySame, BackShows DEF ShowKept

\* One that only changes its own step.
LEMMA OwnShow ==
    ASSUME LifeInv, LifeInv', ShowInv, NEW c \in Commands,
           UNCHANGED <<load, names, mount, daemon, serves, unit, ghosts>>, CommandNames(c)', CommandDaemons(c)'
    PROVE  ShowKept(c)
<1>1. TypeInv /\ UNCHANGED <<load, at, safeAt, tree, shown>>
  BY DEF LifeInv, names, ghosts
<1>2. DaemonsShow
  BY <1>1, NamesStaySame, StaySame DEF DaemonsStay
<1> QED BY <1>1, <1>2, StillShow

\* No daemon serves what was unmounted, and no new one starts.
LEMMA UnmountShow ==
    ASSUME TypeInv, ShowsOK, Detach \/ Unmount, UNCHANGED <<load, at>>
    PROVE  /\ DaemonsShow
           /\ \A d \in Daemons : /\ daemon'[d] # "serving"
                                 /\ daemon'[d] \in {"starting", "open"} => daemon'[d] = daemon[d]
<1>0. None \notin Daemons /\ daemon \in [Daemons -> {"off", "starting", "open", "serving", "leaving"}]
  BY ProcessesAssumption DEF TypeInv, DaemonsOK
<1>1. CASE Detach
  <2>1. \A d \in Daemons : daemon[d] = "serving" => Healthy /\ d = mount
    BY <1>0 DEF ShowsOK, Healthy, Health
  <2>2. \A d \in Daemons : daemon'[d] \in {daemon[d], "leaving"} /\ daemon'[d] # "serving"
    BY <1>0, <1>1, <2>1 DEF Detach
  <2>3. UNCHANGED <<serves, unit>>
    BY <1>1 DEF Detach
  <2>4. \A d \in Daemons : daemon'[d] \in {"open", "serving"} => Exists(serves[d])'
    BY <2>2, <2>3 DEF ShowsOK, Exists
  <2>5. \A d \in Daemons : daemon'[d] \in {"starting", "open", "serving"} => d \in Live /\ serves'[d] = serves[d]
    BY <2>2, <2>3 DEF Live
  <2> QED BY <2>2, <2>3, <2>4, <2>5 DEF DaemonsShow, ShowsOK
<1>2. CASE Stop
  <2>1. \A d \in Daemons : daemon'[d] = "off"
    BY <1>2 DEF Stop, ExecStop
  <2>2. unit'.active \/ unit'.enabled => unit.active \/ unit.enabled
    BY <1>2 DEF Stop, TypeInv, DaemonsOK
  <2> QED BY <2>1, <2>2 DEF DaemonsShow, ShowsOK
<1> QED BY <1>1, <1>2 DEF Unmount

LEMMA UnmountAutoShow ==
    ASSUME LifeInv, LifeInv', ShowInv, NEW c \in Commands, NEW kind, NEW pc, NEW next,
           kind \in {"apply", "restore", "remount"}, pc = "unmount", next \in {"rmdir", "meta", "end"},
           UnmountAuto(c, kind, pc, next)
    PROVE  ShowKept(c)
<1>1. /\ TypeInv /\ ShowsOK /\ CommandsOK /\ At(c, kind, pc) /\ Unmount
      /\ UNCHANGED <<load, at, safeAt, tree, shown>>
  BY ShowFacts DEF UnmountAuto, names, ghosts
<1>2. DaemonsShow
  BY <1>1, UnmountShow
<1>3. CommandNames(c)' /\ CommandDaemons(c)'
  <2>1. CASE End(c)
    BY <1>1, <2>1, EndShow
  <2>2. CASE Goto(c, next) /\ next \in {"rmdir", "meta"}
    <3>1. cmd'[c].kind = kind /\ cmd'[c].pc = next
      BY <1>1, <2>2, GotoFacts DEF At
    <3> QED BY <2>2, <3>1 DEF CommandNames, CommandDaemons, Early, Bound, At
  <2> QED BY <2>1, <2>2 DEF UnmountAuto
<1> QED BY <1>1, <1>2, <1>3, StillShow

\* A command that goes on to a step at which it has nothing new to rely on.
LEMMA GoesOn ==
    ASSUME CommandsOK, NEW c \in Commands, CommandNames(c), UNCHANGED <<load, at, safeAt, tree, shown>>,
           cmd[c].kind \in {"maintain", "offline", "reingest"}, NEW pc, Goto(c, pc),
           pc \in {"wait", "aside", "lock", "rewrite", "after"}, cmd[c].kind # "offline" \/ pc # "wait",
           cmd[c].kind = "reingest" => cmd[c].pc \in {"unmount", "wait"}
    PROVE  CommandNames(c)' /\ cmd'[c].kind = cmd[c].kind /\ cmd'[c].pc = pc /\ cmd'[c].backing = cmd[c].backing
<1>1. cmd'[c].kind = cmd[c].kind /\ cmd'[c].pc = pc /\ cmd'[c].backing = cmd[c].backing
  BY GotoFacts
<1>2. Data("orig")' = Data("orig") /\ Data("tmp")' = Data("tmp")
  BY DEF Data, Exists
<1> QED BY <1>1, <1>2 DEF CommandNames, Early, Bound, At

LEMMA UnmountCleanShow ==
    ASSUME LifeInv, LifeInv', ShowInv, NEW c \in Commands, NEW kind, NEW pc, NEW next,
           kind \in {"maintain", "reingest"}, pc = "unmount", next = "wait",
           UnmountClean(c, kind, pc, next)
    PROVE  ShowKept(c)
<1>1. /\ TypeInv /\ ShowsOK /\ CommandsOK /\ CommandNames(c) /\ CommandDaemons(c) /\ cmd[c].kind = kind /\ cmd[c].pc = pc
      /\ UNCHANGED <<load, at, safeAt, tree, shown>> /\ None \notin Daemons
  BY ShowFacts, ProcessesAssumption DEF UnmountClean, names, ghosts, At
<1>2. ASSUME Goto(c, next), DaemonsShow,
             \A d \in Daemons : /\ daemon'[d] # "serving"
                                /\ daemon'[d] \in {"starting", "open"} => daemon'[d] = daemon[d]
      PROVE  ShowKept(c)
  <2>1. CommandNames(c)' /\ cmd'[c].kind = kind /\ cmd'[c].pc = "wait"
    BY <1>1, <1>2, GoesOn
  <2>2. kind = "reingest" => Live' = {}
    <3> SUFFICES ASSUME kind = "reingest" PROVE Live' = {}
      OBVIOUS
    <3>1. \A d \in Daemons : daemon[d] \notin {"starting", "open"}
      BY <1>1 DEF CommandDaemons
    <3>2. \A d \in Daemons : daemon'[d] \notin {"starting", "open", "serving"}
      BY <1>2, <3>1
    <3> QED BY <3>2 DEF Live
  <2>3. CommandDaemons(c)'
    BY <2>1, <2>2 DEF CommandDaemons, At
  <2> QED BY <1>1, <1>2, <2>1, <2>3, StillShow
<1>3. CASE mount # None /\ Unmount /\ Goto(c, next)
  BY <1>1, <1>2, <1>3, UnmountShow
<1>4. CASE mount = None /\ Goto(c, next) /\ UNCHANGED daemons
  <2>1. DaemonsShow
    BY <1>1, <1>4, NamesStaySame, StaySame DEF DaemonsStay, daemons
  <2>2. \A d \in Daemons : daemon'[d] = daemon[d] /\ daemon[d] # "serving"
    BY <1>1, <1>4 DEF ShowsOK, daemons
  <2> QED BY <1>2, <1>4, <2>1, <2>2
<1>5. CASE End(c) /\ UNCHANGED daemons
  BY <1>1, <1>5, EndShow, OwnShow DEF UnmountClean, daemons
<1> QED BY <1>3, <1>4, <1>5 DEF UnmountClean

LEMMA WaitExitShow ==
    ASSUME LifeInv, LifeInv', ShowInv, NEW c \in Commands, NEW kind, NEW pc, NEW next,
           kind \in {"maintain", "reingest"}, pc = "wait", next \in {"lock", "aside"},
           WaitExit(c, kind, pc, next)
    PROVE  ShowKept(c)
<1>1. /\ TypeInv /\ CommandsOK /\ CommandOK(cmd[c]) /\ CommandNames(c) /\ CommandDaemons(c)
      /\ cmd[c].kind = kind /\ cmd[c].pc = pc
      /\ UNCHANGED <<load, safeAt, tree, daemons, ghosts>>
  BY ShowFacts DEF WaitExit, At
<1>2. CASE Goto(c, next) /\ UNCHANGED at
  <2>1. CommandNames(c)' /\ cmd'[c].kind = kind /\ cmd'[c].pc = next
    BY <1>1, <1>2, GoesOn DEF ghosts
  <2>2. Live' = Live
    BY <1>1 DEF Live, daemons
  <2>3. CommandDaemons(c)'
    BY <1>1, <2>1, <2>2 DEF CommandDaemons, At
  <2> QED BY <1>1, <1>2, <2>1, <2>3, OwnShow DEF names, daemons
<1>3. CASE GiveUp(c) /\ at' = [at EXCEPT !["tmp"] = IF kind = "reingest" THEN None ELSE @]
  <2>1. cmd'[c].kind = "remount" /\ cmd'[c].pc = "spawn" /\ cmd'[c].backing = cmd[c].backing
    BY <1>1, <1>3 DEF GiveUp, CommandsOK, CommandOK, Fields
  <2>2. \A n \in Backends \cup {"meta"} : at'[n] = at[n] /\ safeAt'[n] = safeAt[n]
    BY <1>1, <1>3, NameSet, NameFacts
  <2>3. \A b \in Backends : Data(b)' = Data(b) /\ Safe(b)' = Safe(b) /\ Exists(b)' = Exists(b)
    BY <1>1, <2>2 DEF Data, Safe, Exists
  <2>4. CommandNames(c)'
    BY <1>1, <2>1, <2>2 DEF CommandNames, Early, Bound, At
  <2>5. CommandDaemons(c)'
    BY <2>1 DEF CommandDaemons, At
  <2>6. \A d \in Daemons : daemon'[d] \in {"open", "serving"} => Exists(serves[d])'
    <3> SUFFICES ASSUME NEW d \in Daemons, daemon[d] \in {"open", "serving"} PROVE Exists(serves[d])'
      BY <1>1 DEF daemons
    <3>1. PICK b \in Backends : b = serves[d]
      BY <1>1, ServesBackend
    <3>2. Exists(b)
      BY <3>1 DEF ShowInv, ShowsOK
    <3> QED BY <1>1, <2>2, <3>1, <3>2 DEF Exists, daemons
  <2>7. DaemonsShow
    BY <1>1, <2>6 DEF DaemonsShow, ShowInv, ShowsOK, daemons, Live
  <2>8. serves' \in [Daemons -> Backends \cup {None}]
    BY DEF LifeInv, TypeInv, DaemonsOK
  <2> QED BY <1>1, <2>2, <2>3, <2>4, <2>5, <2>7, <2>8, BackendsShow DEF ShowKept, ghosts
<1> QED BY <1>2, <1>3 DEF WaitExit

LEMMA SpawnShow ==
    ASSUME LifeInv, LifeInv', ShowInv, NEW c \in Commands, Spawn(c) PROVE ShowKept(c)
<1>1. /\ TypeInv /\ ShowsOK /\ CommandsOK /\ CommandOK(cmd[c]) /\ CommandNames(c) /\ cmd[c].pc = "spawn"
      /\ UNCHANGED <<load, at, safeAt, tree, shown, mount>>
      /\ DOMAIN daemon = Daemons /\ DOMAIN serves = Daemons
  BY ShowFacts, LifeFacts DEF Spawn, names, ghosts
<1>2. at["meta"] # None /\ cmd[c].backing = at["meta"].backend
  BY <1>1 DEF CommandNames, Bound
<1>3. cmd'[c].kind = cmd[c].kind /\ cmd'[c].pc \in {"await", "unmounted"} /\ cmd'[c].backing = cmd[c].backing
  BY <1>1, GotoFacts DEF Spawn, CommandsOK, CommandOK, Fields
<1>4. CommandNames(c)' /\ CommandDaemons(c)'
  BY <1>1, <1>2, <1>3 DEF CommandNames, CommandDaemons, Early, Bound, At
<1>5. \A d \in Daemons : \/ daemon'[d] = daemon[d] /\ serves'[d] = serves[d]
                         \/ daemon'[d] = "starting" /\ serves'[d] = cmd[c].backing
  BY <1>1 DEF Spawn, Start
<1>6. unit'.active \/ unit'.enabled => load.systemd
  BY <1>1 DEF Spawn, ShowsOK, TypeInv, DaemonsOK
<1>7. DaemonsShow
  BY <1>1, <1>2, <1>5, <1>6 DEF DaemonsShow, ShowsOK, Live, Exists
<1> QED BY <1>1, <1>4, <1>7, StillShow

LEMMA AwaitShow ==
    ASSUME LifeInv, LifeInv', ShowInv, NEW c \in Commands, Await(c) PROVE ShowKept(c)
<1>1. /\ TypeInv /\ ShowsOK /\ CommandsOK /\ CommandOK(cmd[c]) /\ CommandNames(c) /\ cmd[c].pc = "await"
      /\ UNCHANGED <<load, at, safeAt, tree, shown, unit>>
      /\ DOMAIN daemon = Daemons /\ DOMAIN serves = Daemons /\ cmd[c].child \in Daemons
  BY ShowFacts, LifeFacts DEF Await, names, ghosts, daemons, CommandOK
<1>2. cmd'[c].kind = cmd[c].kind /\ cmd'[c].pc \in {"mounted", "unmounted"} /\ cmd'[c].backing = cmd[c].backing
  <2>1. Goto(c, "mounted") \/ Goto(c, "unmounted")
    BY DEF Await
  <2> QED BY <1>1, <2>1, GotoFacts
<1>3. CommandNames(c)' /\ CommandDaemons(c)'
  BY <1>1, <1>2 DEF CommandNames, CommandDaemons, Early, Bound, At
<1>4. \/ \A d \in Daemons : daemon'[d] = daemon[d] /\ serves'[d] = serves[d] /\ mount' = mount
      \/ /\ daemon'[cmd[c].child] = "off" /\ mount' = IF mount = cmd[c].child THEN None ELSE mount
         /\ \A d \in Daemons : d # cmd[c].child => daemon'[d] = daemon[d] /\ serves'[d] = serves[d]
  BY <1>1 DEF Await, Exit, daemons
<1>5. DaemonsShow
  BY <1>1, <1>4 DEF DaemonsShow, ShowsOK, Live, Exists
<1> QED BY <1>1, <1>3, <1>5, StillShow

LEMMA AfterMountShow ==
    ASSUME LifeInv, LifeInv', ShowInv, NEW c \in Commands, AfterMount(c) PROVE ShowKept(c)
<1>1. /\ TypeInv /\ ShowsOK /\ CommandsOK /\ CommandNames(c) /\ cmd[c].pc \in {"mounted", "unmounted"}
      /\ UNCHANGED <<load, at, safeAt, tree, shown, mount, daemon, serves>>
      /\ unit \in [active : BOOLEAN, enabled : BOOLEAN]
  BY ShowFacts, LifeFacts DEF AfterMount, names, ghosts
<1>2. \/ Goto(c, "meta") /\ cmd[c].kind = "reingest" /\ UNCHANGED unit
      \/ Goto(c, "unmount") /\ cmd[c].kind = "apply" /\ UNCHANGED unit
      \/ End(c) /\ (EnableAutostart \/ UNCHANGED unit)
  BY DEF AfterMount, At
<1>3. CommandNames(c)' /\ CommandDaemons(c)'
  <2>1. CASE End(c)
    BY <1>1, <2>1, EndShow
  <2>2. CASE Goto(c, "meta") /\ cmd[c].kind = "reingest"
    <3>1. cmd'[c].kind = "reingest" /\ cmd'[c].pc = "meta" /\ cmd'[c].backing = cmd[c].backing
      BY <1>1, <2>2, GotoFacts
    <3> QED BY <1>1, <2>2, <3>1 DEF CommandNames, CommandDaemons, Early, Bound, At
  <2>3. CASE Goto(c, "unmount") /\ cmd[c].kind = "apply"
    <3>1. cmd'[c].kind = "apply" /\ cmd'[c].pc = "unmount"
      BY <1>1, <2>3, GotoFacts
    <3> QED BY <3>1 DEF CommandNames, CommandDaemons, Early, Bound, At
  <2> QED BY <1>2, <2>1, <2>2, <2>3
<1>4. unit'.active \/ unit'.enabled => load.systemd
  BY <1>1, <1>2 DEF EnableAutostart, ShowsOK
<1>5. DaemonsShow
  BY <1>1, <1>4 DEF DaemonsShow, ShowsOK, Live, Exists
<1> QED BY <1>1, <1>3, <1>5, StillShow

LEMMA MaintainShow ==
    ASSUME LifeInv, LifeInv', ShowInv, NEW c \in Commands, Maintain(c) PROVE ShowKept(c)
<1>1. TypeInv /\ ShowsOK /\ CommandsOK /\ CommandNames(c)
  BY ShowFacts
<1>2. CASE /\ BeginCompact(c) \/ BeginSeal(c) \/ OfflineCompact(c) \/ OfflineSeal(c)
           /\ UNCHANGED <<load, names, daemons, ghosts>>
  <2>1. PICK kind \in {"maintain", "offline"}, pc \in {"lock", "unmount"}, b \in Backends :
           /\ Begin(c, kind, pc, b)
           /\ kind = "maintain" => at["meta"] # None /\ b = at["meta"].backend
           /\ kind = "offline" => pc = "lock"
    <3>1. CASE BeginCompact(c)
      BY <1>1, <3>1, CommittedMeta, NameFacts DEF BeginCompact
    <3>2. CASE BeginSeal(c)
      BY <1>1, <3>2, MetaFacts, NameFacts DEF BeginSeal
    <3>3. CASE OfflineCompact(c)
      BY <3>3 DEF OfflineCompact
    <3>4. CASE OfflineSeal(c)
      BY <3>4, NameFacts DEF OfflineSeal
    <3> QED BY <1>2, <3>1, <3>2, <3>3, <3>4
  <2>2. cmd'[c].kind = kind /\ cmd'[c].pc = pc /\ cmd'[c].backing = b
    BY <1>1, <2>1, BeginFacts
  <2>3. CommandNames(c)' /\ CommandDaemons(c)'
    BY <1>2, <2>1, <2>2 DEF CommandNames, CommandDaemons, Early, Bound, At, names
  <2> QED BY <1>2, <2>3, OwnShow DEF daemons
<1>3. CASE UnmountClean(c, "maintain", "unmount", "wait")
  BY <1>3, UnmountCleanShow
<1>4. CASE WaitExit(c, "maintain", "wait", "lock")
  BY <1>4, WaitExitShow
<1>5. ASSUME cmd[c].kind \in {"maintain", "offline"}, NEW pc \in {"rewrite", "after"}, Goto(c, pc),
             UNCHANGED <<load, names, mount, daemon, serves, unit, ghosts>>
      PROVE  ShowKept(c)
  <2>1. CommandNames(c)' /\ cmd'[c].kind = cmd[c].kind
    BY <1>1, <1>5, GoesOn DEF names, ghosts
  <2>2. CommandDaemons(c)'
    BY <1>5, <2>1 DEF CommandDaemons, At
  <2> QED BY <1>5, <2>1, <2>2, OwnShow
<1>6. CASE Lock(c)
  BY <1>5, <1>6 DEF Lock
<1>7. CASE /\ cmd[c].kind \in {"maintain", "offline"} /\ cmd[c].pc = "rewrite"
           /\ Release(c)
           /\ Goto(c, "after")
           /\ UNCHANGED <<load, names, mount, daemon, serves, pid, unit, ghosts>>
  BY <1>5, <1>7
<1>8. CASE /\ cmd[c].kind \in {"maintain", "offline"} /\ cmd[c].pc = "after"
           /\ IF cmd[c].kind = "maintain" /\ cmd[c].mounted THEN Goto(c, "spawn") ELSE End(c)
           /\ UNCHANGED <<load, names, daemons, ghosts>>
  <2>1. CASE End(c)
    BY <1>1, <1>8, <2>1, EndShow, OwnShow DEF daemons
  <2>2. CASE cmd[c].kind = "maintain" /\ Goto(c, "spawn")
    <3>1. cmd'[c].kind = "maintain" /\ cmd'[c].pc = "spawn" /\ cmd'[c].backing = cmd[c].backing
      BY <1>1, <2>2, GotoFacts
    <3>2. CommandNames(c)' /\ CommandDaemons(c)'
      BY <1>1, <1>8, <2>2, <3>1 DEF CommandNames, CommandDaemons, Early, Bound, At, names
    <3> QED BY <1>8, <3>2, OwnShow DEF daemons
  <2> QED BY <1>8, <2>1, <2>2
<1> QED BY <1>2, <1>3, <1>4, <1>6, <1>7, <1>8 DEF Maintain

LEMMA RemountShow ==
    ASSUME LifeInv, LifeInv', ShowInv, NEW c \in Commands, Remount(c) PROVE ShowKept(c)
<1>1. TypeInv /\ CommandsOK /\ CommandOK(cmd[c])
  BY ShowFacts
<1>2. CASE BeginRemount(c)
  <2>1. PICK pc \in {"meta", "unmount"} : Begin(c, "remount", pc, None)
    BY <1>2 DEF BeginRemount
  <2>2. cmd'[c].kind = "remount" /\ cmd'[c].pc = pc
    BY <1>1, <2>1, BeginFacts
  <2>3. CommandNames(c)' /\ CommandDaemons(c)'
    BY <2>2 DEF CommandNames, CommandDaemons, Early, Bound, At
  <2> QED BY <1>2, <2>3, OwnShow DEF BeginRemount, daemons
<1>3. CASE UnmountAuto(c, "remount", "unmount", "meta")
  BY <1>3, UnmountAutoShow
<1>4. CASE /\ At(c, "remount", "meta")
           /\ IF Committed
              THEN cmd' = [cmd EXCEPT ![c].pc = "spawn", ![c].backing = MountSpec(at["meta"])]
              ELSE End(c)
           /\ UNCHANGED <<load, names, daemons, ghosts>>
  <2>1. CASE End(c)
    BY <1>1, <1>4, <2>1, EndShow, OwnShow DEF daemons
  <2>2. CASE Committed /\ cmd' = [cmd EXCEPT ![c].pc = "spawn", ![c].backing = MountSpec(at["meta"])]
    <3>1. cmd'[c].kind = "remount" /\ cmd'[c].pc = "spawn" /\ cmd'[c].backing = at["meta"].backend /\ at["meta"] # None
      BY <1>1, <1>4, <2>2, CommittedMeta, NameFacts DEF At, MountSpec, CommandsOK, CommandOK, Fields
    <3>2. CommandNames(c)' /\ CommandDaemons(c)'
      BY <1>4, <3>1 DEF CommandNames, CommandDaemons, Early, Bound, At, names
    <3> QED BY <1>4, <3>2, OwnShow DEF daemons
  <2> QED BY <1>4, <2>1, <2>2
<1> QED BY <1>2, <1>3, <1>4 DEF Remount

LEMMA UmountShow ==
    ASSUME LifeInv, LifeInv', ShowInv, NEW c \in Commands, Umount(c) \/ InstallAutostart(c) \/ Kill(c) PROVE ShowKept(c)
<1>1. TypeInv /\ ShowsOK /\ CommandsOK /\ UNCHANGED <<load, at, safeAt, tree, shown>>
  BY ShowFacts DEF Umount, InstallAutostart, Kill, names, ghosts
<1>2. CASE Umount(c)
  <2>1. CommandNames(c)' /\ CommandDaemons(c)'
    BY <1>2 DEF Umount, CommandNames, CommandDaemons, Early, Bound, At, Idle
  <2>2. DaemonsShow
    BY <1>1, <1>2, UnmountShow DEF Umount
  <2> QED BY <1>1, <2>1, <2>2, StillShow
<1>3. CASE InstallAutostart(c)
  <2>1. CommandNames(c)' /\ CommandDaemons(c)'
    BY <1>3 DEF InstallAutostart, CommandNames, CommandDaemons, Early, Bound, At, Idle
  <2>2. DaemonsShow
    BY <1>1, <1>3 DEF InstallAutostart, DaemonsShow, ShowsOK, Live, Exists
  <2> QED BY <1>1, <2>1, <2>2, StillShow
<1>4. CASE Kill(c)
  BY <1>1, <1>4, EndShow, OwnShow DEF Kill, ghosts, names
<1> QED BY <1>2, <1>3, <1>4

\* While no daemon is live the names may change: only what the sidecar names matters.
LEMMA NoneLiveShows ==
    ASSUME ShowsOK, Live = {}, UNCHANGED <<load, mount, daemon, serves>>,
           unit'.active \/ unit'.enabled => unit.active \/ unit.enabled,
           at'["meta"] # None /\ Exists(at["meta"].backend)' => shown' \subseteq Data(at["meta"].backend)'
    PROVE  ShowsOK' /\ Live' = {}
<1>1. Live' = {} /\ \A d \in Daemons : daemon'[d] \notin {"starting", "open", "serving"}
  BY DEF Live
<1> QED BY <1>1 DEF ShowsOK

\* The names stay, whatever is synced.
LEMMA NamesShow ==
    ASSUME ShowsOK, UNCHANGED <<load, at, tree, shown, mount, daemon, serves>>,
           unit'.active \/ unit'.enabled => unit.active \/ unit.enabled
    PROVE  ShowsOK' /\ Live' = Live
  BY DEF ShowsOK, Live, Data, Exists

\* back_root is made durable.
LEMMA SyncShow ==
    ASSUME TypeInv, ShowInv, Sync(Back), UNCHANGED <<load, at, tree, shown, mount, daemon, serves>>,
           unit'.active \/ unit'.enabled => unit.active \/ unit.enabled,
           Power /\ at["meta"] # None => shown \subseteq Safe(at["meta"].backend)
    PROVE  ShowsOK' /\ Live' = Live /\ (Power => DurableShows')
<1>1. ShowsOK' /\ Live' = Live
  BY NamesShow DEF ShowInv
<1>2. safeAt'["meta"] = at["meta"]
  BY NameFacts DEF Sync
<1> QED BY <1>1, <1>2 DEF DurableShows, Settled, Safe, Exists

\* A command that changes the project's directory only.
LEMMA ProjectsShow ==
    ASSUME LifeInv, ShowInv, NEW c \in Commands, UNCHANGED <<load, tree, shown, mount, daemon, serves>>,
           unit'.active \/ unit'.enabled => unit.active \/ unit.enabled,
           \A n \in Back : at'[n] = at[n] /\ safeAt'[n] = safeAt[n],
           CommandNames(c)', CommandDaemons(c)'
    PROVE  ShowKept(c)
<1>1. \A n \in Dirs : Data(n)' = Data(n) /\ Safe(n)' = Safe(n)
  BY NameFacts DEF Data, Safe, Exists
<1>2. BackSame /\ DaemonsStay /\ TypeInv
  BY <1>1 DEF BackSame, DaemonsStay, LifeInv
<1> QED BY <1>2, BackStays DEF ShowKept

-----------------------------------------------------------------------------

\* apply, until it writes the sidecar: there is nothing to show yet.
LEMMA EarlyShow ==
    ASSUME LifeInv, ShowInv, NEW c \in Commands, Early(c), UNCHANGED <<load, daemons>>, at'["meta"] = None,
           safeAt'["meta"] \in {safeAt["meta"], at["meta"]}, CommandNames(c)', CommandDaemons(c)'
    PROVE  ShowKept(c)
<1>1. Alone /\ ShowsOK /\ (Power => DurableShows) /\ None \notin Daemons
  BY ShowFacts, ProcessesAssumption DEF CommandInv
<1>2. ShowsOK'
  BY <1>1, AloneNoneLive, NoneLiveShows DEF daemons
<1>3. Power => safeAt["meta"] = None /\ at["meta"] = None
  BY <1>1 DEF DurableShows, Alone
<1>4. Power => DurableShows'
  BY <1>3 DEF DurableShows, Settled
<1> QED BY <1>2, <1>4 DEF ShowKept

EarlySteps == {"move", "sync", "mkdir", "backing", "copy", "fsync", "commit", "rollback", "back", "synced", "drop"}

LEMMA EarlyNames ==
    ASSUME NEW c \in Commands, cmd'[c].kind = "apply", NEW b, cmd'[c].backing = b, cmd'[c].pc \in EarlySteps,
           b = "container" => Data("container")' \subseteq Safe("container")',
           cmd'[c].pc \in {"fsync", "commit"} => Data("orig")' \subseteq Data(b)',
           cmd'[c].pc = "commit" => Data("orig")' \subseteq Safe(b)'
    PROVE  CommandNames(c)' /\ CommandDaemons(c)'
<1>1. cmd'[c].pc \in {"fsync", "commit"} => Data("orig")' \subseteq Data(cmd[c].backing)'
  BY DEF Data, Exists
<1>2. cmd'[c].pc = "commit" => Data("orig")' \subseteq Safe(cmd[c].backing)'
  BY DEF Safe, Exists
<1> QED BY <1>1, <1>2 DEF CommandNames, CommandDaemons, Bound, At, EarlySteps

\* What a step of apply may rely on while it can still roll back.
LEMMA EarlyFacts ==
    ASSUME LifeInv, ShowInv, NEW c \in Commands, Early(c), NEW b, b = cmd[c].backing
    PROVE  /\ TypeInv /\ StoreInv /\ CommandsOK /\ b \in Backends /\ b \in Dirs /\ b \in TreeNames /\ b \in Back
           /\ cmd[c].kind = "apply" /\ cmd[c].pc \in EarlySteps /\ at["meta"] = None
           /\ b = "container" => Data("container") \subseteq Safe("container")
           /\ cmd[c].pc \in {"fsync", "commit"} => Data("orig") \subseteq Data(b)
           /\ cmd[c].pc = "commit" => Data("orig") \subseteq Safe(b)
<1>1. TypeInv /\ StoreInv /\ CommandsOK /\ CommandOK(cmd[c]) /\ CommandInv(c) /\ CommandNames(c)
  BY ShowFacts
<1> QED BY <1>1, NameFacts DEF CommandOK, CommandInv, Alone, CommandNames, Early, At, EarlySteps

LEMMA BeginApplyShow ==
    ASSUME LifeInv, LifeInv', ShowInv, NEW c \in Commands, BeginApply(c) PROVE ShowKept(c)
<1>1. TypeInv /\ CommandsOK /\ UNCHANGED <<load, names, daemons, ghosts>>
  BY ShowFacts DEF BeginApply
<1>2. PICK b \in load.backends : CanApply(b) /\ Begin(c, "apply", "move", b)
  BY DEF BeginApply
<1>3. cmd'[c].kind = "apply" /\ cmd'[c].pc = "move" /\ cmd'[c].backing = b
  BY <1>1, <1>2, BeginFacts
<1>4. b = "container" => Data("container")' = {}
  BY <1>1, <1>2 DEF CanApply, Occupied, Data, Exists, names
<1>5. CommandNames(c)' /\ CommandDaemons(c)'
  BY <1>3, <1>4, EarlyNames DEF EarlySteps
<1> QED BY <1>1, <1>5, OwnShow DEF daemons

\* A step of apply that keeps the data of back_root.
LEMMA EarlyStays ==
    ASSUME LifeInv, ShowInv, NEW c \in Commands, Early(c), UNCHANGED <<load, daemons>>, at'["meta"] = at["meta"],
           safeAt'["meta"] \in {safeAt["meta"], at["meta"]},
           Data("container")' = Data("container"), Safe("container")' = Safe("container"),
           NEW pc \in EarlySteps \ {"fsync", "commit"}, Goto(c, pc)
    PROVE  ShowKept(c)
<1>1. PICK b : b = cmd[c].backing
  OBVIOUS
<1>2. cmd'[c].kind = "apply" /\ cmd'[c].pc = pc /\ cmd'[c].backing = b /\ at["meta"] = None
      /\ (b = "container" => Data("container") \subseteq Safe("container"))
  BY <1>1, EarlyFacts, GotoFacts
<1>3. CommandNames(c)' /\ CommandDaemons(c)'
  BY <1>2, EarlyNames
<1> QED BY <1>2, <1>3, EarlyShow

LEMMA ApplyMoveShow ==
    ASSUME LifeInv, LifeInv', ShowInv, NEW c \in Commands, ApplyMove(c) PROVE ShowKept(c)
<1>1. Early(c)
  BY DEF ApplyMove, At, Early
<1>2. PICK b : b = cmd[c].backing
  OBVIOUS
<1>3. TypeInv /\ CommandsOK /\ b \in Backends /\ b \in TreeNames /\ cmd[c].kind = "apply" /\ at["meta"] = None
      /\ (b = "container" => Data("container") \subseteq Safe("container"))
  BY <1>1, <1>2, EarlyFacts
<1>4. UNCHANGED <<load, daemons>>
  BY DEF ApplyMove
<1>5. "container" \in TreeNames /\ "container" \in Names /\ "meta" \in Names /\ "container" \notin Projects /\ "meta" \notin Projects
      /\ "mp" \in TreeNames /\ "meta" # "mp" /\ "container" # "mp"
  BY NameFacts
<1>6. CASE Rename("mp", "orig") /\ Goto(c, "sync") /\ UNCHANGED <<tree, safeAt>>
  <2>1. "mp" # "orig" /\ "mp" \in Projects /\ "orig" \in Projects
    BY DEF Projects
  <2>2. at'["container"] = at["container"] /\ at'["meta"] = at["meta"]
    BY <1>3, <1>5, <1>6, <2>1, RenameOK DEF Rename
  <2>3. Data("container")' = Data("container") /\ Safe("container")' = Safe("container")
    BY <1>6, <2>2 DEF Data, Safe, Exists
  <2> QED BY <1>1, <1>4, <1>6, <2>2, <2>3, EarlyStays DEF EarlySteps
<1>7. CASE UNCHANGED at /\ End(c) /\ UNCHANGED <<tree, safeAt>>
  BY <1>1, <1>3, <1>4, <1>7, EndShow, EarlyShow
<1>8. CASE Sync(Projects) /\ Goto(c, "mkdir") /\ UNCHANGED <<at, tree>>
  <2>1. safeAt'["meta"] = safeAt["meta"]
    BY <1>5, <1>8 DEF Sync
  <2>2. Data("container")' = Data("container") /\ Safe("container")' = Safe("container")
    BY <1>8 DEF Data, Safe, Exists
  <2> QED BY <1>1, <1>4, <1>8, <2>1, <2>2, EarlyStays DEF EarlySteps
<1>9. CASE MakeDir("mp") /\ Goto(c, "backing") /\ UNCHANGED safeAt
  <2>1. /\ at'["container"] = at["container"] /\ at'["meta"] = at["meta"]
        /\ at["container"] # None => tree'[at["container"]] = tree[at["container"]]
    BY <1>3, <1>5, <1>9, MakeDirOK, NamesHere
  <2>2. Data("container")' = Data("container") /\ Safe("container")' = Safe("container")
    BY <2>1 DEF Data, Safe, Exists
  <2> QED BY <1>1, <1>4, <1>9, <2>1, <2>2, EarlyStays DEF EarlySteps
<1>10. CASE MakeDir(cmd[c].backing) /\ Goto(c, "copy") /\ UNCHANGED safeAt
  <2>1. cmd'[c].kind = "apply" /\ cmd'[c].pc = "copy" /\ cmd'[c].backing = b
    BY <1>2, <1>3, <1>10, GotoFacts
  <2>2. tree'[at'[b]] = NoTree /\ at'["meta"] = at["meta"] /\ at'[b] \in Trees
    BY <1>2, <1>3, <1>5, <1>10, MakeDirOK, NameFacts
  <2>3. Data(b)' = {}
    BY <2>2 DEF Data, NoTree
  <2>4. CommandNames(c)' /\ CommandDaemons(c)'
    BY <2>1, <2>3, EarlyNames DEF EarlySteps
  <2> QED BY <1>1, <1>3, <1>4, <1>10, <2>2, <2>4, EarlyShow
<1>11. CASE UNCHANGED <<at, tree, safeAt>> /\ (Goto(c, "copy") \/ Goto(c, "rollback"))
  <2>1. Data("container")' = Data("container") /\ Safe("container")' = Safe("container")
    BY <1>11 DEF Data, Safe, Exists
  <2> QED BY <1>1, <1>4, <1>11, <2>1, EarlyStays DEF EarlySteps
<1> QED BY <1>6, <1>7, <1>8, <1>9, <1>10, <1>11 DEF ApplyMove, names

LEMMA RollbackShow ==
    ASSUME LifeInv, LifeInv', ShowInv, NEW c \in Commands, Rollback(c) PROVE ShowKept(c)
<1>1. Early(c)
  BY DEF Rollback, At, Early
<1>2. PICK b : b = cmd[c].backing
  OBVIOUS
<1>3. TypeInv /\ CommandsOK /\ b \in Backends /\ b \in Names /\ at["meta"] = None
  BY <1>1, <1>2, EarlyFacts, NameFacts
<1>4. UNCHANGED <<load, daemons, tree>>
  BY DEF Rollback
<1>5. "container" \in Names /\ "meta" \in Names /\ "container" \notin Projects /\ "meta" \notin Projects /\ "mp" \in Names
      /\ "mp" # "meta" /\ "mp" # "container"
  BY NameFacts
<1>6. ASSUME at'["container"] = at["container"], at'["meta"] = at["meta"], safeAt'["meta"] = safeAt["meta"],
             NEW pc \in {"back", "synced", "drop"}, Goto(c, pc)
      PROVE  ShowKept(c)
  <2>1. Data("container")' = Data("container") /\ Safe("container")' = Safe("container")
    BY <1>4, <1>6 DEF Data, Safe, Exists
  <2> QED BY <1>1, <1>4, <1>6, <2>1, EarlyStays DEF EarlySteps
<1>7. CASE at' = [at EXCEPT !["mp"] = None] /\ Goto(c, "back") /\ UNCHANGED safeAt
  BY <1>3, <1>5, <1>6, <1>7, NameSet
<1>8. CASE at' = Renamed("orig", "mp") /\ Goto(c, "synced") /\ UNCHANGED safeAt
  <2>1. "mp" # "orig" /\ "mp" \in Projects /\ "orig" \in Projects
    BY DEF Projects
  <2>2. at'["container"] = at["container"] /\ at'["meta"] = at["meta"]
    BY <1>3, <1>4, <1>5, <1>8, <2>1, RenameOK
  <2> QED BY <1>6, <1>8, <2>2
<1>9. CASE UNCHANGED <<at, safeAt>> /\ (Goto(c, "back") \/ Goto(c, "synced"))
  BY <1>6, <1>9
<1>10. CASE Sync(Projects) /\ Goto(c, "drop") /\ UNCHANGED at
  <2>1. safeAt'["meta"] = safeAt["meta"]
    BY <1>5, <1>10 DEF Sync
  <2> QED BY <1>6, <1>10, <2>1
<1>11. CASE at' = [at EXCEPT ![cmd[c].backing] = None, !["meta"] = None] /\ End(c) /\ UNCHANGED safeAt
  <2>1. at'["meta"] = None
    BY <1>3, <1>5, <1>11, NamesHere
  <2> QED BY <1>1, <1>3, <1>4, <1>11, <2>1, EndShow, EarlyShow
<1> QED BY <1>7, <1>8, <1>9, <1>10, <1>11 DEF Rollback

\* Copying changes the new tree only, and a transaction of the container is durable.
LEMMA CopyFacts ==
    ASSUME TypeInv, StoreInv, UNCHANGED <<load, at, safeAt, session, written>>,
           NEW n \in Backends \cup {"tmp"}, NEW r \in Data("orig"),
           IF n = "container" THEN IngestFileIntoStore(at[n], r) ELSE IngestFile(at[n], r)
    PROVE  /\ \A m \in TreeNames : m # n => Data(m)' = Data(m) /\ Safe(m)' = Safe(m)
           /\ Data(n) \subseteq Data(n)'
           /\ n = "container" /\ Data(n) \subseteq Safe(n) => Data(n)' \subseteq Safe(n)'
<1>0. n \in TreeNames /\ "orig" \in TreeNames
  BY NameFacts
<1>1. \A m \in TreeNames : Data(m)' = IF m = n /\ Exists(n) THEN Data(m) \cup {r} ELSE Data(m)
  BY StoreIngest
<1>2. \A m \in TreeNames : m # n => Safe(m)' = Safe(m)
  <2> SUFFICES ASSUME NEW m \in TreeNames, m # n, at[m] # None PROVE tree'[at[m]] = tree[at[m]]
    BY DEF Safe, Exists
  <2>1. at[m] \in Trees /\ at[m] # at[n] /\ DOMAIN tree = Trees
    BY <1>0, NamesHere
  <2> QED BY <2>1 DEF IngestFile, IngestFileIntoStore
<1>3. ASSUME n = "container", Data(n) \subseteq Safe(n) PROVE Data(n)' \subseteq Safe(n)'
  <2>1. CASE at[n] = None
    BY <2>1 DEF Data, Safe, Exists
  <2>2. CASE at[n] # None
    <3>1. at[n] \in Trees /\ DOMAIN tree = Trees
      BY <1>0, <2>2, NamesHere
    <3>2. tree'[at[n]] = [data |-> tree[at[n]].data \cup {r}, safe |-> tree[at[n]].safe \cup {r}]
      BY <1>3, <3>1 DEF IngestFileIntoStore
    <3> QED BY <1>3, <2>2, <3>2 DEF Data, Safe, Exists
  <2> QED BY <2>1, <2>2
<1> QED BY <1>0, <1>1, <1>2, <1>3

LEMMA ApplyCopyShow ==
    ASSUME LifeInv, LifeInv', ShowInv, NEW c \in Commands, CopyInto(c, "apply", "copy", cmd[c].backing, "fsync")
    PROVE  ShowKept(c)
<1>1. Early(c) /\ UNCHANGED <<load, at, safeAt, daemons, session, written>> /\ cmd[c].kind = "apply" /\ cmd[c].pc = "copy"
  BY DEF CopyInto, At, Early, ghosts
<1>2. PICK b : b = cmd[c].backing
  OBVIOUS
<1>3. TypeInv /\ StoreInv /\ CommandsOK /\ b \in Backends /\ b \in TreeNames /\ b \in Dirs /\ at["meta"] = None
      /\ (b = "container" => Data("container") \subseteq Safe("container"))
  BY <1>1, <1>2, EarlyFacts
<1>4. ASSUME NEW r \in Data("orig"), UNCHANGED cmd,
             IF b = "container" THEN IngestFileIntoStore(at[b], r) ELSE IngestFile(at[b], r)
      PROVE  ShowKept(c)
  <2>1. b = "container" => Data("container")' \subseteq Safe("container")'
    BY <1>1, <1>3, <1>4, CopyFacts
  <2>2. CommandNames(c)' /\ CommandDaemons(c)'
    BY <1>1, <1>2, <1>4, <2>1, EarlyNames DEF EarlySteps
  <2> QED BY <1>1, <1>3, <2>2, EarlyShow
<1>5. CASE Verified(b) /\ Goto(c, "fsync") /\ UNCHANGED tree
  <2>1. cmd'[c].kind = "apply" /\ cmd'[c].pc = "fsync" /\ cmd'[c].backing = b
    BY <1>1, <1>2, <1>3, <1>5, GotoFacts
  <2>2. \A n : Data(n)' = Data(n) /\ Safe(n)' = Safe(n)
    BY <1>1, <1>5 DEF Data, Safe, Exists
  <2>3. CommandNames(c)' /\ CommandDaemons(c)'
    BY <1>3, <1>5, <2>1, <2>2, EarlyNames DEF EarlySteps, Verified
  <2> QED BY <1>1, <1>3, <2>3, EarlyShow
<1> QED BY <1>2, <1>4, <1>5 DEF CopyInto

LEMMA ApplyCommitShow ==
    ASSUME LifeInv, LifeInv', ShowInv, NEW c \in Commands, ApplyCommit(c) PROVE ShowKept(c)
<1>1. UNCHANGED <<load, daemons, session, written>> /\ cmd[c].kind = "apply"
  BY DEF ApplyCommit, At
<1>2. PICK b : b = cmd[c].backing
  OBVIOUS
<1>3. /\ TypeInv /\ StoreInv /\ CommandsOK /\ CommandOK(cmd[c]) /\ CommandNames(c) /\ CommandDaemons(c)
      /\ ShowsOK /\ (Power => DurableShows) /\ b \in Backends /\ b \in TreeNames
  BY <1>1, <1>2, ShowFacts, NameFacts DEF CommandOK
<1>4. ASSUME At(c, "apply", "fsync") \/ At(c, "apply", "commit")
      PROVE  /\ Early(c) /\ at["meta"] = None /\ Alone /\ Data("orig") \subseteq Data(b)
             /\ b = "container" => Data("container") \subseteq Safe("container")
             /\ cmd[c].pc = "commit" => Data("orig") \subseteq Safe(b)
  <2>1. Early(c) /\ cmd[c].pc \in {"fsync", "commit"}
    BY <1>4 DEF Early, At
  <2> QED BY <1>2, <2>1, EarlyFacts DEF LifeInv, CommandInv
<1>5. ASSUME At(c, "apply", "fsync"), Goto(c, "commit"), UNCHANGED at, safeAt'["meta"] \in {safeAt["meta"], at["meta"]},
             b = "container" => Data("container")' \subseteq Safe("container")',
             Data("orig")' \subseteq Data(b)', Data("orig")' \subseteq Safe(b)'
      PROVE  ShowKept(c)
  <2>1. cmd'[c].kind = "apply" /\ cmd'[c].pc = "commit" /\ cmd'[c].backing = b
    BY <1>1, <1>2, <1>3, <1>5, GotoFacts
  <2>2. CommandNames(c)' /\ CommandDaemons(c)'
    BY <1>5, <2>1, EarlyNames DEF EarlySteps
  <2> QED BY <1>1, <1>4, <1>5, <2>2, EarlyShow
<1>6. CASE /\ At(c, "apply", "fsync") /\ Goto(c, "commit") /\ b = "shadow"
           /\ tree' = FsyncTree(at["shadow"]) /\ UNCHANGED <<safeAt, at, shown>>
  <2>1. \A m \in TreeNames : Data(m)' = Data(m)
    BY <1>1, <1>3, <1>6, StoreFsync
  <2>2. Safe(b)' = Data(b)
    <3>1. CASE at[b] = None
      BY <1>6, <3>1 DEF Safe, Data, Exists
    <3>2. CASE at[b] # None
      <4>1. at[b] \in Trees /\ DOMAIN tree = Trees /\ "safe" \in DOMAIN tree[at[b]]
        BY <1>3, <3>2, NamesHere DEF TypeInv, NamesOK
      <4> QED BY <1>6, <3>2, <4>1 DEF Safe, Data, Exists, FsyncTree
    <3> QED BY <3>1, <3>2
  <2> QED BY <1>3, <1>4, <1>5, <1>6, <2>1, <2>2, NameFacts
<1>7. CASE /\ At(c, "apply", "fsync") /\ Goto(c, "commit") /\ b # "shadow" /\ Sync(Back) /\ UNCHANGED <<tree, at, shown>>
  <2>1. b = "container"
    BY <1>3, <1>7 DEF Backends
  <2>2. safeAt'["meta"] = at["meta"]
    BY <1>7, NameFacts DEF Sync
  <2>3. \A n : Data(n)' = Data(n) /\ Safe(n)' = Safe(n)
    BY <1>7 DEF Data, Safe, Exists
  <2>4. Data("orig") \subseteq Data("container") /\ Data("container") \subseteq Safe("container")
    BY <1>4, <1>7, <2>1
  <2> QED BY <1>5, <1>7, <2>1, <2>2, <2>3, <2>4
<1>8. CASE At(c, "apply", "commit") /\ End(c) /\ UNCHANGED <<names, shown>>
  BY <1>1, <1>3, <1>4, <1>8, EndShow, EarlyShow DEF names
<1>9. CASE At(c, "apply", "commit") /\ WriteMeta(MetaOf(cmd[c].backing)) /\ Goto(c, "durable") /\ shown' = Data("orig")
           /\ UNCHANGED <<safeAt, tree>>
  <2>0. MetaOf(b) \in Meta /\ MetaOf(b).backend = b /\ MetaOf(b) # None
    BY <1>3, MetaFacts
  <2>1. at'["meta"] = MetaOf(b) /\ at'["meta"] # None /\ at'["meta"].backend = b /\ \A n \in TreeNames : at'[n] = at[n]
    BY <1>2, <1>3, <1>9, <2>0, MetaOK DEF WriteMeta
  <2>2. Data(b)' = Data(b) /\ Safe(b)' = Safe(b) /\ Data("orig")' = Data("orig")
    BY <1>3, <1>9, <2>1, NameFacts DEF Data, Safe, Exists
  <2>3. shown' \subseteq Data(b)' /\ shown' \subseteq Safe(b)'
    BY <1>4, <1>9, <2>2 DEF At
  <2>4. shown' \subseteq Data(at["meta"].backend)' /\ shown' \subseteq Safe(at["meta"].backend)'
    BY <2>1, <2>3 DEF Data, Safe, Exists
  <2>5. Live = {}
    BY <1>3, <1>4, <1>9, AloneNoneLive, ProcessesAssumption
  <2>6. ShowsOK'
    BY <1>1, <1>3, <2>4, <2>5, NoneLiveShows DEF daemons
  <2>7. cmd'[c].kind = "apply" /\ cmd'[c].pc = "durable" /\ cmd'[c].backing = b
    BY <1>1, <1>2, <1>3, <1>9, GotoFacts
  <2>8. Power => safeAt'["meta"] = None
    BY <1>3, <1>4, <1>9 DEF DurableShows
  <2>9. shown' \subseteq Safe(cmd[c].backing)'
    BY <2>3, <2>7 DEF Safe, Exists
  <2>10. CommandNames(c)' /\ CommandDaemons(c)'
    BY <1>1, <2>1, <2>7, <2>8, <2>9 DEF CommandNames, CommandDaemons, Early, Bound, At, Power
  <2>11. Power => DurableShows'
    BY <2>1, <2>8 DEF DurableShows, Settled
  <2> QED BY <2>6, <2>10, <2>11 DEF ShowKept
<1>10. CASE At(c, "apply", "durable") /\ Sync(Back) /\ Goto(c, "spawn") /\ UNCHANGED <<at, tree, shown>>
  <2>1. at["meta"] # None /\ at["meta"].backend = b /\ shown \subseteq Safe(b)
    BY <1>2, <1>3, <1>10 DEF CommandNames, Bound
  <2>2. ShowsOK' /\ (Power => DurableShows')
    BY <1>1, <1>3, <1>10, <2>1, SyncShow DEF daemons
  <2>3. cmd'[c].kind = "apply" /\ cmd'[c].pc = "spawn" /\ cmd'[c].backing = b
    BY <1>1, <1>2, <1>3, <1>10, GotoFacts
  <2>4. CommandNames(c)' /\ CommandDaemons(c)'
    BY <1>10, <2>1, <2>3 DEF CommandNames, CommandDaemons, Early, Bound, At
  <2> QED BY <2>2, <2>4 DEF ShowKept
<1> QED BY <1>2, <1>6, <1>7, <1>8, <1>9, <1>10 DEF ApplyCommit

LEMMA ApplyShow ==
    ASSUME LifeInv, LifeInv', ShowInv, NEW c \in Commands, Apply(c) PROVE ShowKept(c)
<1>1. CASE UnmountAuto(c, "apply", "unmount", "end")
  BY <1>1, UnmountAutoShow
<1> QED BY <1>1, BeginApplyShow, ApplyMoveShow, ApplyCopyShow, ApplyCommitShow, RollbackShow DEF Apply

-----------------------------------------------------------------------------

LEMMA RestoreShow ==
    ASSUME LifeInv, LifeInv', ShowInv, OneCommand, NEW c \in Commands, Restore(c) PROVE ShowKept(c)
<1>1. TypeInv /\ ShowsOK /\ CommandsOK /\ (Power => QuietOK) /\ (Power => DurableShows)
      /\ unit \in [active : BOOLEAN, enabled : BOOLEAN]
  BY ShowFacts, LifeFacts
<1>2. ASSUME NEW pc \in {"unmount", "rename", "sync", "meta", "durable"}, cmd'[c].kind = "restore", cmd'[c].pc = pc
      PROVE  CommandNames(c)' /\ CommandDaemons(c)'
  BY <1>2 DEF CommandNames, CommandDaemons, Early, Bound, At
<1>3. CASE BeginRestore(c)
  <2>1. cmd'[c].kind = "restore" /\ cmd'[c].pc = "unmount"
    BY <1>1, <1>3, BeginFacts DEF BeginRestore
  <2> QED BY <1>2, <1>3, <2>1, OwnShow DEF BeginRestore, daemons
<1>4. CASE UnmountAuto(c, "restore", "unmount", "rmdir")
  BY <1>4, UnmountAutoShow
<1>5. ASSUME UNCHANGED <<load, tree, mount, daemon, serves, flock, ghosts>>, cmd[c].kind = "restore",
             IF cmd[c].pc = "durable" THEN DisableAutostart ELSE UNCHANGED unit
      PROVE  /\ unit'.active \/ unit'.enabled => unit.active \/ unit.enabled
             /\ shown' = shown
             /\ \A pc \in {"unmount", "rename", "sync", "meta", "durable"} :
                   Goto(c, pc) => CommandNames(c)' /\ CommandDaemons(c)'
             /\ End(c) => CommandNames(c)' /\ CommandDaemons(c)'
  <2>1. unit'.active \/ unit'.enabled => unit.active \/ unit.enabled
    BY <1>1, <1>5 DEF DisableAutostart
  <2>2. \A pc \in {"unmount", "rename", "sync", "meta", "durable"} : Goto(c, pc) => cmd'[c].kind = "restore" /\ cmd'[c].pc = pc
    BY <1>1, <1>5, GotoFacts
  <2> QED BY <1>1, <1>2, <1>5, <2>1, <2>2, EndShow DEF ghosts
<1>6. ASSUME UNCHANGED <<load, tree, mount, daemon, serves, flock, ghosts>>, cmd[c].kind = "restore",
             IF cmd[c].pc = "durable" THEN DisableAutostart ELSE UNCHANGED unit,
             \A n \in Back : at'[n] = at[n] /\ safeAt'[n] = safeAt[n],
             End(c) \/ \E pc \in {"rename", "sync", "meta"} : Goto(c, pc)
      PROVE  ShowKept(c)
  BY <1>5, <1>6, ProjectsShow
<1>7. CASE /\ \/ /\ At(c, "restore", "rmdir")
                 /\ IF CanRemove("mp")
                    THEN at' = [at EXCEPT !["mp"] = None] /\ Goto(c, "rename")
                    ELSE UNCHANGED at /\ End(c)
                 /\ UNCHANGED safeAt
              \/ /\ At(c, "restore", "rename")
                 /\ IF CanRename("orig", "mp")
                    THEN Rename("orig", "mp") /\ Goto(c, "sync")
                    ELSE UNCHANGED at /\ End(c)
                 /\ UNCHANGED safeAt
              \/ /\ At(c, "restore", "sync") /\ Sync(Projects) /\ Goto(c, "meta")
                 /\ UNCHANGED at
              \/ /\ At(c, "restore", "meta")
                 /\ at' = IF Committed THEN [at EXCEPT !["meta"].committed = FALSE] ELSE at
                 /\ Goto(c, "durable")
                 /\ UNCHANGED safeAt
              \/ /\ At(c, "restore", "durable") /\ Sync(Back) /\ End(c)
                 /\ UNCHANGED at
           /\ IF cmd[c].pc = "durable" THEN DisableAutostart ELSE UNCHANGED unit
           /\ UNCHANGED <<load, tree, mount, daemon, serves, flock, ghosts>>
  <2>0. cmd[c].kind = "restore"
    BY <1>7 DEF At
  <2>1. CASE at' = [at EXCEPT !["mp"] = None] /\ Goto(c, "rename") /\ UNCHANGED safeAt
    <3>1. \A n \in Back : at'[n] = at[n] /\ safeAt'[n] = safeAt[n]
      BY <1>1, <2>1, NameSet, NameFacts DEF Back
    <3> QED BY <1>6, <1>7, <2>0, <2>1, <3>1
  <2>2. CASE UNCHANGED at /\ End(c) /\ UNCHANGED safeAt
    BY <1>6, <1>7, <2>0, <2>2
  <2>3. CASE Rename("orig", "mp") /\ Goto(c, "sync") /\ UNCHANGED safeAt
    <3>0. "mp" # "orig" /\ "mp" \in Projects /\ "orig" \in Projects
      BY DEF Projects
    <3>1. \A n \in Back : at'[n] = at[n] /\ safeAt'[n] = safeAt[n]
      BY <1>1, <1>7, <2>3, <3>0, RenameOK, NameFacts DEF Rename, Back
    <3> QED BY <1>6, <1>7, <2>0, <2>3, <3>1
  <2>4. CASE Sync(Projects) /\ Goto(c, "meta") /\ UNCHANGED at
    <3>1. \A n \in Back : at'[n] = at[n] /\ safeAt'[n] = safeAt[n]
      BY <2>4 DEF Sync, Back
    <3> QED BY <1>6, <1>7, <2>0, <2>4, <3>1
  <2>5. CASE /\ at' = IF Committed THEN [at EXCEPT !["meta"].committed = FALSE] ELSE at
             /\ Goto(c, "durable")
             /\ UNCHANGED safeAt
    <3>1. /\ \A n \in TreeNames : at'[n] = at[n]
          /\ at'["meta"] = None <=> at["meta"] = None
          /\ at["meta"] # None => at'["meta"].backend = at["meta"].backend
      <4>1. CASE ~Committed
        BY <2>5, <4>1
      <4>2. CASE Committed
        <5>1. at["meta"] \in Meta
          BY <1>1, <4>2, CommittedMeta
        <5>2. at' = [at EXCEPT !["meta"] = [at["meta"] EXCEPT !.committed = FALSE]]
          BY <2>5, <4>2
        <5>3. [at["meta"] EXCEPT !.committed = FALSE] \in Meta
              /\ [at["meta"] EXCEPT !.committed = FALSE].backend = at["meta"].backend
          BY <5>1, MetaFacts
        <5>4. at'["meta"] = [at["meta"] EXCEPT !.committed = FALSE] /\ \A n \in TreeNames : at'[n] = at[n]
          BY <1>1, <1>7, <2>5, <5>2, <5>3, MetaOK
        <5> QED BY <5>1, <5>3, <5>4, NameFacts
      <4> QED BY <4>1, <4>2
    <3>2. \A b \in Backends : at'[b] = at[b] /\ Data(b)' = Data(b) /\ Safe(b)' = Safe(b)
      BY <1>7, <3>1, NameFacts DEF Data, Safe, Exists
    <3>3. /\ unit'.active \/ unit'.enabled => unit.active \/ unit.enabled
          /\ shown' = shown /\ CommandNames(c)' /\ CommandDaemons(c)'
      BY <1>5, <1>7, <2>0, <2>5
    <3>4. \A d \in Daemons : daemon'[d] \in {"open", "serving"} => Exists(serves[d])'
      <4> SUFFICES ASSUME NEW d \in Daemons, daemon[d] \in {"open", "serving"} PROVE Exists(serves[d])'
        BY <1>7
      <4>1. PICK b \in Backends : b = serves[d]
        BY <1>1, ServesBackend
      <4>2. Exists(b)
        BY <1>1, <4>1 DEF ShowsOK
      <4> QED BY <1>7, <3>2, <4>1, <4>2 DEF Exists
    <3>5. DaemonsShow
      BY <1>1, <1>7, <3>3, <3>4 DEF DaemonsShow, ShowsOK, Live
    <3>6. serves' \in [Daemons -> Backends \cup {None}]
      BY DEF LifeInv, TypeInv, DaemonsOK
    <3> QED BY <1>1, <2>5, <3>1, <3>2, <3>3, <3>5, <3>6, BackendsShow DEF ShowKept
  <2>6. CASE At(c, "restore", "durable") /\ Sync(Back) /\ End(c) /\ UNCHANGED at
    <3>1. ~At(c, "apply", "durable")
      BY <2>6 DEF At
    <3>2. Power /\ at["meta"] # None => shown \subseteq Safe(at["meta"].backend)
      BY <1>1, <3>1, SettledHere DEF DurableShows
    <3>3. /\ unit'.active \/ unit'.enabled => unit.active \/ unit.enabled
          /\ shown' = shown /\ CommandNames(c)' /\ CommandDaemons(c)'
      BY <1>5, <1>7, <2>0, <2>6
    <3> QED BY <1>1, <1>7, <2>6, <3>2, <3>3, SyncShow DEF ShowKept
  <2> QED BY <1>7, <2>1, <2>2, <2>3, <2>4, <2>5, <2>6
<1> QED BY <1>3, <1>4, <1>7 DEF Restore

LEMMA PurgeShow ==
    ASSUME LifeInv, LifeInv', ShowInv, Supported(Workloads), NEW c \in Commands, Purge(c) PROVE ShowKept(c)
<1>1. /\ TypeInv /\ ShowsOK /\ CommandsOK /\ CommandNames(c) /\ CommandDaemons(c) /\ CommandInv(c)
      /\ UNCHANGED <<load, safeAt, tree, daemons>> /\ DOMAIN at = Names /\ None \notin Daemons
  BY ShowFacts, NamesHere, ProcessesAssumption DEF Purge
<1>2. ~Power
  <2>1. "purge" \in load.commands
    BY <1>1 DEF Purge, Run, At, CommandInv
  <2> QED BY <1>1, <2>1, PowerFacts
<1>3. CASE /\ mount = None /\ Begin(c, "purge", "meta", None)
           /\ at' = [n \in Names |-> IF n \in Purged THEN None ELSE at[n]]
           /\ shown' = {}
  <2>1. cmd'[c].kind = "purge" /\ cmd'[c].pc = "meta" /\ \A d \in Daemons : daemon[d] \notin {"starting", "open"}
    BY <1>1, <1>3, BeginFacts
  <2>2. Live = {}
    BY <1>1, <1>3, <2>1 DEF ShowsOK, Live
  <2>3. ShowsOK' /\ Live' = {}
    BY <1>1, <1>3, <2>2, NoneLiveShows DEF daemons
  <2>4. "meta" \notin Purged /\ "meta" \in Names
    BY <1>1, NamesHere, NameFacts DEF Purged, Exists
  <2>5. at'["meta"] = at["meta"]
    BY <1>1, <1>3, <2>4
  <2>6. at["meta"] # None => at'[at["meta"].backend] = None
    BY <1>1, <1>3, NamesHere, NameFacts DEF Purged, Exists
  <2>7. CommandNames(c)' /\ CommandDaemons(c)'
    BY <2>1, <2>3, <2>5, <2>6 DEF CommandNames, CommandDaemons, Early, Bound, At, Exists
  <2> QED BY <1>2, <2>3, <2>7 DEF ShowKept
<1>4. CASE At(c, "purge", "meta") /\ at' = [at EXCEPT !["meta"] = None] /\ End(c) /\ UNCHANGED ghosts
  <2>1. at'["meta"] = None /\ \A n \in Names \ {"meta"} : at'[n] = at[n]
    BY <1>1, <1>4, NameFacts
  <2>2. \A d \in Live : ~Exists(serves[d])
    BY <1>1, <1>4 DEF CommandDaemons
  <2>3. \A d \in Live : ~Exists(serves[d])' /\ daemon[d] = "starting"
    <3> SUFFICES ASSUME NEW d \in Live PROVE ~Exists(serves[d])' /\ daemon[d] = "starting"
      OBVIOUS
    <3>1. PICK b \in Backends : b = serves[d]
      BY <1>1, ServesBackend DEF Live
    <3>2. at[b] = None /\ at'[b] = at[b]
      BY <2>1, <2>2, <3>1, NameFacts DEF Exists
    <3> QED BY <1>1, <2>2, <3>1, <3>2 DEF Exists, daemons, Live, ShowsOK
  <2>4. ShowsOK'
    BY <1>1, <2>1, <2>3 DEF ShowsOK, Live, daemons
  <2> QED BY <1>1, <1>2, <1>4, <2>4, EndShow DEF ShowKept
<1> QED BY <1>3, <1>4 DEF Purge

\* Where the backings and the sidecar's backend stay, and no power loss is possible.
LEMMA BackendsStay ==
    ASSUME LifeInv, LifeInv', ShowInv, NEW c \in Commands, UNCHANGED <<load, daemons, shown>>,
           \A b \in Backends : at'[b] = at[b] /\ Data(b)' = Data(b),
           at'["meta"] = at["meta"], ~Power, CommandNames(c)', CommandDaemons(c)'
    PROVE  ShowKept(c)
<1>1. TypeInv /\ ShowsOK
  BY DEF LifeInv, ShowInv
<1>2. \A b \in Backends : Exists(b)' = Exists(b) /\ Data(b)' = Data(b)
  BY DEF Exists
<1>3. at'["meta"] # None /\ Exists(at["meta"].backend)' => shown' \subseteq Data(at["meta"].backend)'
  <2> SUFFICES ASSUME at'["meta"] # None, Exists(at["meta"].backend)' PROVE shown' \subseteq Data(at["meta"].backend)'
    OBVIOUS
  <2>1. PICK b \in Backends : b = at["meta"].backend
    BY <1>1, NamesHere
  <2>2. shown' \subseteq Data(b)'
    BY <1>1, <1>2, <2>1 DEF ShowsOK, Exists
  <2> QED BY <2>1, <2>2 DEF Data, Exists
<1>4. \A d \in Daemons : daemon[d] # "off" => Exists(serves[d])' = Exists(serves[d])
  <2> SUFFICES ASSUME NEW d \in Daemons, daemon[d] # "off" PROVE Exists(serves[d])' = Exists(serves[d])
    OBVIOUS
  <2>1. serves[d] \in Backends
    BY <1>1, ServesBackend
  <2> QED BY <2>1 DEF Exists, daemons
<1>5. ShowsOK'
  BY <1>1, <1>3, <1>4 DEF ShowsOK, Live, daemons
<1> QED BY <1>5 DEF ShowKept

LEMMA ReingestFacts ==
    ASSUME LifeInv, ShowInv, Supported(Workloads), NEW c \in Commands, cmd[c].kind = "reingest"
    PROVE  /\ TypeInv /\ StoreInv /\ CommandsOK /\ ShowsOK /\ CommandNames(c) /\ CommandDaemons(c) /\ CommandInv(c)
           /\ ~Power /\ cmd[c].backing = "shadow" /\ at["meta"] # None /\ at["meta"].backend = "shadow"
<1>1. TypeInv /\ StoreInv /\ CommandsOK /\ ShowsOK /\ CommandNames(c) /\ CommandDaemons(c) /\ CommandInv(c)
  BY ShowFacts
<1>2. ~Power
  BY <1>1, PowerFacts DEF CommandInv
<1> QED BY <1>1, <1>2 DEF CommandNames, Bound

\* reingest goes on to a step at which nothing is verified yet, or any more.
LEMMA ReingestNames ==
    ASSUME NEW c \in Commands, cmd'[c].kind = "reingest", cmd'[c].backing = "shadow",
           at'["meta"] # None, at'["meta"].backend = "shadow",
           cmd'[c].pc \in {"unmount", "wait", "aside", "replace"} => Data("orig")' \subseteq Data("tmp")',
           cmd'[c].pc = "replace" => shown' \subseteq Data("bak")'
    PROVE  CommandNames(c)'
  BY DEF CommandNames, Early, Bound, At

LEMMA SwapShow ==
    ASSUME LifeInv, LifeInv', ShowInv, Supported(Workloads), NEW c \in Commands,
           Swap(c), UNCHANGED <<load, tree, daemons, session, written>>
    PROVE  ShowKept(c)
<1>0. cmd[c].kind = "reingest"
  BY DEF Swap, At
<1>1. /\ TypeInv /\ StoreInv /\ CommandsOK /\ ShowsOK /\ CommandNames(c) /\ CommandDaemons(c)
      /\ ~Power /\ cmd[c].backing = "shadow" /\ at["meta"] # None /\ at["meta"].backend = "shadow"
  BY <1>0, ReingestFacts
<1>2. \A pc : Goto(c, pc) => cmd'[c].kind = "reingest" /\ cmd'[c].pc = pc /\ cmd'[c].backing = "shadow"
  BY <1>0, <1>1, GotoFacts
<1>3. "shadow" \in Dirs /\ "tmp" \in Dirs /\ "bak" \in Dirs /\ "orig" \in TreeNames /\ "orig" \notin Dirs /\ "meta" \notin TreeNames
      /\ Dirs \subseteq TreeNames /\ Names = TreeNames \cup {"meta"}
  BY NameFacts
<1>4. CASE At(c, "reingest", "aside") /\ Exists("shadow") /\ Rename("shadow", "bak") /\ Goto(c, "replace") /\ UNCHANGED <<safeAt, shown>>
  <2>1. Live = {} /\ Data("orig") \subseteq Data("tmp") /\ shown \subseteq Data("shadow")
    BY <1>1, <1>4 DEF CommandDaemons, CommandNames, ShowsOK, At
  <2>2. at'["shadow"] = None /\ at'["bak"] = at["shadow"] /\ \A n \in Names \ {"shadow", "bak"} : at'[n] = at[n]
    BY <1>1, <1>3, <1>4, RenameOK DEF Rename
  <2>3. Data("orig")' = Data("orig") /\ Data("tmp")' = Data("tmp") /\ Data("bak")' = Data("shadow") /\ at'["meta"] = at["meta"]
    BY <1>3, <2>2 DEF Data, Exists
  <2>4. ShowsOK' /\ Live' = {}
    BY <1>1, <1>4, <2>1, <2>2, <2>3, NoneLiveShows DEF daemons, Exists
  <2>5. CommandNames(c)'
    BY <1>1, <1>2, <1>4, <2>1, <2>3, ReingestNames
  <2>6. CommandDaemons(c)'
    BY <1>2, <1>4, <2>4 DEF CommandDaemons, At
  <2> QED BY <1>1, <2>4, <2>5, <2>6 DEF ShowKept
<1>5. CASE At(c, "reingest", "aside") /\ UNCHANGED at /\ End(c) /\ UNCHANGED <<safeAt, shown>>
  BY <1>1, <1>5, EndShow, BackendsStay DEF Data, Exists
<1>6. CASE At(c, "reingest", "replace") /\ Rename("tmp", "shadow") /\ Goto(c, "sync") /\ shown' = Data("orig") /\ UNCHANGED safeAt
  <2>1. Live = {} /\ Data("orig") \subseteq Data("tmp")
    BY <1>1, <1>6 DEF CommandDaemons, CommandNames, At
  <2>2. at'["tmp"] = None /\ at'["shadow"] = at["tmp"] /\ \A n \in Names \ {"tmp", "shadow"} : at'[n] = at[n]
    BY <1>1, <1>3, <1>6, RenameOK DEF Rename
  <2>3. Data("shadow")' = Data("tmp") /\ at'["meta"] = at["meta"]
    BY <1>3, <2>2 DEF Data, Exists
  <2>4. shown' \subseteq Data(at["meta"].backend)'
    BY <1>1, <1>6, <2>1, <2>3 DEF Data, Exists
  <2>5. ShowsOK' /\ Live' = {}
    BY <1>1, <2>1, <2>4, NoneLiveShows DEF daemons
  <2>6. CommandNames(c)'
    BY <1>1, <1>2, <1>6, <2>3, ReingestNames
  <2>7. CommandDaemons(c)'
    BY <1>2, <1>6, <2>5 DEF CommandDaemons, At
  <2> QED BY <1>1, <2>5, <2>6, <2>7 DEF ShowKept
<1>7. CASE At(c, "reingest", "replace") /\ at' = Renamed("bak", "shadow") /\ GiveUp(c) /\ UNCHANGED <<safeAt, shown>>
  <2>1. Live = {} /\ shown \subseteq Data("bak")
    BY <1>1, <1>7 DEF CommandDaemons, CommandNames, At
  <2>2. at'["bak"] = None /\ at'["shadow"] = at["bak"] /\ \A n \in Names \ {"bak", "shadow"} : at'[n] = at[n]
    BY <1>1, <1>3, <1>7, RenameOK
  <2>3. Data("shadow")' = Data("bak") /\ at'["meta"] = at["meta"]
    BY <1>3, <2>2 DEF Data, Exists
  <2>4. shown' \subseteq Data(at["meta"].backend)'
    BY <1>1, <1>7, <2>1, <2>3 DEF Data, Exists
  <2>5. ShowsOK'
    BY <1>1, <2>1, <2>4, NoneLiveShows DEF daemons
  <2>6. cmd'[c].kind = "remount" /\ cmd'[c].pc = "spawn" /\ cmd'[c].backing = "shadow"
    BY <1>1, <1>7 DEF GiveUp, CommandsOK, CommandOK, Fields
  <2>7. CommandNames(c)' /\ CommandDaemons(c)'
    BY <1>1, <2>3, <2>6 DEF CommandNames, CommandDaemons, Early, Bound, At
  <2> QED BY <1>1, <2>5, <2>7 DEF ShowKept
<1>8. CASE At(c, "reingest", "sync") /\ Goto(c, "spawn") /\ UNCHANGED <<at, shown>>
  <2>1. CommandNames(c)'
    BY <1>1, <1>2, <1>8, ReingestNames
  <2>2. CommandDaemons(c)'
    BY <1>2, <1>8 DEF CommandDaemons, At
  <2> QED BY <1>1, <1>8, <2>1, <2>2, BackendsStay DEF Data, Exists
<1>9. CASE At(c, "reingest", "meta") /\ WriteMeta(MetaOf("shadow")) /\ Goto(c, "durable") /\ UNCHANGED <<safeAt, shown>>
  <2>0. MetaOf("shadow") \in Meta /\ MetaOf("shadow").backend = "shadow" /\ MetaOf("shadow") # None
    BY MetaFacts, NameFacts
  <2>1. at'["meta"] = MetaOf("shadow") /\ \A n \in TreeNames : at'[n] = at[n]
    BY <1>1, <1>9, <2>0, MetaOK DEF WriteMeta
  <2>2. \A b \in TreeNames : Exists(b)' = Exists(b) /\ Data(b)' = Data(b)
    BY <2>1 DEF Data, Exists
  <2>3. Exists(at["meta"].backend)' => shown' \subseteq Data(at["meta"].backend)'
    <3>1. Exists("shadow")' => shown' \subseteq Data("shadow")'
      BY <1>1, <1>3, <1>9, <2>2 DEF ShowsOK
    <3> QED BY <2>0, <2>1, <3>1 DEF Data, Exists
  <2>4. \A d \in Daemons : daemon[d] # "off" => Exists(serves[d])' = Exists(serves[d])
    <3> SUFFICES ASSUME NEW d \in Daemons, daemon[d] # "off" PROVE Exists(serves[d])' = Exists(serves[d])
      OBVIOUS
    <3>1. serves[d] \in TreeNames
      BY <1>1, ServesBackend, NameFacts
    <3> QED BY <2>1, <3>1 DEF Exists, daemons
  <2>5. ShowsOK'
    BY <1>1, <2>0, <2>1, <2>3, <2>4 DEF ShowsOK, Live, daemons
  <2>6. CommandNames(c)'
    BY <1>2, <1>9, <2>0, <2>1, ReingestNames
  <2>7. CommandDaemons(c)'
    BY <1>2, <1>9 DEF CommandDaemons, At
  <2> QED BY <1>1, <2>5, <2>6, <2>7 DEF ShowKept
<1>10. CASE At(c, "reingest", "durable") /\ End(c) /\ UNCHANGED <<at, shown>>
  BY <1>1, <1>10, EndShow, BackendsStay DEF Data, Exists
<1> QED BY <1>4, <1>5, <1>6, <1>7, <1>8, <1>9, <1>10 DEF Swap

LEMMA ReingestShow ==
    ASSUME LifeInv, LifeInv', ShowInv, Supported(Workloads), NEW c \in Commands, Reingest(c) PROVE ShowKept(c)
<1>0. TypeInv /\ StoreInv /\ CommandsOK
  BY ShowFacts
<1>1. "tmp" \in TreeNames /\ "tmp" \in Names /\ "tmp" \notin Backends /\ "tmp" # "meta" /\ Backends \subseteq TreeNames
      /\ Backends \subseteq Names /\ "meta" \in Names /\ "orig" \in TreeNames /\ "orig" # "tmp"
  BY NameFacts
<1>2. CASE BeginReingest(c)
  <2>1. cmd'[c].kind = "reingest" /\ cmd'[c].pc = "mkdir" /\ cmd'[c].backing = "shadow"
        /\ \A d \in Daemons : daemon[d] \notin {"starting", "open"}
    BY <1>0, <1>2, BeginFacts DEF BeginReingest
  <2>2. at["meta"] # None /\ at["meta"].backend = "shadow"
    BY <1>2, MetaFacts, NameFacts DEF BeginReingest
  <2>3. CommandNames(c)'
    BY <1>2, <2>1, <2>2, ReingestNames DEF BeginReingest, names
  <2>4. CommandDaemons(c)'
    BY <1>2, <2>1 DEF CommandDaemons, At, BeginReingest, daemons
  <2> QED BY <1>2, <2>3, <2>4, OwnShow DEF BeginReingest, daemons
<1>3. ASSUME At(c, "reingest", "mkdir") \/ At(c, "reingest", "copy")
      PROVE  /\ CommandNames(c) /\ CommandDaemons(c) /\ ~Power /\ cmd[c].kind = "reingest" /\ cmd[c].pc \in {"mkdir", "copy"}
             /\ cmd[c].backing = "shadow" /\ at["meta"] # None /\ at["meta"].backend = "shadow"
             /\ \A d \in Daemons : daemon[d] \notin {"starting", "open"}
  BY <1>3, ReingestFacts DEF At, CommandDaemons
<1>4. CASE /\ At(c, "reingest", "mkdir")
           /\ \E t \in Unused \cup ({at["tmp"]} \ {None}) :
                 at' = [at EXCEPT !["tmp"] = t] /\ tree' = [tree EXCEPT ![t] = NoTree]
           /\ Goto(c, "copy")
           /\ UNCHANGED <<load, safeAt, daemons, ghosts>>
  <2>1. PICK u \in Unused \cup ({at["tmp"]} \ {None}) : at' = [at EXCEPT !["tmp"] = u] /\ tree' = [tree EXCEPT ![u] = NoTree]
    BY <1>4
  <2>2. \A n \in Names \ {"tmp"} : at'[n] = at[n]
    BY <1>0, <1>1, <2>1, NameSet
  <2>3. \A b \in Backends : Data(b)' = Data(b)
    BY <1>0, <1>1, <1>3, <1>4, <2>1, StoreCopyBegins DEF ghosts
  <2>4. cmd'[c].kind = "reingest" /\ cmd'[c].pc = "copy" /\ cmd'[c].backing = "shadow"
    BY <1>0, <1>3, <1>4, GotoFacts
  <2>5. CommandNames(c)'
    BY <1>1, <1>3, <1>4, <2>2, <2>4, ReingestNames
  <2>6. CommandDaemons(c)'
    BY <1>3, <1>4, <2>4 DEF CommandDaemons, At, daemons
  <2> QED BY <1>1, <1>3, <1>4, <2>2, <2>3, <2>5, <2>6, BackendsStay DEF ghosts
<1>5. CASE CopyInto(c, "reingest", "copy", "tmp", "unmount")
  <2>0. UNCHANGED <<load, at, safeAt, daemons, ghosts>> /\ At(c, "reingest", "copy")
    BY <1>5 DEF CopyInto
  <2>1. ASSUME NEW r \in Data("orig"), IngestFile(at["tmp"], r), UNCHANGED cmd PROVE ShowKept(c)
    <3>1. \A b \in Backends : Data(b)' = Data(b)
      BY <1>0, <1>1, <2>0, <2>1, CopyFacts DEF ghosts
    <3>2. CommandNames(c)'
      BY <1>3, <2>0, <2>1, ReingestNames
    <3>3. CommandDaemons(c)'
      BY <1>3, <2>0, <2>1 DEF CommandDaemons, At, daemons
    <3> QED BY <1>3, <2>0, <3>1, <3>2, <3>3, BackendsStay DEF ghosts
  <2>2. CASE Verified("tmp") /\ Goto(c, "unmount") /\ UNCHANGED tree
    <3>1. \A n : Data(n)' = Data(n)
      BY <2>0, <2>2 DEF Data, Exists
    <3>2. cmd'[c].kind = "reingest" /\ cmd'[c].pc = "unmount" /\ cmd'[c].backing = "shadow"
      BY <1>0, <1>3, <2>0, <2>2, GotoFacts
    <3>3. CommandNames(c)'
      BY <1>3, <2>0, <2>2, <3>1, <3>2, ReingestNames DEF Verified
    <3>4. CommandDaemons(c)'
      BY <1>3, <2>0, <3>2 DEF CommandDaemons, At, daemons
    <3> QED BY <1>3, <2>0, <3>1, <3>3, <3>4, BackendsStay DEF ghosts
  <2> QED BY <1>5, <2>1, <2>2 DEF CopyInto
<1>6. CASE /\ At(c, "reingest", "copy")
           /\ at' = [at EXCEPT !["tmp"] = None]
           /\ End(c)
           /\ UNCHANGED <<load, safeAt, tree, daemons, ghosts>>
  <2>1. \A n \in Names \ {"tmp"} : at'[n] = at[n]
    BY <1>0, <1>1, <1>6, NameSet
  <2>2. \A b \in Backends : Data(b)' = Data(b)
    BY <1>1, <1>6, <2>1 DEF Data, Exists
  <2> QED BY <1>0, <1>1, <1>3, <1>6, <2>1, <2>2, EndShow, BackendsStay DEF ghosts
<1>7. CASE UnmountClean(c, "reingest", "unmount", "wait")
  BY <1>7, UnmountCleanShow
<1>8. CASE WaitExit(c, "reingest", "wait", "aside")
  BY <1>8, WaitExitShow
<1>9. CASE Swap(c) /\ UNCHANGED <<load, tree, daemons, session, written>>
  BY <1>9, SwapShow
<1> QED BY <1>2, <1>4, <1>5, <1>6, <1>7, <1>8, <1>9 DEF Reingest

LEMMA NextShow ==
    ASSUME LifeInv, LifeInv', ShowInv, Attended, OneCommand, Supported(Workloads), [Next]_vars, UNCHANGED load PROVE ShowInv'
<1>1. ASSUME NEW c \in Commands, ShowKept(c) PROVE ShowInv'
  BY <1>1 DEF ShowKept, ShowInv, OneCommand, Power
<1>2. CASE UNCHANGED vars
  <2>1. UNCHANGED <<load, at, safeAt, tree, cmd, shown, mount, daemon, serves, unit>>
    BY <1>2 DEF vars, names, daemons, ghosts
  <2> QED BY <2>1, NamesStaySame, NameFacts, ElsewhereShow DEF LifeInv, DaemonsStay
<1>3. ASSUME NEW c \in Commands,
             \/ Apply(c) \/ Restore(c) \/ Remount(c) \/ Purge(c) \/ Maintain(c) \/ Reingest(c)
             \/ Umount(c) \/ InstallAutostart(c)
             \/ Spawn(c) \/ Await(c) \/ AfterMount(c) \/ Kill(c)
      PROVE  ShowInv'
  BY <1>1, <1>3, ApplyShow, RestoreShow, RemountShow, PurgeShow, MaintainShow, ReingestShow, UmountShow,
     SpawnShow, AwaitShow, AfterMountShow
<1>4. CASE \E d \in Daemons : Open(d) \/ Serve(d) \/ Leave(d) \/ Die(d) \/ Restart(d)
  BY <1>4, DaemonShow
<1>5. CASE Next
  BY <1>3, <1>4, <1>5, UserShow, LossShow DEF Next
<1> QED BY <1>2, <1>5

\* Where nobody replaces the backing while systemd may start a daemon: a mounted
\* project shows what it held when it was applied and everything written through
\* the mount since, whatever was rolled back, replaced, killed or lost in between.
THEOREM MountsShowAll ==
    ASSUME OneCommand, Supported(Workloads) PROVE Spec => [](Attended => MountShowsAll)
<1> DEFINE Inv == LifeInv /\ (Attended => ShowInv)
<1>1. Init => Inv
  BY InitLife, InitShow
<1>2. Inv /\ [Next]_vars => Inv'
  <2> SUFFICES ASSUME Inv, [Next]_vars PROVE Inv'
    OBVIOUS
  <2>1. LifeInv' /\ UNCHANGED load
    BY NextLife, LoadStays
  <2>2. Attended' = Attended
    BY <2>1 DEF Attended
  <2> QED BY <2>1, <2>2, NextShow
<1>3. Inv => (Attended => MountShowsAll)
  <2> SUFFICES ASSUME TypeInv, ShowsOK, Healthy PROVE shown \subseteq Data(serves[mount])
    BY DEF LifeInv, ShowInv, MountShowsAll
  <2>1. mount \in Daemons /\ daemon[mount] = "serving"
    BY DEF Healthy, Health, TypeInv, DaemonsOK
  <2> QED BY <2>1 DEF ShowsOK, Live
<1> QED BY <1>1, <1>2, <1>3, PTL DEF Spec
=============================================================================
