------------------------------ MODULE Reconcile ------------------------------
(***************************************************************************)
(* Merging back what was written while a project was not mounted            *)
(* (reconcile/).  Such writes fall through to the directory under the       *)
(* mountpoint, the underlay.  reconcile snapshots them into a generation of *)
(* its stash, merges each file into orig or sets it aside in quarantine,    *)
(* ingests the result into the backing, and deletes the underlay file;      *)
(* reconcile_undo takes the latest generation back.  A marker file keeps    *)
(* the project from being mounted half rewritten, and so does an underlay   *)
(* that is not empty.                                                       *)
(*                                                                          *)
(* A file is the set of its records: session_merge is their union.  An      *)
(* entry the user does not accept stays in the underlay (KeepBoth), and so  *)
(* does a file too large to be read into memory, unless it is a subagent's: *)
(* that one is merged as if it were empty.                                  *)
(*                                                                          *)
(* The commands refuse a mounted project, and reconcile does not look       *)
(* again: mounted after that, the project is read, and its files are        *)
(* deleted, through the mount.                                              *)
(*                                                                          *)
(* Memory files are in a directory that is a symbolic link in the backing,  *)
(* to a target other projects use too: they are placed in the target, never *)
(* in orig, and the underlay's directory goes to quarantine.  Subagent      *)
(* files are sessions in directories of their own.                          *)
(***************************************************************************)
EXTENDS Integers, Sequences, FiniteSets

CONSTANTS
    Files,
    Records,      \* 1..n: what is written, each once, in this order
    Procs,        \* command-line processes
    None,
    Workloads     \* records of: kinds, what each file is: "session" (.jsonl),
                  \* "subagent", "memory" or "other"; large, the files over
                  \* MAX_MERGE_FILE_BYTES; commands, the ones users call,
                  \* "preview" being reconcile --dry-run; alone, one at a time; runs, a bound on the stash generations; crash, the
                  \* commands that may die; writes, what writers do besides
                  \* adding to the underlay: "mount", write through it; "late",
                  \* not wait for a deletion or an undo; "again", write a file
                  \* that is no session a second time before it is merged;
                  \* "link", link the memory directory in the underlay;
                  \* "shared", write to its target from elsewhere; "race",
                  \* mount the project after reconcile has found it unmounted

Kinds      == {"session", "subagent", "memory", "other"}
Commands   == {"reconcile", "preview", "undo"}
EntryPlans == {"Union", "KeepSeparate", "New", "Passthrough", "KeepBoth", "Identical"}
Reversals  == {"RestoreOrig", "RemoveOrig", "RemoveQuarantine", "ReportMemory", "Noop"}

ASSUME RecordsAssumption == Records \subseteq Nat /\ 1 \in Records
ASSUME NoneAssumption ==
    /\ None \notin Procs \cup Files \cup EntryPlans \cup [Files -> Reversals]
    /\ \A text \in SUBSET Records : text # None
ASSUME WorkloadAssumption ==
    \A w \in Workloads :
        /\ w \in [kinds : [Files -> Kinds], large : SUBSET Files, commands : SUBSET Commands,
                  alone : BOOLEAN, runs : Nat, crash : SUBSET Commands,
                  writes : SUBSET {"mount", "late", "again", "link", "shared", "race"}]
        /\ (\E f \in Files : w.kinds[f] = "memory") => w.alone /\ "race" \notin w.writes

VARIABLES
    load,     \* the workload
    orig,     \* the plain copy apply keeps, the base of every merge
    backing,  \* what a mount serves
    live,     \* the underlay
    hollow,   \* what else is in it: the empty directory of a subagent file, a
              \* link instead of the directory of a memory file
    target,   \* where the link leads: the canonical memory files
    beside,   \* and the other versions beside them
    gens,     \* stash generations, the latest last; an underlay snapshot, the
              \* preimages of orig, the quarantine, the manifest (reversal
              \* classes), .undone; ghosts: orig as it was before the run, and
              \* whether the underlay was read through a mount
    marker,   \* <name>.reconciling
    mounted,
    lock,     \* the holder of the reconcile lock
    cmd,      \* each process: command, step, generation, files left, file, plans,
              \* memory files left to place, what it has read of one
    written,  \* ghost: how many records were written
    fell,     \* ghost: the records in orig at first and those written to the underlay
    served,   \* ghost: the records written through a mount
    halved    \* ghost: files whose archive is behind orig, because a run was
              \* cut short before it replaced it, or gone, because it was
              \* deleted through a mount

aside  == <<hollow, target, beside>>
disk   == <<orig, backing, live, gens, marker, aside>>
ghosts == <<written, fell, served, halved>>
vars   == <<load, disk, mounted, lock, cmd, ghosts>>

NoFiles == [f \in Files |-> None]
Idle    == [kind |-> "none", pc |-> "idle", gen |-> 0, todo |-> {}, file |-> None, plan |-> NoFiles,
            left |-> {}, text |-> None]
Present(dir) == {f \in Files : dir[f] # None}
All(dir)     == UNION {dir[f] : f \in Present(dir)}
Of(kind)     == {f \in Files : load.kinds[f] = kind}
Sessions     == Of("session") \cup Of("subagent")
Memory       == Of("memory")

\* What the directory at the mountpoint holds: the files of the backing if it
\* is mounted, else those of the underlay.
Mountpoint == IF mounted THEN backing ELSE live

\* What a path leads to, in the underlay and at the mountpoint.
Underlay(f) == IF f \in Memory \cap hollow THEN target[f] ELSE live[f]
LiveText(f) == IF ~mounted THEN Underlay(f)
               ELSE IF f \in Memory THEN target[f] ELSE backing[f]

\* After apply: one file, in orig and in the backing or behind the link.
Init ==
    /\ load \in Workloads
    /\ \E f \in Files :
          LET first == [NoFiles EXCEPT ![f] = {1}]
          IN /\ orig = IF f \in Memory THEN NoFiles ELSE first
             /\ target = IF f \in Memory THEN first ELSE NoFiles
    /\ backing = orig
    /\ live = NoFiles /\ hollow = {}
    /\ beside = [f \in Files |-> {}]
    /\ gens = <<>>
    /\ marker = FALSE /\ mounted = FALSE /\ lock = None
    /\ cmd = [p \in Procs |-> Idle]
    /\ written = 1 /\ fell = {1} /\ served = {} /\ halved = {}

-----------------------------------------------------------------------------
(* Mounts and writers                                                       *)

\* underlay_has_fallthrough.
Fallthrough == Present(live) \cup hollow # {}

\* ensure_mountable, underlay_guard.
EnsureUnderlayEmpty == ~Fallthrough  \* mutant: the marker is not looked at
EnsureMountable     == ~marker /\ ~Fallthrough

\* Whether a run of reconcile has found the project unmounted and has not yet
\* set the marker.
Unmarked == \E p \in Procs :
                cmd[p].kind # "undo" /\ cmd[p].pc \in {"check", "snapshot", "mark"}

Mount ==
    /\ ~mounted /\ EnsureMountable
    /\ "race" \in load.writes \/ ~Unmarked
    /\ mounted' = TRUE
    /\ UNCHANGED <<load, disk, lock, cmd, ghosts>>

Unmount ==
    /\ mounted
    /\ mounted' = FALSE
    /\ UNCHANGED <<load, disk, lock, cmd, ghosts>>

Deleting(p) == cmd[p].pc \in {"unlink", "place", "put", "putbeside"} \/ cmd[p].kind = "undo"
InReach == "late" \in load.writes \/ \A p \in Procs : ~Deleting(p)

\* A record is appended to a file, in the mount or in the underlay; a file that
\* is not in the underlay is created there with the record, or with all of the
\* file its writer knows.
Write(f) ==
    /\ written + 1 \in Records
    /\ written' = written + 1
    /\ \/ /\ mounted /\ "mount" \in load.writes /\ f \notin Memory
          /\ backing' = [backing EXCEPT ![f] = (IF @ = None THEN {} ELSE @) \cup {written'}]
          /\ served' = served \cup {written'}
          /\ UNCHANGED <<live, aside, fell>>
       \/ /\ ~mounted /\ f \notin Memory \cap hollow
          /\ InReach
          /\ "again" \in load.writes \/ f \in Sessions \/ live[f] = None
          /\ \E text \in IF live[f] # None THEN {live[f]}
                         ELSE {{}} \cup ({orig[f], target[f]} \ {None}) :
                live' = [live EXCEPT ![f] = text \cup {written'}]
          /\ hollow' = hollow \ {f}
          /\ fell' = fell \cup {written'}
          /\ UNCHANGED <<backing, target, beside, served>>
       \/ /\ f \in Memory
          /\ \/ mounted /\ "mount" \in load.writes
             \/ ~mounted /\ f \in hollow /\ InReach
             \/ "shared" \in load.writes
          /\ target' = [target EXCEPT ![f] = (IF @ = None THEN {} ELSE @) \cup {written'}]
          /\ fell' = fell \cup {written'}
          /\ UNCHANGED <<backing, live, hollow, beside, served>>
    /\ UNCHANGED <<load, orig, gens, marker, mounted, lock, cmd, halved>>

\* The memory directory is linked in the underlay as it is in the backing.
Link(f) ==
    /\ "link" \in load.writes
    /\ ~mounted /\ f \in Memory \ hollow /\ live[f] = None
    /\ InReach
    /\ hollow' = hollow \cup {f}
    /\ UNCHANGED <<load, orig, backing, live, target, beside, gens, marker, mounted, lock, cmd, ghosts>>

-----------------------------------------------------------------------------
(* Steps the two commands share                                             *)

At(p, pc)   == cmd[p].pc = pc
Goto(p, pc) == cmd' = [cmd EXCEPT ![p].pc = pc]
Leave(p)    == /\ cmd' = [cmd EXCEPT ![p] = Idle]
               /\ lock' = IF lock = p THEN None ELSE lock
Gen(p)      == gens[cmd[p].gen]
File(p)     == cmd[p].file
Latest      == Len(gens)

\* acquire_reconcile_lock.
LockIgnored == TRUE  \* mutant
LockFree    == lock = None

\* The command-line guard: a mounted project is refused.
Begin(p, kind) ==
    /\ kind \in load.commands
    /\ cmd[p] = Idle
    /\ load.alone => \A q \in Procs : cmd[q] = Idle
    /\ ~mounted
    /\ cmd' = [cmd EXCEPT ![p].kind = kind, ![p].pc = "check"]
    /\ UNCHANGED <<load, disk, mounted, lock, ghosts>>

\* set_reconciling, and the step after it.
SetReconciling(p, from, on, to) ==
    /\ At(p, from)
    /\ marker' = on
    /\ IF to = "idle" THEN Leave(p) ELSE Goto(p, to) /\ UNCHANGED lock
    /\ UNCHANGED <<load, orig, backing, live, gens, aside, mounted, ghosts>>

\* The command ends where it is: the marker stays.
CutShort(p) ==
    /\ Leave(p)
    /\ halved' = IF At(p, "reingest") /\ backing[File(p)] # None
                 THEN halved \cup {File(p)} ELSE halved

\* reingest_one_file: the archive is replaced by a rename, under the backing's
\* lock; a daemon that serves the mount has it, and the command fails.
ReingestOneFile(p, from, to) ==
    /\ At(p, from)
    /\ \/ /\ ~mounted
          /\ backing' = [backing EXCEPT ![File(p)] = orig[File(p)]]
          /\ halved' = halved \ {File(p)}
          /\ Goto(p, to) /\ UNCHANGED lock
       \/ /\ mounted
          /\ CutShort(p) /\ UNCHANGED backing
    /\ UNCHANGED <<load, orig, live, gens, aside, marker, mounted, written, fell, served>>

\* A kill, or an error that ends the command.
Crash(p) ==
    /\ cmd[p].kind \in load.crash
    /\ CutShort(p)
    /\ UNCHANGED <<load, disk, mounted, written, fell, served>>

-----------------------------------------------------------------------------
(* reconcile                                                                *)

\* check_preconditions: an empty underlay ends it, and clears a marker that a
\* run cut short at its end has left.  A mount without files may be empty, or
\* have directories.
CheckPreconditions(p) ==
    /\ At(p, "check") /\ cmd[p].kind # "undo"
    /\ \/ /\ mounted \/ Fallthrough
          /\ Goto(p, "snapshot") /\ UNCHANGED <<marker, lock>>
       \/ /\ IF mounted THEN Present(backing) \cup Memory = {} ELSE ~Fallthrough
          /\ Leave(p) /\ marker' = FALSE
    /\ UNCHANGED <<load, orig, backing, live, gens, aside, mounted, ghosts>>

\* The reconcile lock, then snapshot_underlay of whatever is at the mountpoint
\* now, into a generation of its own.
SnapshotUnderlay(p) ==
    /\ At(p, "snapshot")
    /\ IF LockFree /\ Latest < load.runs
       THEN /\ lock' = p
            /\ gens' = Append(gens, [snap |-> Mountpoint, pre |-> NoFiles, quar |-> NoFiles,
                                     manifest |-> None, undone |-> FALSE, before |-> orig,
                                     through |-> mounted])
            /\ cmd' = [cmd EXCEPT ![p].gen = Latest + 1,
                                  ![p].pc = IF cmd[p].kind = "preview" THEN "preview" ELSE "mark"]
       ELSE Leave(p) /\ UNCHANGED gens
    /\ UNCHANGED <<load, orig, backing, live, aside, marker, mounted, ghosts>>

\* --dry-run: the plans are printed.  The generation stays, without a manifest.
Preview(p) ==
    /\ At(p, "preview")
    /\ Leave(p)
    /\ UNCHANGED <<load, disk, mounted, ghosts>>

\* recommend, on the evidence of session_merge: two sessions with no record in
\* common are merged if the incoming one is a log or continues the base, and
\* else taken for two sessions of one name.
Recommend(base, snap) ==
    {"Union"} \cup IF base \cap snap = {} THEN {"KeepSeparate"} ELSE {}

\* plan_entries: what may become of a snapshot whose base is what orig has.
ByContent(f, base, snap) ==
    IF base = None THEN {"New"}
    ELSE IF base = snap THEN {"Identical"}
    ELSE IF f \notin Sessions THEN {"KeepSeparate"}
    ELSE Recommend(base, snap)

Plans(f, base, snap) ==
    CASE f \in Of("subagent")         -> {"Union"}
      [] f \in Memory                 -> {"Passthrough"}
      [] f \in load.large \ (Of("subagent") \cup Memory) -> {"KeepBoth"}
      [] OTHER                        -> ByContent(f, base, snap)

PlanEntries(p) ==
    /\ At(p, "plan")
    /\ \E plan \in [Files -> EntryPlans \cup {None}] :
          /\ \A f \in Files : IF f \in Present(Gen(p).snap)
                                THEN plan[f] \in Plans(f, orig[f], Gen(p).snap[f])
                                ELSE plan[f] = None
          /\ cmd' = [cmd EXCEPT ![p].pc = "entry", ![p].todo = Present(Gen(p).snap),
                                ![p].plan = plan]
    /\ UNCHANGED <<load, disk, mounted, lock, ghosts>>

\* The class an entry enters the manifest with once it is applied; what is
\* skipped, deferred or identical has nothing to reverse.
ReversalForPreimage(pre) == IF pre = None THEN "RemoveOrig" ELSE "RestoreOrig"
RestoreAlways(p, f) == IF cmd[p].plan[f] = "KeepSeparate" THEN "RemoveQuarantine" ELSE "RestoreOrig"  \* mutant
Reversal(p, f) ==
    CASE cmd[p].plan[f] \in {"Union", "New"} -> ReversalForPreimage(Gen(p).pre[f])
      [] cmd[p].plan[f] = "KeepSeparate"     -> "RemoveQuarantine"
      [] cmd[p].plan[f] = "Passthrough"      -> "ReportMemory"
      [] OTHER                               -> "Noop"

\* apply_entry: where an accepted entry starts.  What is identical has reached
\* the backing, unless a run was cut short before its first ingest.
StartStep(plan, inBacking) ==
    CASE plan \in {"Union", "New"} -> "stash"
      [] plan = "KeepSeparate"     -> "quarantine"
      [] plan = "Passthrough"      -> "memory"
      [] plan = "KeepBoth"         -> "entry"
      [] plan = "Identical"        -> IF inBacking THEN "gate" ELSE "reingest"
FirstStepTrusting(p, f, plan) == StartStep(plan, TRUE)  \* mutant
FirstStep(p, f, plan)         == StartStep(plan, backing[f] # None)

\* The user's answer; KeepBoth means nothing for the files apply_entry routes
\* before it looks at the plan.
Confirm == {"Accept", "KeepBoth", "Skip"}
Confirmed(f, plan, answer) ==
    IF answer = "Accept" \/ (answer = "KeepBoth" /\ f \in Of("subagent") \cup Memory)
    THEN plan ELSE "KeepBoth"

Entry(p) ==
    /\ At(p, "entry")
    /\ \E f \in cmd[p].todo, answer \in Confirm :
          LET plan == Confirmed(f, cmd[p].plan[f], answer)
          IN cmd' = [cmd EXCEPT ![p].todo = @ \ {f}, ![p].file = f, ![p].plan[f] = plan,
                                ![p].pc = FirstStep(p, f, plan)]
    /\ UNCHANGED <<load, disk, mounted, lock, ghosts>>

\* session_merge, and the new file as it is.
SessionMerge(base, incoming) == base \cup incoming

\* A subagent file is merged into what orig has of it, if anything.
Merged(base, plan, incoming) ==
    IF plan = "New" \/ base = None THEN incoming ELSE SessionMerge(base, incoming)

\* EntrySnapshot.bytes: of a large file only the stash has a copy.
Bytes(p) == IF File(p) \in load.large THEN {} ELSE Gen(p).snap[File(p)]

MergedFile(p) == Merged(orig[File(p)], cmd[p].plan[File(p)], Bytes(p))

\* base_covered_by_merged: a merge that loses a record of orig is not written,
\* and its file is kept.
BaseCovered(base, text) == base = None \/ base \subseteq text

StashPreimage(p) ==
    /\ At(p, "stash")
    /\ IF BaseCovered(orig[File(p)], MergedFile(p))
       THEN /\ gens' = [gens EXCEPT ![cmd[p].gen].pre[File(p)] = orig[File(p)]]
            /\ Goto(p, "merge")
       ELSE /\ cmd' = [cmd EXCEPT ![p].pc = "entry", ![p].plan[File(p)] = "KeepBoth"]
            /\ UNCHANGED gens
    /\ UNCHANGED <<load, orig, backing, live, aside, marker, mounted, lock, ghosts>>

WriteOrig(p) ==
    /\ At(p, "merge")
    /\ orig' = [orig EXCEPT ![File(p)] = MergedFile(p)]
    /\ Goto(p, "reingest")
    /\ UNCHANGED <<load, backing, live, gens, aside, marker, mounted, lock, ghosts>>

QuarantineReuse(p) ==
    /\ At(p, "quarantine")
    /\ gens' = [gens EXCEPT ![cmd[p].gen].quar[File(p)] = Bytes(p)]
    /\ Goto(p, "gate")
    /\ UNCHANGED <<load, orig, backing, live, aside, marker, mounted, lock, ghosts>>

\* delete_permitted: the receiver, read back, holds the snapshot (and nothing
\* else, if it was not merged), and the live file has not changed since.
DurableSupersetOk(p) ==
    LET f        == File(p)
        receiver == IF cmd[p].plan[f] = "KeepSeparate" THEN Gen(p).quar[f] ELSE orig[f]
    IN /\ receiver # None
       /\ IF cmd[p].plan[f] \in {"KeepSeparate", "Identical"}
          THEN Bytes(p) = receiver
          ELSE Bytes(p) \subseteq receiver
DeleteIfDurable(p)    == DurableSupersetOk(p)  \* mutant: a record appended since goes too
LiveEntryUnchanged(p) == Mountpoint[File(p)] = Gen(p).snap[File(p)]
DeletePermitted(p)    == DurableSupersetOk(p) /\ LiveEntryUnchanged(p)

\* finish_delete; the directory of a subagent file stays.  Through a mount it
\* is the backing's file that goes.
FinishDelete(p) ==
    /\ \/ /\ At(p, "gate")
          /\ Goto(p, IF DeletePermitted(p) THEN "unlink" ELSE "entry")
          /\ UNCHANGED <<backing, live, hollow, halved>>
       \/ /\ At(p, "unlink") /\ ~mounted
          /\ live' = [live EXCEPT ![File(p)] = None]
          /\ hollow' = hollow \cup ({File(p)} \cap Of("subagent"))
          /\ Goto(p, "entry")
          /\ UNCHANGED <<backing, halved>>
       \/ /\ At(p, "unlink") /\ mounted
          /\ backing' = [backing EXCEPT ![File(p)] = None]
          /\ halved' = halved \cup {File(p)}
          /\ Goto(p, "entry")
          /\ UNCHANGED <<live, hollow>>
    /\ UNCHANGED <<load, orig, target, beside, gens, marker, mounted, lock, written, fell, served>>

\* passthrough_restore_memory, for all of the memory directory: nothing is
\* left of it, or it is a link; or the target cannot be used, and it stays.
\* While any of it is left the project cannot be mounted.
RestoreMemory(p) ==
    /\ At(p, "memory")
    /\ LET left == Present(live) \cap Memory
       IN \/ left # {} /\ cmd' = [cmd EXCEPT ![p].pc = "place", ![p].left = left]
          \/ Goto(p, "entry")
    /\ UNCHANGED <<load, disk, mounted, lock, ghosts>>

\* place_memory_files, one file: what is read of it and of the target says
\* where it goes.  The canonical version is never overwritten.
PlaceRead(p) ==
    /\ At(p, "place")
    /\ \E f \in cmd[p].left :
          cmd' = [cmd EXCEPT ![p].file = f, ![p].text = live[f],
                    ![p].pc = CASE target[f] = None    -> "put"
                                [] target[f] = live[f] -> "place"
                                [] OTHER               -> "putbeside",
                    ![p].left = IF target[f] = live[f] THEN @ \ {f} ELSE @]
    /\ UNCHANGED <<load, disk, mounted, lock, ghosts>>

\* The copy is written, to a slot of its own if it is a variant.
PlaceWrite(p) ==
    /\ \/ /\ At(p, "put")
          /\ target' = [target EXCEPT ![File(p)] = cmd[p].text]
          /\ UNCHANGED beside
       \/ /\ At(p, "putbeside")
          /\ beside' = [beside EXCEPT ![File(p)] = @ \cup {cmd[p].text}]
          /\ UNCHANGED target
    /\ cmd' = [cmd EXCEPT ![p].pc = "place", ![p].left = @ \ {File(p)}, ![p].text = None]
    /\ UNCHANGED <<load, orig, backing, live, hollow, gens, marker, mounted, lock, ghosts>>

\* relocate_dir: the underlay's directory moves to quarantine.
Relocate(p) ==
    /\ At(p, "place") /\ cmd[p].left = {}
    /\ gens' = [gens EXCEPT ![cmd[p].gen].quar =
                   [f \in Files |-> IF f \in Memory THEN live[f] ELSE @[f]]]
    /\ live' = [f \in Files |-> IF f \in Memory THEN None ELSE live[f]]
    /\ Goto(p, "entry")
    /\ UNCHANGED <<load, orig, backing, aside, marker, mounted, lock, ghosts>>

\* prune_empty_underlay_dirs, prune_redundant_symlinks; a failure is only
\* reported.
Prune(p) ==
    /\ At(p, "entry") /\ cmd[p].todo = {}
    /\ hollow' \in {hollow, {}}
    /\ Goto(p, "manifest")
    /\ UNCHANGED <<load, orig, backing, live, target, beside, gens, marker, mounted, lock, ghosts>>

\* write_manifest; a failure is only logged.
WriteManifest(p) ==
    /\ At(p, "manifest")
    /\ gens' \in {gens, [gens EXCEPT ![cmd[p].gen].manifest =
                            [f \in Files |-> IF cmd[p].plan[f] = None THEN "Noop"
                                             ELSE Reversal(p, f)]]}
    /\ Goto(p, "clear")
    /\ UNCHANGED <<load, orig, backing, live, aside, marker, mounted, lock, ghosts>>

ReconcileSteps(p) ==
    \/ Begin(p, "reconcile") \/ Begin(p, "preview")
    \/ CheckPreconditions(p)
    \/ SnapshotUnderlay(p)
    \/ Preview(p)
    \/ SetReconciling(p, "mark", TRUE, "plan")
    \/ PlanEntries(p)
    \/ Entry(p)
    \/ StashPreimage(p)
    \/ WriteOrig(p)
    \/ ReingestOneFile(p, "reingest", "gate")
    \/ QuarantineReuse(p)
    \/ FinishDelete(p)
    \/ RestoreMemory(p)
    \/ PlaceRead(p)
    \/ PlaceWrite(p)
    \/ Relocate(p)
    \/ Prune(p)
    \/ WriteManifest(p)
    \/ SetReconciling(p, "clear", FALSE, "idle")

-----------------------------------------------------------------------------
(* reconcile_undo                                                           *)

\* Whether a live file is missing or still what the snapshot has.
LiveUnchanged(f, snap) == LiveText(f) = None \/ LiveText(f) = snap[f]

\* The lock, the latest generation, its manifest, .undone and the staleness gate.
UndoCheck(p) ==
    /\ At(p, "check") /\ cmd[p].kind = "undo"
    /\ IF ~LockFree \/ gens = <<>> THEN Leave(p) /\ UNCHANGED marker
       ELSE CASE gens[Latest].manifest = None -> Leave(p) /\ UNCHANGED marker
              [] gens[Latest].undone -> Leave(p) /\ marker' = FALSE
              [] OTHER ->
                   /\ UNCHANGED marker
                   /\ LET snap == gens[Latest].snap
                      IN IF \A f \in Present(snap) : LiveUnchanged(f, snap)
                         THEN /\ lock' = p
                              /\ cmd' = [cmd EXCEPT ![p].pc = "set", ![p].gen = Latest]
                         ELSE Leave(p)
    /\ UNCHANGED <<load, orig, backing, live, gens, aside, mounted, ghosts>>

\* abort_if_mounted_clearing_marker.
AbortIfMounted(p) ==
    /\ At(p, "recheck")
    /\ IF mounted
       THEN Leave(p) /\ marker' = FALSE
       ELSE /\ cmd' = [cmd EXCEPT ![p].pc = "reverse", ![p].todo = Files]
            /\ UNCHANGED <<marker, lock>>
    /\ UNCHANGED <<load, orig, backing, live, gens, aside, mounted, ghosts>>

\* One entry of the manifest: undo_restore_orig, undo_remove_orig (each writes
\* orig and then the backing), undo_remove_quarantine.
Reverse(p) ==
    /\ At(p, "reverse")
    /\ \E f \in cmd[p].todo :
          LET class == Gen(p).manifest[f]
          IN /\ orig' = CASE class = "RestoreOrig" -> [orig EXCEPT ![f] = Gen(p).pre[f]]
                          [] class = "RemoveOrig"  -> [orig EXCEPT ![f] = None]
                          [] OTHER                 -> orig
             /\ gens' = IF class = "RemoveQuarantine"
                        THEN [gens EXCEPT ![cmd[p].gen].quar[f] = None] ELSE gens
             /\ cmd' = [cmd EXCEPT ![p].todo = @ \ {f}, ![p].file = f,
                          ![p].pc = IF class \in {"RestoreOrig", "RemoveOrig"} THEN "rebuild" ELSE "reverse"]
    /\ UNCHANGED <<load, backing, live, aside, marker, mounted, lock, ghosts>>

\* restore_underlay_from_snapshot: what is missing comes back, behind a link
\* if there is one; what was written since is kept.
RestoreUnderlay(p) ==
    /\ At(p, "reverse") /\ cmd[p].todo = {}
    /\ LET back      == {f \in Files : LiveText(f) = None}
           linked    == IF mounted THEN Memory ELSE Memory \cap hollow
           With(dir) == [f \in Files |-> IF f \in back \ linked THEN Gen(p).snap[f] ELSE dir[f]]
       IN /\ IF mounted THEN backing' = With(backing) /\ UNCHANGED live
                        ELSE live' = With(live) /\ UNCHANGED backing
          /\ target' = [f \in Files |-> IF f \in back \cap linked THEN Gen(p).snap[f] ELSE target[f]]
    /\ hollow' = hollow \ (Present(live') \ Memory)
    /\ Goto(p, "unset")
    /\ UNCHANGED <<load, orig, beside, gens, marker, mounted, lock, ghosts>>

WriteUndone(p) ==
    /\ At(p, "done")
    /\ gens' = [gens EXCEPT ![cmd[p].gen].undone = TRUE]
    /\ Leave(p)
    /\ UNCHANGED <<load, orig, backing, live, aside, marker, mounted, ghosts>>

UndoSteps(p) ==
    \/ Begin(p, "undo")
    \/ UndoCheck(p)
    \/ SetReconciling(p, "set", TRUE, "recheck")
    \/ AbortIfMounted(p)
    \/ Reverse(p)
    \/ ReingestOneFile(p, "rebuild", "reverse")
    \/ RestoreUnderlay(p)
    \/ SetReconciling(p, "unset", FALSE, "done")
    \/ WriteUndone(p)

Next ==
    \/ Mount
    \/ Unmount
    \/ \E f \in Files : Write(f) \/ Link(f)
    \/ \E p \in Procs : ReconcileSteps(p) \/ UndoSteps(p) \/ Crash(p)

Spec == Init /\ [][Next]_vars

-----------------------------------------------------------------------------

Contents == (SUBSET Records) \cup {None}
Directory == [Files -> Contents]

\* The types, and that only the holder of the reconcile lock is in a run.
TypeOK ==
    /\ load \in Workloads
    /\ {orig, backing, live, target} \subseteq Directory
    /\ \A f \in Memory : orig[f] = None /\ backing[f] = None
    /\ Len(gens) <= load.runs
    /\ \A g \in DOMAIN gens :
          /\ {gens[g].snap, gens[g].pre, gens[g].quar, gens[g].before} \subseteq Directory
          /\ gens[g].undone => gens[g].manifest # None
          /\ gens[g].through \in BOOLEAN
    /\ marker \in BOOLEAN /\ mounted \in BOOLEAN
    /\ lock \in Procs \cup {None}
    /\ \A p \in Procs : cmd[p].gen # 0 => lock = p
    /\ written \in Records /\ fell \cup served \subseteq Records /\ halved \subseteq Files

InTarget     == All(target) \cup (UNION (UNION {beside[f] : f \in Files}))
InQuarantine == UNION {UNION {gens[g].quar[f] : f \in Present(gens[g].quar) \ Memory} : g \in DOMAIN gens}
InStash      == UNION {All(gens[g].snap) : g \in DOMAIN gens}

\* Zero loss: what was written while the project was not mounted is in the
\* underlay, in orig or in quarantine; of the memory files, it is in their
\* target, as the canonical version or beside it, and quarantine does not do.
\* While a marker says that a run is under way or was cut short, it may be in
\* the stash alone.
FallthroughKept ==
    fell \subseteq All(orig) \cup All(live) \cup InTarget \cup InQuarantine \cup (IF marker THEN InStash ELSE {})

\* A project that can be mounted serves all that orig has, whichever run was
\* cut short and whatever ran again.  Not so, until it is ingested again, a
\* file whose archive existed and was not replaced when its merge was cut
\* short: the next run finds orig and the underlay identical, and clears the
\* marker.  Nor one that was deleted through a mount.
MergedIsServed ==
    EnsureMountable =>
        \A f \in Present(orig) \ halved : backing[f] # None /\ orig[f] \subseteq backing[f]

\* At "memory" the command still only looks whether anything is left to place.
Rewriting(p) == cmd[p].pc \in {"stash", "merge", "reingest", "quarantine", "gate", "unlink",
                               "place", "put", "putbeside", "reverse", "rebuild", "unset"}

\* The marker and the underlay between them keep a project unmounted while an
\* undo rewrites it, or a run that read the underlay and not a mount.
RewriteUnmounted ==
    mounted => \A p \in Procs : Rewriting(p) => cmd[p].kind # "undo" /\ Gen(p).through

\* The project "must not be mounted": no run rewrites a mounted one.  The code
\* looks once, before the first step, and breaks it.
NeverRewritesMounted == mounted => \A p \in Procs : ~Rewriting(p)

\* A completed undo gives back the project as it was before the run: orig, and
\* every file of the underlay.
UndoRestores ==
    [][\A g \in DOMAIN gens : g \in DOMAIN gens' /\ gens'[g].undone /\ ~gens[g].undone =>
          /\ orig' = gens[g].before
          /\ \A f \in Present(gens[g].snap) : Underlay(f)' # None /\ gens[g].snap[f] \subseteq Underlay(f)']_vars

\* What was written through the mount is still served ("zero loss", "merged
\* back safely").  The code merges into orig, which such writes never reach,
\* and replaces the archive.
MountedWritesServed == served \subseteq All(backing)
=============================================================================
