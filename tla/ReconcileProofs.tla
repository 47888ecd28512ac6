---------------------------- MODULE ReconcileProofs ----------------------------
(***************************************************************************)
(* Theorems about Reconcile, for any number of files, records, processes    *)
(* and generations.                                                         *)
(***************************************************************************)
EXTENDS Reconcile, SequenceTheorems, TLAPS

-----------------------------------------------------------------------------
(* Types                                                                    *)

Running == {"preview", "mark", "plan", "entry", "stash", "merge", "reingest", "quarantine", "gate",
            "unlink", "memory", "place", "put", "putbeside", "manifest", "clear"}
Undoing == {"set", "recheck", "reverse", "rebuild", "unset", "done"}

Pcs     == {"idle", "check", "snapshot"} \cup Running \cup Undoing

Cmds == [kind : Commands \cup {"none"}, pc : Pcs,
         gen : Nat, todo : SUBSET Files, file : Files \cup {None},
         plan : [Files -> EntryPlans \cup {None}], left : SUBSET Files, text : Contents]
Generations == [snap : Directory, pre : Directory, quar : Directory,
                manifest : [Files -> Reversals] \cup {None}, undone : BOOLEAN, before : Directory,
                through : BOOLEAN]

TypeInv ==
    /\ load \in Workloads
    /\ orig \in Directory /\ backing \in Directory /\ live \in Directory /\ target \in Directory
    /\ hollow \in SUBSET Files
    /\ beside \in [Files -> SUBSET Contents]
    /\ gens \in Seq(Generations) /\ Latest <= load.runs
    /\ marker \in BOOLEAN /\ mounted \in BOOLEAN
    /\ lock \in Procs \cup {None}
    /\ cmd \in [Procs -> Cmds]
    /\ written \in Records /\ fell \in SUBSET Records /\ served \in SUBSET Records
    /\ halved \in SUBSET Files

-----------------------------------------------------------------------------
(* Who is in a run                                                          *)

InRun(p)  == cmd[p].pc \in Running
InUndo(p) == cmd[p].pc \in Undoing

\* Between the snapshot, or the gate of undo, and its end a command holds the
\* lock, and its generation is the latest.
HoldsLock(p) ==
    /\ cmd[p].pc \in {"idle", "check", "snapshot"} => cmd[p].gen = 0
    /\ InRun(p) \/ InUndo(p) => lock = p /\ cmd[p].gen = Latest /\ Latest # 0

KindFits(p) ==
    /\ cmd[p].pc = "idle" => cmd[p] = Idle
    /\ cmd[p].pc # "idle" => cmd[p].kind \in load.commands
    /\ InRun(p) \/ cmd[p].pc = "snapshot" => cmd[p].kind # "undo"
    /\ InUndo(p) => cmd[p].kind = "undo"

AloneInv == load.alone => \A p, q \in Procs : p # q => cmd[p].pc = "idle" \/ cmd[q].pc = "idle"

RunInv == AloneInv /\ \A p \in Procs : HoldsLock(p) /\ KindFits(p)

-----------------------------------------------------------------------------
(* What a run has in hand                                                   *)

Planned == Running \ {"preview", "mark", "plan"}
InHand  == {"stash", "merge", "reingest", "quarantine", "gate", "unlink"}
Placing == {"place", "put", "putbeside"}

\* The files left, and the one in hand, are still in the underlay, if that is
\* what the run has read.
StillThere(p) ==
    /\ cmd[p].pc \in {"mark", "plan"} /\ ~Gen(p).through => Present(Gen(p).snap) \subseteq Present(live)
    /\ cmd[p].pc \in Planned => cmd[p].todo \subseteq Present(Gen(p).snap)
    /\ cmd[p].pc \in Planned /\ ~Gen(p).through => cmd[p].todo \ Memory \subseteq Present(live)
    /\ cmd[p].pc \in InHand  => File(p) \in Present(Gen(p).snap) \ (Memory \cup cmd[p].todo)
    /\ cmd[p].pc \in InHand /\ ~Gen(p).through => File(p) \in Present(live)
    /\ cmd[p].pc \in Placing => cmd[p].left \subseteq Present(live) \cap Memory
                                /\ Present(live) \cap Memory # {}
    /\ cmd[p].pc \in {"put", "putbeside"} => File(p) \in cmd[p].left
    /\ cmd[p].pc = "rebuild" => File(p) \in Files \ Memory

\* The plans are those of the files as they still are.
StepPlans == [stash |-> {"Union", "New"}, merge |-> {"Union", "New"},
              reingest |-> {"Union", "New", "Identical"}, quarantine |-> {"KeepSeparate"},
              gate |-> {"Union", "New", "KeepSeparate", "Identical"},
              unlink |-> {"Union", "New", "KeepSeparate", "Identical"}]

PlanFits(p) ==
    /\ cmd[p].pc \in Planned =>
         /\ \A f \in Files : cmd[p].plan[f] = None <=> Gen(p).snap[f] = None
         /\ \A f \in Memory : cmd[p].plan[f] \in {None, "Passthrough", "KeepBoth"}
         /\ \A f \in cmd[p].todo : cmd[p].plan[f] \in Plans(f, orig[f], Gen(p).snap[f])
    /\ cmd[p].pc \in InHand => /\ cmd[p].plan[File(p)] \in StepPlans[cmd[p].pc]
                               /\ File(p) \in load.large => File(p) \in Of("subagent")
    /\ cmd[p].pc \in {"stash", "merge", "quarantine"} =>
         cmd[p].plan[File(p)] \in Plans(File(p), orig[File(p)], Gen(p).snap[File(p)])

MemoryKept ==
    /\ \A f \in Memory : orig[f] = None /\ backing[f] = None
    /\ \A g \in DOMAIN gens :
          /\ gens[g].manifest # None =>
               \A f \in Memory : gens[g].manifest[f] \notin {"RestoreOrig", "RemoveOrig"}
          /\ gens[g].undone => gens[g].manifest # None
    /\ \A p \in Procs : InUndo(p) => Gen(p).manifest # None

HandInv == MemoryKept /\ \A p \in Procs : StillThere(p) /\ PlanFits(p)

BaseInv == TypeInv /\ RunInv /\ HandInv

\* A project is mounted only while its underlay is empty; undo has its marker set.
MountInv ==
    /\ mounted => ~Fallthrough
    /\ \A p \in Procs :
          /\ cmd[p].pc \in {"recheck", "reverse", "rebuild", "unset"} => marker
          /\ cmd[p].pc \in {"reverse", "rebuild", "unset"} => ~mounted

-----------------------------------------------------------------------------
(* Undo                                                                     *)

Text(c) == IF c = None THEN {} ELSE c

\* What the manifest says of a file: it is as it was before the run, or can be
\* taken back, and nothing but the snapshot was added to it.
Settled(now, before, pre, snap, class) ==
    /\ class = "RestoreOrig" => pre = before
    /\ class = "RemoveOrig"  => before = None
    /\ IF class \in {"RestoreOrig", "RemoveOrig"}
       THEN Text(now) \subseteq Text(before) \cup Text(snap)
       ELSE now = before

\* The files a run has not merged yet.
Pending(p) ==
    CASE cmd[p].pc \in {"preview", "mark", "plan"} -> Files
      [] cmd[p].pc = "stash" -> cmd[p].todo \cup {File(p)}
      [] OTHER               -> cmd[p].todo

ManifestRight(g) ==
    g.manifest # None =>
        \A f \in Files : Settled(orig[f], g.before[f], g.pre[f], g.snap[f], g.manifest[f])

RunSettled(p) ==
    /\ cmd[p].pc # "clear" => Gen(p).manifest = None
    /\ cmd[p].pc \in {"manifest", "clear"} => cmd[p].todo = {}
    /\ ~Gen(p).undone
    /\ \A f \in Pending(p) : orig[f] = Gen(p).before[f]
    /\ \A f \in Files \ Pending(p) :
          Settled(orig[f], Gen(p).before[f], Gen(p).pre[f], Gen(p).snap[f], Reversal(p, f))
    /\ cmd[p].pc = "merge" => orig[File(p)] = Gen(p).before[File(p)]

SettledInv ==
    /\ Latest # 0 => ManifestRight(gens[Latest])
    /\ \A p \in Procs : InRun(p) => RunSettled(p)

\* Until undo restores the underlay a file of the snapshot is missing or as it
\* was; then it is as it was.
UndoKept(p) ==
    /\ \A f \in Present(Gen(p).snap) :
          IF cmd[p].pc \in {"unset", "done"}
          THEN Underlay(f) = Gen(p).snap[f]
          ELSE Underlay(f) \in {None, Gen(p).snap[f]}
    /\ cmd[p].pc \in {"reverse", "rebuild"} =>
          \A f \in Files \ cmd[p].todo : orig[f] = Gen(p).before[f]
    /\ cmd[p].pc \in {"unset", "done"} => orig = Gen(p).before

UndoInv == \A p \in Procs : InUndo(p) => UndoKept(p)

-----------------------------------------------------------------------------
(* Zero loss                                                                *)

IsKept(r) ==
    \/ \E f \in Files : \/ r \in Text(orig[f]) \/ r \in Text(live[f]) \/ r \in Text(target[f])
                       \/ \E c \in beside[f] : r \in c
    \/ \E g \in DOMAIN gens : \E f \in Files \ Memory : r \in Text(gens[g].quar[f])

\* What undo has taken from orig or quarantine is in the snapshot.
IsTaken(r) ==
    \E p \in Procs : /\ cmd[p].pc \in {"reverse", "rebuild"}
                    /\ \E f \in Files : r \in Text(Gen(p).snap[f])

KeptInv == \A r \in fell : IsKept(r) \/ IsTaken(r)

QuarInv == \A g \in DOMAIN gens : \A f \in Files \ Memory : gens[g].quar[f] \in {None, gens[g].snap[f]}

\* A memory file that is not left is in the target or beside it; a file to be
\* deleted is still the snapshot's, and what receives it holds it.
PlacedKept(p) ==
    /\ cmd[p].pc \in Placing =>
         \A f \in (Present(live) \cap Memory) \ cmd[p].left :
             live[f] \subseteq Text(target[f]) \/ live[f] \in beside[f]
    /\ cmd[p].pc \in {"put", "putbeside"} => cmd[p].text = live[File(p)]
    /\ cmd[p].pc = "put"    => target[File(p)] = None
    /\ cmd[p].pc = "unlink" => /\ DurableSupersetOk(p)
                               /\ live[File(p)] \in {None, Gen(p).snap[File(p)]}

PlacedInv == \A p \in Procs : PlacedKept(p)

LossInv == KeptInv /\ QuarInv /\ PlacedInv

-----------------------------------------------------------------------------
(* Every step keeps the types                                               *)

LEMMA LoadType ==
    ASSUME load \in Workloads
    PROVE  /\ load.kinds \in [Files -> Kinds] /\ load.commands \subseteq Commands
           /\ load.alone \in BOOLEAN /\ load.runs \in Nat /\ load.large \subseteq Files
  BY WorkloadAssumption

LEMMA GenUpdate ==
    ASSUME TypeInv, NEW g \in 1..Latest, NEW e \in Generations
    PROVE  [gens EXCEPT ![g] = e] \in Seq(Generations) /\ Len([gens EXCEPT ![g] = e]) = Latest
  BY ExceptSeq DEF TypeInv, Latest

LEMMA GenAppend ==
    ASSUME TypeInv, NEW e \in Generations
    PROVE  Append(gens, e) \in Seq(Generations) /\ Len(Append(gens, e)) = Latest + 1
  BY AppendProperties DEF TypeInv, Latest

\* One field of a command changes.
LEMMA CmdFields ==
    ASSUME NEW c \in Cmds
    PROVE  /\ \A pc \in Pcs : [c EXCEPT !.pc = pc] \in Cmds
           /\ \A g \in Nat, pc \in Pcs : [c EXCEPT !.pc = pc, !.gen = g] \in Cmds
                                         /\ [c EXCEPT !.gen = g, !.pc = pc] \in Cmds
           /\ \A k \in Commands, pc \in Pcs : [c EXCEPT !.kind = k, !.pc = pc] \in Cmds
           /\ \A pc \in Pcs, t \in SUBSET Files : [c EXCEPT !.pc = pc, !.todo = t] \in Cmds
  BY DEF Cmds

LEMMA PcValues ==
    Pcs = {"idle", "check", "snapshot", "preview", "mark", "plan", "entry", "stash", "merge", "reingest",
           "quarantine", "gate", "unlink", "memory", "place", "put", "putbeside", "manifest", "clear",
           "set", "recheck", "reverse", "rebuild", "unset", "done"}
  BY DEF Pcs, Running, Undoing

\* What a step of a command is.
LEMMA Steps ==
    ASSUME NEW p \in Procs, ReconcileSteps(p) \/ UndoSteps(p) \/ Crash(p)
    PROVE  \/ \E k \in Commands : Begin(p, k)
           \/ CheckPreconditions(p) \/ SnapshotUnderlay(p) \/ Preview(p) \/ PlanEntries(p) \/ Entry(p)
           \/ StashPreimage(p) \/ WriteOrig(p) \/ QuarantineReuse(p) \/ FinishDelete(p) \/ RestoreMemory(p)
           \/ PlaceRead(p) \/ PlaceWrite(p) \/ Relocate(p) \/ Prune(p) \/ WriteManifest(p)
           \/ UndoCheck(p) \/ AbortIfMounted(p) \/ Reverse(p) \/ RestoreUnderlay(p) \/ WriteUndone(p) \/ Crash(p)
           \/ \E from, to \in Pcs, on \in BOOLEAN : SetReconciling(p, from, on, to)
           \/ \E from, to \in Pcs : ReingestOneFile(p, from, to)
<1>1. CASE ReconcileSteps(p)
  BY <1>1, PcValues DEF ReconcileSteps, Commands
<1>2. CASE UndoSteps(p)
  BY <1>2, PcValues DEF UndoSteps, Commands
<1>. QED
  BY <1>1, <1>2

LEMMA NoFilesType == NoFiles \in Directory /\ \A f \in Files : NoFiles[f] = None
  BY DEF NoFiles, Directory, Contents

LEMMA IdleType == Idle \in Cmds
  BY PcValues DEF Idle, Cmds, NoFiles, Contents

LEMMA DirUpdate ==
    ASSUME NEW d \in Directory, NEW f \in Files, NEW c \in Contents
    PROVE  [d EXCEPT ![f] = c] \in Directory
  BY DEF Directory

LEMMA InitTypes == Init => TypeInv
<1>. SUFFICES ASSUME Init PROVE TypeInv
  OBVIOUS
<1>1. PICK f \in Files : LET first == [NoFiles EXCEPT ![f] = {1}]
                         IN /\ orig = IF f \in Memory THEN NoFiles ELSE first
                            /\ target = IF f \in Memory THEN first ELSE NoFiles
  BY DEF Init
<1>2. {1} \in Contents
  BY RecordsAssumption DEF Contents
<1>3. orig \in Directory /\ target \in Directory /\ backing \in Directory /\ live \in Directory
  BY <1>1, <1>2, NoFilesType, DirUpdate DEF Init
<1>5. gens \in Seq(Generations) /\ Latest <= load.runs
  BY LoadType DEF Init, Latest
<1>. QED
  BY <1>3, IdleType, <1>5, RecordsAssumption DEF Init, TypeInv, Contents

LEMMA MountTypes ==
    ASSUME TypeInv, Mount \/ Unmount PROVE TypeInv'
  BY DEF Mount, Unmount, TypeInv, disk, aside, ghosts, Latest

LEMMA WriteTypes ==
    ASSUME TypeInv, NEW f \in Files, Write(f) \/ Link(f) PROVE TypeInv'
  BY DEF Write, Link, TypeInv, disk, aside, ghosts, Latest, Directory, Contents

\* What is not a command stays well-typed when it stays.
LEMMA CmdTypes ==
    ASSUME TypeInv, NEW p \in Procs, NEW c \in Cmds, cmd' = [cmd EXCEPT ![p] = c],
           marker' \in BOOLEAN, lock' \in Procs \cup {None}, halved' \in SUBSET Files,
           UNCHANGED <<load, orig, backing, live, aside, gens, mounted, written, fell, served>>
    PROVE  TypeInv'
  BY DEF TypeInv, aside, Latest

\* Whoever has a file in hand has one, and whoever is in a run its generation.
LEMMA InHandFile ==
    ASSUME BaseInv, NEW p \in Procs, cmd[p].pc \in {"stash", "merge", "reingest", "quarantine", "gate", "unlink",
                                                    "put", "putbeside", "rebuild"}
    PROVE  File(p) \in Files
  BY DEF BaseInv, TypeInv, HandInv, StillThere, InHand, Placing, Present

LEMMA RunGen ==
    ASSUME BaseInv, NEW p \in Procs, InRun(p) \/ InUndo(p)
    PROVE  /\ cmd[p].gen = Latest /\ Latest \in 1..Latest /\ Latest \in Nat /\ lock = p
           /\ Gen(p) = gens[Latest] /\ Gen(p) \in Generations
<1>1. Latest \in Nat /\ Latest # 0
  BY DEF BaseInv, TypeInv, RunInv, HoldsLock, Latest
<1>. QED
  BY <1>1 DEF BaseInv, TypeInv, RunInv, HoldsLock, Latest, Gen

LEMMA CommonTypes ==
    ASSUME BaseInv, TypeInv, NEW p \in Procs,
           \/ \E k \in Commands : Begin(p, k)
           \/ SetReconciling(p, "mark", TRUE, "plan") \/ SetReconciling(p, "clear", FALSE, "idle")
           \/ SetReconciling(p, "set", TRUE, "recheck") \/ SetReconciling(p, "unset", FALSE, "done")
           \/ ReingestOneFile(p, "reingest", "gate") \/ ReingestOneFile(p, "rebuild", "reverse")
           \/ Crash(p)
    PROVE  TypeInv'
<1>0. cmd[p] \in Cmds
  BY DEF TypeInv
<1>c. CutShort(p) => /\ Idle \in Cmds /\ cmd' = [cmd EXCEPT ![p] = Idle]
                     /\ lock' \in Procs \cup {None} /\ halved' \in SUBSET Files
  <2>1. At(p, "reingest") => File(p) \in Files
    BY InHandFile DEF At
  <2>. QED
    BY <2>1, IdleType DEF CutShort, Leave, TypeInv
<1>1. CASE \E k \in Commands : Begin(p, k)
  <2>1. PICK k \in Commands : Begin(p, k)
    BY <1>1
  <2>2. [cmd[p] EXCEPT !.kind = k, !.pc = "check"] \in Cmds
    BY <1>0, CmdFields, PcValues
  <2>3. cmd' = [cmd EXCEPT ![p] = [cmd[p] EXCEPT !.kind = k, !.pc = "check"]]
    BY <2>1 DEF Begin, TypeInv
  <2>4. cmd' \in [Procs -> Cmds]
    BY <2>2, <2>3 DEF TypeInv
  <2>. QED
    BY <2>1, <2>4 DEF Begin, disk, aside, ghosts, TypeInv, Latest
<1>2. CASE SetReconciling(p, "mark", TRUE, "plan")
  BY <1>0, <1>2, CmdFields, PcValues, CmdTypes DEF SetReconciling, Leave, Goto, disk, aside, ghosts, TypeInv
<1>3. CASE SetReconciling(p, "clear", FALSE, "idle")
  BY <1>0, <1>3, IdleType, CmdTypes DEF SetReconciling, Leave, Goto, disk, aside, ghosts, TypeInv
<1>4. CASE SetReconciling(p, "set", TRUE, "recheck") \/ SetReconciling(p, "unset", FALSE, "done")
  BY <1>0, <1>4, CmdFields, PcValues, CmdTypes DEF SetReconciling, Leave, Goto, disk, aside, ghosts, TypeInv
<1>5. CASE ReingestOneFile(p, "reingest", "gate") \/ ReingestOneFile(p, "rebuild", "reverse")
  <2>1. CASE ~mounted
    <3>1. cmd' \in [Procs -> Cmds]
      BY <1>0, <1>5, <2>1, CmdFields, PcValues DEF ReingestOneFile, Goto, TypeInv
    <3>2. backing' \in Directory /\ halved' \in SUBSET Files
      BY <1>5, <2>1 DEF ReingestOneFile, File, TypeInv, Directory
    <3>. QED
      BY <1>5, <2>1, <3>1, <3>2 DEF ReingestOneFile, aside, ghosts, TypeInv, Latest
  <2>2. CASE mounted
    BY <1>c, <1>5, <2>2, CmdTypes DEF ReingestOneFile, TypeInv
  <2>. QED
    BY <2>1, <2>2
<1>7. CASE Crash(p)
  BY <1>c, <1>7, CmdTypes DEF Crash, disk, TypeInv
<1>. QED
  BY <1>1, <1>2, <1>3, <1>4, <1>5, <1>7

\* An entry is taken under its plan, or is left where it is.
EntryTaken(p, f, plan) ==
    /\ f \in Files
    /\ cmd[p].plan[f] \in Plans(f, orig[f], Gen(p).snap[f])
    /\ plan \in {cmd[p].plan[f], "KeepBoth"}
    /\ FirstStep(p, f, plan) \in {"entry", "stash", "quarantine", "memory", "gate", "reingest"}
    /\ cmd' = [cmd EXCEPT ![p] =
                  [cmd[p] EXCEPT !.todo = @ \ {f}, !.file = f, !.plan[f] = plan, !.pc = FirstStep(p, f, plan)]]

LEMMA EntryParts ==
    ASSUME BaseInv, NEW p \in Procs, Entry(p)
    PROVE  \E f \in cmd[p].todo : \E plan \in EntryPlans : EntryTaken(p, f, plan)
<1>0. cmd[p] \in Cmds /\ cmd \in [Procs -> Cmds]
  BY DEF BaseInv, TypeInv
<1>1. PICK f \in cmd[p].todo : \E answer \in Confirm :
        LET plan == Confirmed(f, cmd[p].plan[f], answer)
        IN cmd' = [cmd EXCEPT ![p].todo = @ \ {f}, ![p].file = f, ![p].plan[f] = plan,
                              ![p].pc = FirstStep(p, f, plan)]
  BY DEF Entry
<1>2. PICK answer \in Confirm :
        LET plan == Confirmed(f, cmd[p].plan[f], answer)
        IN cmd' = [cmd EXCEPT ![p].todo = @ \ {f}, ![p].file = f, ![p].plan[f] = plan,
                              ![p].pc = FirstStep(p, f, plan)]
  BY <1>1
<1>3. PlanFits(p) /\ cmd[p].pc = "entry"
  BY DEF Entry, At, BaseInv, HandInv
<1>4. f \in Files /\ cmd[p].plan[f] \in Plans(f, orig[f], Gen(p).snap[f])
  BY <1>0, <1>3 DEF PlanFits, Planned, Running, Cmds
<1> DEFINE plan == Confirmed(f, cmd[p].plan[f], answer)
<1>5. cmd[p].plan[f] \in EntryPlans
  BY <1>4 DEF Plans, ByContent, Recommend, EntryPlans
<1>6. plan \in EntryPlans /\ plan \in {cmd[p].plan[f], "KeepBoth"}
  BY <1>5 DEF Confirmed, EntryPlans
<1>7. FirstStep(p, f, plan) \in {"entry", "stash", "quarantine", "memory", "gate", "reingest"}
  BY <1>6 DEF FirstStep, StartStep, EntryPlans
<1>8. cmd' = [cmd EXCEPT ![p] =
                  [cmd[p] EXCEPT !.todo = @ \ {f}, !.file = f, !.plan[f] = plan, !.pc = FirstStep(p, f, plan)]]
  <2>. HIDE DEF plan
  <2>1. cmd' = [cmd EXCEPT ![p].todo = @ \ {f}, ![p].file = f, ![p].plan[f] = plan,
                           ![p].pc = FirstStep(p, f, plan)]
    BY <1>2 DEF plan
  <2>. QED
    BY <1>0, <2>1 DEF Cmds
<1>9. EntryTaken(p, f, plan)
  <2>. HIDE DEF plan
  <2>. QED
    BY <1>4, <1>6, <1>7, <1>8 DEF EntryTaken
<1>. QED
  BY <1>6, <1>9

LEMMA StartTypes ==
    ASSUME BaseInv, TypeInv, NEW p \in Procs,
           CheckPreconditions(p) \/ SnapshotUnderlay(p) \/ Preview(p) \/ PlanEntries(p) \/ Entry(p)
    PROVE  TypeInv'
<1>0. cmd[p] \in Cmds
  BY DEF TypeInv
<1>1. CASE CheckPreconditions(p)
  BY <1>0, <1>1, CmdFields, PcValues, IdleType, CmdTypes
     DEF CheckPreconditions, Goto, Leave, disk, aside, ghosts, TypeInv
<1>2. CASE SnapshotUnderlay(p)
  <2>1. CASE LockFree /\ Latest < load.runs
    <3> DEFINE e == [snap |-> Mountpoint, pre |-> NoFiles, quar |-> NoFiles,
                     manifest |-> None, undone |-> FALSE, before |-> orig, through |-> mounted]
    <3>1. e \in Generations
      BY NoFilesType DEF Generations, TypeInv, Mountpoint
    <3>2. gens' = Append(gens, e)
      BY <1>2, <2>1 DEF SnapshotUnderlay
    <3>3. gens' \in Seq(Generations) /\ Latest' = Latest + 1
      BY <3>1, <3>2, GenAppend DEF Latest
    <3>4. Latest \in Nat /\ load.runs \in Nat
      BY LoadType DEF TypeInv, Latest
    <3> DEFINE pc == IF cmd[p].kind = "preview" THEN "preview" ELSE "mark"
    <3>5. [cmd[p] EXCEPT !.gen = Latest + 1, !.pc = pc] \in Cmds
      <4>1. pc \in Pcs /\ Latest + 1 \in Nat
        BY <3>4, PcValues
      <4>. QED
        BY <1>0, <4>1, CmdFields
    <3>6. cmd' = [cmd EXCEPT ![p] = [cmd[p] EXCEPT !.gen = Latest + 1, !.pc = pc]]
      BY <1>2, <2>1 DEF SnapshotUnderlay, TypeInv
    <3>7. cmd' \in [Procs -> Cmds]
      BY <3>5, <3>6 DEF TypeInv
    <3>. QED
      BY <1>2, <2>1, <3>3, <3>4, <3>7 DEF SnapshotUnderlay, aside, ghosts, TypeInv
  <2>2. CASE ~(LockFree /\ Latest < load.runs)
    BY <1>2, <2>2, IdleType, CmdTypes DEF SnapshotUnderlay, Leave, aside, ghosts, TypeInv
  <2>. QED
    BY <2>1, <2>2
<1>3. CASE Preview(p)
  BY <1>3, IdleType, CmdTypes DEF Preview, Leave, disk, aside, ghosts, TypeInv
<1>4. CASE PlanEntries(p)
  <2>1. PICK plan \in [Files -> EntryPlans \cup {None}] :
           cmd' = [cmd EXCEPT ![p].pc = "entry", ![p].todo = Present(Gen(p).snap), ![p].plan = plan]
    BY <1>4 DEF PlanEntries
  <2>2. [cmd[p] EXCEPT !.pc = "entry", !.todo = Present(Gen(p).snap), !.plan = plan] \in Cmds
    BY <1>0, PcValues DEF Cmds, Present
  <2>3. cmd' = [cmd EXCEPT ![p] = [cmd[p] EXCEPT !.pc = "entry", !.todo = Present(Gen(p).snap), !.plan = plan]]
    BY <2>1 DEF TypeInv
  <2>. QED
    BY <1>4, <2>2, <2>3, CmdTypes DEF PlanEntries, disk, aside, ghosts, TypeInv
<1>5. CASE Entry(p)
  <2>1. PICK f \in cmd[p].todo : \E plan \in EntryPlans : EntryTaken(p, f, plan)
    BY <1>5, EntryParts
  <2>2. PICK plan \in EntryPlans : EntryTaken(p, f, plan)
    BY <2>1
  <2>3. [cmd[p] EXCEPT !.todo = @ \ {f}, !.file = f, !.plan[f] = plan, !.pc = FirstStep(p, f, plan)] \in Cmds
    BY <1>0, <2>2, PcValues DEF EntryTaken, Cmds
  <2>. QED
    BY <1>5, <2>2, <2>3, CmdTypes DEF EntryTaken, Entry, disk, aside, ghosts, TypeInv
<1>. QED
  BY <1>1, <1>2, <1>3, <1>4, <1>5

\* One field of a generation changes.
LEMMA GenFields ==
    ASSUME NEW e \in Generations
    PROVE  /\ \A f \in Files, c \in Contents : [e EXCEPT !.pre[f] = c] \in Generations
                                               /\ [e EXCEPT !.quar[f] = c] \in Generations
           /\ \A d \in Directory : [e EXCEPT !.quar = d] \in Generations
           /\ \A m \in [Files -> Reversals] : [e EXCEPT !.manifest = m] \in Generations
           /\ [e EXCEPT !.undone = TRUE] \in Generations
  BY DEF Generations, Directory

\* A step that changes the command and the latest generation.
LEMMA RunTypes ==
    ASSUME BaseInv, TypeInv, NEW p \in Procs, InRun(p) \/ InUndo(p), NEW e \in Generations,
           cmd' \in [Procs -> Cmds], gens' \in {gens, [gens EXCEPT ![cmd[p].gen] = e]},
           orig' \in Directory, backing' \in Directory, live' \in Directory, hollow' \in SUBSET Files,
           target' \in Directory, beside' \in [Files -> SUBSET Contents], marker' \in BOOLEAN,
           lock' \in Procs \cup {None}, halved' \in SUBSET Files,
           UNCHANGED <<load, mounted, written, fell, served>>
    PROVE  TypeInv'
<1>1. gens' \in Seq(Generations) /\ Latest' = Latest
  BY RunGen, GenUpdate DEF TypeInv, Latest
<1>. QED
  BY <1>1 DEF TypeInv

LEMMA ContentTypes ==
    ASSUME TypeInv, NEW f \in Files
    PROVE  orig[f] \in Contents /\ live[f] \in Contents /\ target[f] \in Contents /\ backing[f] \in Contents
  BY DEF TypeInv, Directory

LEMMA MergeTypes ==
    ASSUME BaseInv, TypeInv, NEW p \in Procs,
           StashPreimage(p) \/ WriteOrig(p) \/ QuarantineReuse(p) \/ FinishDelete(p)
    PROVE  TypeInv'
<1>0. /\ cmd[p] \in Cmds /\ InRun(p) /\ File(p) \in Files
      /\ Gen(p) \in Generations /\ Gen(p) = gens[cmd[p].gen] /\ cmd[p].gen \in Nat
  <2>1. InRun(p) /\ File(p) \in Files
    BY InHandFile DEF StashPreimage, WriteOrig, QuarantineReuse, FinishDelete, At, InRun, Running
  <2>. QED
    BY <2>1, RunGen DEF TypeInv, Gen
<1>s. Bytes(p) \in Contents /\ orig[File(p)] \in Contents
  BY <1>0, ContentTypes DEF Generations, Directory, Bytes, Contents
<1>1. CASE StashPreimage(p)
  <2>1. cmd' \in [Procs -> Cmds]
    <3>1. [cmd[p] EXCEPT !.pc = "entry", !.plan[File(p)] = "KeepBoth"] \in Cmds
      BY <1>0, PcValues DEF Cmds, EntryPlans
    <3>2. [cmd[p] EXCEPT !.pc = "merge"] \in Cmds
      BY <1>0, PcValues, CmdFields
    <3>3. \/ cmd' = [cmd EXCEPT ![p] = [cmd[p] EXCEPT !.pc = "entry", !.plan[File(p)] = "KeepBoth"]]
          \/ cmd' = [cmd EXCEPT ![p] = [cmd[p] EXCEPT !.pc = "merge"]]
      BY <1>1, <1>0 DEF StashPreimage, Goto, TypeInv, Cmds
    <3>. QED
      BY <3>1, <3>2, <3>3 DEF TypeInv
  <2>2. [Gen(p) EXCEPT !.pre[File(p)] = orig[File(p)]] \in Generations
    BY <1>0, <1>s, GenFields
  <2>3. gens' \in {gens, [gens EXCEPT ![cmd[p].gen] = [Gen(p) EXCEPT !.pre[File(p)] = orig[File(p)]]]}
    BY <1>1, <1>0 DEF StashPreimage
  <2>. QED
    BY <1>0, <1>1, <2>1, <2>2, <2>3, RunTypes DEF StashPreimage, aside, ghosts, TypeInv
<1>2. CASE WriteOrig(p)
  <2>1. cmd' \in [Procs -> Cmds]
    BY <1>2, <1>0, PcValues, CmdFields DEF WriteOrig, Goto, TypeInv
  <2>2. MergedFile(p) \in Contents
    <3>1. Bytes(p) # None
      <4>1. Gen(p).snap[File(p)] # None
        BY <1>2 DEF WriteOrig, At, BaseInv, HandInv, StillThere, InHand, Present
      <4>. QED
        BY <4>1, NoneAssumption DEF Bytes
    <3>. QED
      BY <3>1, <1>s DEF MergedFile, Merged, SessionMerge, Contents
  <2>3. orig' \in Directory
    BY <1>2, <1>0, <2>2, DirUpdate DEF WriteOrig, TypeInv
  <2>. QED
    BY <1>0, <1>2, <2>1, <2>3, RunTypes DEF WriteOrig, aside, ghosts, TypeInv
<1>3. CASE QuarantineReuse(p)
  <2>1. cmd' \in [Procs -> Cmds]
    BY <1>3, <1>0, PcValues, CmdFields DEF QuarantineReuse, Goto, TypeInv
  <2>2. [Gen(p) EXCEPT !.quar[File(p)] = Bytes(p)] \in Generations
    BY <1>0, <1>s, GenFields
  <2>3. gens' = [gens EXCEPT ![cmd[p].gen] = [Gen(p) EXCEPT !.quar[File(p)] = Bytes(p)]]
    BY <1>3, <1>0 DEF QuarantineReuse
  <2>. QED
    BY <1>0, <1>3, <2>1, <2>2, <2>3, RunTypes DEF QuarantineReuse, aside, ghosts, TypeInv
<1>4. CASE FinishDelete(p)
  <2>1. cmd' \in [Procs -> Cmds]
    <3>1. PICK pc \in Pcs : Goto(p, pc)
      BY <1>4, PcValues DEF FinishDelete
    <3>2. [cmd[p] EXCEPT !.pc = pc] \in Cmds
      BY <1>0, CmdFields
    <3>. QED
      BY <3>1, <3>2 DEF Goto, TypeInv
  <2>2. /\ live' \in Directory /\ hollow' \in SUBSET Files
        /\ backing' \in Directory /\ halved' \in SUBSET Files
    <3>1. CASE At(p, "gate")
      BY <1>4, <3>1 DEF FinishDelete, TypeInv, At
    <3>2. CASE At(p, "unlink") /\ ~mounted
      <4>1. /\ live' = [live EXCEPT ![File(p)] = None] /\ hollow' = hollow \cup ({File(p)} \cap Of("subagent"))
            /\ UNCHANGED <<backing, halved>>
        BY <1>4, <3>2 DEF FinishDelete, At
      <4>. QED
        BY <1>0, <4>1, DirUpdate DEF TypeInv, Contents
    <3>3. CASE At(p, "unlink") /\ mounted
      <4>1. /\ backing' = [backing EXCEPT ![File(p)] = None] /\ halved' = halved \cup {File(p)}
            /\ UNCHANGED <<live, hollow>>
        BY <1>4, <3>3 DEF FinishDelete, At
      <4>. QED
        BY <1>0, <4>1, DirUpdate DEF TypeInv, Contents
    <3>. QED
      BY <1>4, <3>1, <3>2, <3>3 DEF FinishDelete
  <2>. QED
    BY <1>0, <1>4, <2>1, <2>2, RunTypes DEF FinishDelete, aside, ghosts, TypeInv
<1>. QED
  BY <1>1, <1>2, <1>3, <1>4

LEMMA MemoryTypes ==
    ASSUME BaseInv, TypeInv, NEW p \in Procs,
           RestoreMemory(p) \/ PlaceRead(p) \/ PlaceWrite(p) \/ Relocate(p) \/ Prune(p) \/ WriteManifest(p)
    PROVE  TypeInv'
<1>0. /\ cmd[p] \in Cmds /\ InRun(p)
      /\ Gen(p) \in Generations /\ Gen(p) = gens[cmd[p].gen] /\ cmd[p].gen \in Nat
  <2>1. InRun(p)
    BY DEF RestoreMemory, PlaceRead, PlaceWrite, Relocate, Prune, WriteManifest, At, InRun, Running
  <2>. QED
    BY <2>1, RunGen DEF TypeInv, Gen
<1>1. CASE RestoreMemory(p)
  <2>1. cmd' \in [Procs -> Cmds]
    <3> DEFINE left == Present(live) \cap Memory
    <3>1. [cmd[p] EXCEPT !.pc = "place", !.left = left] \in Cmds
      BY <1>0, PcValues DEF Cmds, Present
    <3>2. [cmd[p] EXCEPT !.pc = "entry"] \in Cmds
      BY <1>0, PcValues, CmdFields
    <3>3. \/ cmd' = [cmd EXCEPT ![p] = [cmd[p] EXCEPT !.pc = "place", !.left = left]]
          \/ cmd' = [cmd EXCEPT ![p] = [cmd[p] EXCEPT !.pc = "entry"]]
      BY <1>1, <1>0 DEF RestoreMemory, Goto, TypeInv
    <3>. QED
      BY <3>1, <3>2, <3>3 DEF TypeInv
  <2>. QED
    BY <1>0, <1>1, <2>1, RunTypes DEF RestoreMemory, disk, aside, ghosts, TypeInv
<1>2. CASE PlaceRead(p)
  <2>1. PICK f \in cmd[p].left :
          cmd' = [cmd EXCEPT ![p].file = f, ![p].text = live[f],
                    ![p].pc = CASE target[f] = None    -> "put"
                                [] target[f] = live[f] -> "place"
                                [] OTHER               -> "putbeside",
                    ![p].left = IF target[f] = live[f] THEN @ \ {f} ELSE @]
    BY <1>2 DEF PlaceRead
  <2>2. f \in Files /\ live[f] \in Contents
    BY <1>0, ContentTypes DEF Cmds
  <2> DEFINE pc == CASE target[f] = None    -> "put"
                     [] target[f] = live[f] -> "place"
                     [] OTHER               -> "putbeside"
             left == IF target[f] = live[f] THEN cmd[p].left \ {f} ELSE cmd[p].left
  <2>3. pc \in Pcs /\ left \in SUBSET Files
    BY <1>0, PcValues DEF Cmds
  <2>4. cmd' = [cmd EXCEPT ![p] = [cmd[p] EXCEPT !.file = f, !.text = live[f], !.pc = pc, !.left = left]]
    <3>1. cmd' = [cmd EXCEPT ![p].file = f, ![p].text = live[f], ![p].pc = pc,
                             ![p].left = IF target[f] = live[f] THEN @ \ {f} ELSE @]
      BY <2>1
    <3>2. CASE target[f] = live[f]
      <4>. HIDE DEF pc
      <4>. QED
        BY <1>0, <3>1, <3>2 DEF TypeInv, Cmds
    <3>3. CASE target[f] # live[f]
      <4>. HIDE DEF pc
      <4>. QED
        BY <1>0, <3>1, <3>3 DEF TypeInv, Cmds
    <3>. QED
      BY <3>2, <3>3
  <2>5. [cmd[p] EXCEPT !.file = f, !.text = live[f], !.pc = pc, !.left = left] \in Cmds
    <3>. HIDE DEF pc, left
    <3>. QED
      BY <1>0, <2>2, <2>3 DEF Cmds
  <2>6. cmd' \in [Procs -> Cmds]
    BY <2>4, <2>5 DEF TypeInv
  <2>. QED
    BY <1>0, <1>2, <2>6, RunTypes DEF PlaceRead, disk, aside, ghosts, TypeInv
<1>3. CASE PlaceWrite(p)
  <2>0. File(p) \in Files
    BY <1>3, InHandFile DEF PlaceWrite, At
  <2>1. [cmd[p] EXCEPT !.pc = "place", !.left = @ \ {File(p)}, !.text = None] \in Cmds
    BY <1>0, PcValues DEF Cmds, Contents
  <2>2. cmd' = [cmd EXCEPT ![p] = [cmd[p] EXCEPT !.pc = "place", !.left = @ \ {File(p)}, !.text = None]]
    BY <1>3 DEF PlaceWrite, TypeInv
  <2>3. cmd[p].text \in Contents
    BY <1>0 DEF Cmds
  <2>4. target' \in Directory
    BY <1>3, <2>0, <2>3, DirUpdate DEF PlaceWrite, TypeInv
  <2>5. beside' \in [Files -> SUBSET Contents]
    BY <1>3, <2>0, <2>3 DEF PlaceWrite, TypeInv
  <2>. QED
    BY <1>0, <1>3, <2>1, <2>2, <2>4, <2>5, RunTypes DEF PlaceWrite, aside, ghosts, TypeInv
<1>4. CASE Relocate(p)
  <2>1. cmd' \in [Procs -> Cmds]
    BY <1>4, <1>0, PcValues, CmdFields DEF Relocate, Goto, TypeInv
  <2> DEFINE d == [f \in Files |-> IF f \in Memory THEN live[f] ELSE Gen(p).quar[f]]
  <2>2. d \in Directory
    BY <1>0 DEF Generations, TypeInv, Directory
  <2>3. [Gen(p) EXCEPT !.quar = d] \in Generations
    BY <1>0, <2>2, GenFields
  <2>4. gens' = [gens EXCEPT ![cmd[p].gen] = [Gen(p) EXCEPT !.quar = d]]
    BY <1>4, <1>0 DEF Relocate
  <2>5. live' \in Directory
    BY <1>4 DEF Relocate, TypeInv, Directory, Contents
  <2>. QED
    BY <1>0, <1>4, <2>1, <2>3, <2>4, <2>5, RunTypes DEF Relocate, aside, ghosts, TypeInv
<1>5. CASE Prune(p)
  <2>1. cmd' \in [Procs -> Cmds]
    BY <1>5, <1>0, PcValues, CmdFields DEF Prune, Goto, TypeInv
  <2>. QED
    BY <1>0, <1>5, <2>1, RunTypes DEF Prune, aside, ghosts, TypeInv
<1>6. CASE WriteManifest(p)
  <2>1. cmd' \in [Procs -> Cmds]
    BY <1>6, <1>0, PcValues, CmdFields DEF WriteManifest, Goto, TypeInv
  <2> DEFINE m == [f \in Files |-> IF cmd[p].plan[f] = None THEN "Noop" ELSE Reversal(p, f)]
  <2>2. m \in [Files -> Reversals]
    BY DEF Reversal, ReversalForPreimage, Reversals
  <2>3. [Gen(p) EXCEPT !.manifest = m] \in Generations
    BY <1>0, <2>2, GenFields
  <2>4. gens' \in {gens, [gens EXCEPT ![cmd[p].gen] = [Gen(p) EXCEPT !.manifest = m]]}
    BY <1>6, <1>0 DEF WriteManifest
  <2>. QED
    BY <1>0, <1>6, <2>1, <2>3, <2>4, RunTypes DEF WriteManifest, aside, ghosts, TypeInv
<1>. QED
  BY <1>1, <1>2, <1>3, <1>4, <1>5, <1>6

LEMMA UndoTypes ==
    ASSUME BaseInv, TypeInv, NEW p \in Procs,
           UndoCheck(p) \/ AbortIfMounted(p) \/ Reverse(p) \/ RestoreUnderlay(p) \/ WriteUndone(p)
    PROVE  TypeInv'
<1>0. cmd[p] \in Cmds
  BY DEF TypeInv
<1>g. InUndo(p) => /\ Gen(p) \in Generations /\ Gen(p) = gens[cmd[p].gen] /\ cmd[p].gen \in Nat
                   /\ Gen(p).manifest \in [Files -> Reversals]
  BY RunGen DEF Gen, BaseInv, HandInv, MemoryKept, Generations, TypeInv
<1>1. CASE UndoCheck(p)
  <2>1. cmd' \in [Procs -> Cmds]
    <3>1. Latest \in Nat
      BY DEF TypeInv, Latest
    <3>2. [cmd[p] EXCEPT !.pc = "set", !.gen = Latest] \in Cmds
      BY <1>0, <3>1, CmdFields, PcValues
    <3>3. cmd' \in {[cmd EXCEPT ![p] = Idle], [cmd EXCEPT ![p] = [cmd[p] EXCEPT !.pc = "set", !.gen = Latest]]}
      BY <1>1 DEF UndoCheck, Leave, TypeInv
    <3>. QED
      BY <3>2, <3>3, IdleType DEF TypeInv
  <2>2. marker' \in BOOLEAN /\ lock' \in Procs \cup {None}
    BY <1>1 DEF UndoCheck, Leave, TypeInv
  <2>. QED
    BY <1>1, <2>1, <2>2 DEF UndoCheck, TypeInv, aside, ghosts, Latest
<1>2. CASE AbortIfMounted(p)
  <2>1. [cmd[p] EXCEPT !.pc = "reverse", !.todo = Files] \in Cmds
    BY <1>0, CmdFields, PcValues
  <2>2. cmd' \in {[cmd EXCEPT ![p] = Idle], [cmd EXCEPT ![p] = [cmd[p] EXCEPT !.pc = "reverse", !.todo = Files]]}
    BY <1>2 DEF AbortIfMounted, Leave, TypeInv
  <2>. QED
    BY <1>2, <2>1, <2>2, IdleType DEF AbortIfMounted, Leave, TypeInv, aside, ghosts, Latest
<1>3. CASE Reverse(p)
  <2>0. InUndo(p)
    BY <1>3 DEF Reverse, At, InUndo, Undoing
  <2>1. PICK f \in cmd[p].todo :
          LET class == Gen(p).manifest[f]
          IN /\ orig' = CASE class = "RestoreOrig" -> [orig EXCEPT ![f] = Gen(p).pre[f]]
                          [] class = "RemoveOrig"  -> [orig EXCEPT ![f] = None]
                          [] OTHER                 -> orig
             /\ gens' = IF class = "RemoveQuarantine"
                        THEN [gens EXCEPT ![cmd[p].gen].quar[f] = None] ELSE gens
             /\ cmd' = [cmd EXCEPT ![p].todo = @ \ {f}, ![p].file = f,
                          ![p].pc = IF class \in {"RestoreOrig", "RemoveOrig"} THEN "rebuild" ELSE "reverse"]
    BY <1>3 DEF Reverse
  <2>2. f \in Files /\ Gen(p).pre[f] \in Contents
    BY <1>0, <1>g, <2>0 DEF Cmds, Generations, Directory
  <2>3. orig' \in Directory
    BY <2>1, <2>2, DirUpdate DEF TypeInv, Contents
  <2>4. [Gen(p) EXCEPT !.quar[f] = None] \in Generations
    BY <1>g, <2>0, <2>2, GenFields DEF Contents
  <2>5. gens' \in {gens, [gens EXCEPT ![cmd[p].gen] = [Gen(p) EXCEPT !.quar[f] = None]]}
    BY <1>g, <2>0, <2>1
  <2> DEFINE pc == IF Gen(p).manifest[f] \in {"RestoreOrig", "RemoveOrig"} THEN "rebuild" ELSE "reverse"
  <2>6. pc \in Pcs
    BY PcValues
  <2>7. cmd' = [cmd EXCEPT ![p] = [cmd[p] EXCEPT !.todo = @ \ {f}, !.file = f, !.pc = pc]]
    BY <2>1 DEF TypeInv
  <2>8. [cmd[p] EXCEPT !.todo = @ \ {f}, !.file = f, !.pc = pc] \in Cmds
    <3>. HIDE DEF pc
    <3>. QED
      BY <1>0, <2>2, <2>6 DEF Cmds
  <2>9. cmd' \in [Procs -> Cmds]
    BY <2>7, <2>8 DEF TypeInv
  <2>. QED
    BY <1>3, <2>0, <2>3, <2>4, <2>5, <2>9, RunTypes DEF Reverse, aside, ghosts, TypeInv
<1>4. CASE RestoreUnderlay(p)
  <2>0. InUndo(p)
    BY <1>4 DEF RestoreUnderlay, At, InUndo, Undoing
  <2>1. cmd' \in [Procs -> Cmds]
    BY <1>4, <1>0, PcValues, CmdFields DEF RestoreUnderlay, Goto, TypeInv
  <2>2. live' \in Directory /\ target' \in Directory /\ backing' \in Directory
    BY <1>4, <1>g, <2>0 DEF RestoreUnderlay, TypeInv, Directory, Generations
  <2>3. hollow' \in SUBSET Files
    BY <1>4 DEF RestoreUnderlay, TypeInv
  <2>. QED
    BY <1>4, <1>g, <2>0, <2>1, <2>2, <2>3, RunTypes DEF RestoreUnderlay, aside, ghosts, TypeInv
<1>5. CASE WriteUndone(p)
  <2>0. InUndo(p)
    BY <1>5 DEF WriteUndone, At, InUndo, Undoing
  <2>1. cmd' \in [Procs -> Cmds] /\ lock' \in Procs \cup {None}
    BY <1>5, IdleType DEF WriteUndone, Leave, TypeInv
  <2>2. [Gen(p) EXCEPT !.undone = TRUE] \in Generations
    BY <1>g, <2>0, GenFields
  <2>3. gens' = [gens EXCEPT ![cmd[p].gen] = [Gen(p) EXCEPT !.undone = TRUE]]
    BY <1>5, <1>g, <2>0 DEF WriteUndone
  <2>. QED
    BY <1>5, <2>0, <2>1, <2>2, <2>3, RunTypes DEF WriteUndone, aside, ghosts, TypeInv
<1>. QED
  BY <1>1, <1>2, <1>3, <1>4, <1>5

LEMMA NextTypes ==
    ASSUME BaseInv, [Next]_vars PROVE TypeInv'
<1>0. TypeInv
  BY DEF BaseInv
<1>1. CASE Mount \/ Unmount
  BY <1>0, <1>1, MountTypes
<1>2. CASE \E f \in Files : Write(f) \/ Link(f)
  BY <1>0, <1>2, WriteTypes
<1>3. CASE \E p \in Procs : ReconcileSteps(p) \/ UndoSteps(p) \/ Crash(p)
  BY <1>0, <1>3, CommonTypes, StartTypes, MergeTypes, MemoryTypes, UndoTypes DEF ReconcileSteps, UndoSteps, Commands
<1>4. CASE UNCHANGED vars
  BY <1>0, <1>4 DEF vars, disk, aside, ghosts, TypeInv, Latest
<1>. QED
  BY <1>1, <1>2, <1>3, <1>4 DEF Next

-----------------------------------------------------------------------------
(* Who is in a run                                                          *)

\* The three kinds of steps of a command: it goes on, it leaves, it enters a run.
Stays(p, pc, next) ==
    \/ pc \in {"check", "snapshot"} /\ next \in {"check", "snapshot"} /\ cmd[p].kind # "undo"
    \/ pc \in Running /\ next \in Running
    \/ pc \in Undoing /\ next \in Undoing

GoesOn(p) ==
    /\ UNCHANGED lock /\ Latest' = Latest
    /\ cmd'[p].kind = cmd[p].kind /\ cmd'[p].gen = cmd[p].gen
    /\ Stays(p, cmd[p].pc, cmd'[p].pc)
Leaves(p) ==
    /\ lock' = (IF lock = p THEN None ELSE lock) /\ Latest' = Latest
    /\ cmd'[p] = Idle
Starts(p) ==
    /\ UNCHANGED lock /\ Latest' = Latest
    /\ load.alone => \A q \in Procs : cmd[q] = Idle
    /\ cmd[p] = Idle /\ cmd'[p].pc = "check" /\ cmd'[p].gen = 0 /\ cmd'[p].kind \in load.commands
Enters(p) ==
    /\ lock = None /\ lock' = p /\ Latest' # 0 /\ cmd'[p].gen = Latest'
    /\ cmd'[p].kind = cmd[p].kind /\ cmd[p].pc # "idle"
    /\ \/ cmd'[p].pc \in Running /\ cmd[p].kind # "undo"
       \/ cmd'[p].pc \in Undoing /\ cmd[p].kind = "undo"

LEMMA CmdSteps ==
    ASSUME BaseInv, TypeInv', NEW p \in Procs, ReconcileSteps(p) \/ UndoSteps(p) \/ Crash(p)
    PROVE  /\ UNCHANGED load /\ \A q \in Procs : q # p => cmd'[q] = cmd[q]
           /\ GoesOn(p) \/ Leaves(p) \/ Starts(p) \/ Enters(p)
<1>0. cmd \in [Procs -> Cmds] /\ cmd[p] \in Cmds /\ KindFits(p) /\ HoldsLock(p) /\ Latest \in Nat
  BY DEF BaseInv, TypeInv, RunInv, Latest
<1>1. CASE \E k \in Commands : Begin(p, k)
  <2>1. PICK k \in Commands : Begin(p, k)
    BY <1>1
  <2>. QED
    BY <1>0, <2>1 DEF Begin, Starts, disk, aside, Cmds, Latest, Idle
<1>2. CASE SetReconciling(p, "mark", TRUE, "plan")
  BY <1>0, <1>2 DEF SetReconciling, Leave, Goto, At, GoesOn, Stays, Running, Cmds, Latest
<1>3. CASE SetReconciling(p, "set", TRUE, "recheck") \/ SetReconciling(p, "unset", FALSE, "done")
  BY <1>0, <1>3 DEF SetReconciling, Leave, Goto, At, GoesOn, Stays, Undoing, Cmds, Latest
<1>4. CASE SetReconciling(p, "clear", FALSE, "idle")
  BY <1>0, <1>4 DEF SetReconciling, Leave, At, Leaves, Latest
<1>5. CASE ReingestOneFile(p, "reingest", "gate")
  BY <1>0, <1>5 DEF ReingestOneFile, CutShort, Leave, Leaves, Goto, At, GoesOn, Stays, Running, Cmds, Latest
<1>6. CASE ReingestOneFile(p, "rebuild", "reverse")
  BY <1>0, <1>6 DEF ReingestOneFile, CutShort, Leave, Leaves, Goto, At, GoesOn, Stays, Undoing, Cmds, Latest
<1>7. CASE Crash(p) \/ Preview(p)
  BY <1>0, <1>7 DEF Crash, CutShort, Preview, Leave, Leaves, disk, Latest
<1>8. CASE CheckPreconditions(p)
  BY <1>0, <1>8 DEF CheckPreconditions, Leave, Goto, At, GoesOn, Stays, Leaves, Cmds, Latest
<1>9. CASE SnapshotUnderlay(p)
  <2>1. CASE LockFree /\ Latest < load.runs
    <3>1. Latest' = Latest + 1
      BY <1>9, <2>1, AppendProperties, NoFilesType
         DEF SnapshotUnderlay, Latest, BaseInv, TypeInv, Generations, Mountpoint
    <3>. QED
      BY <1>0, <1>9, <2>1, <3>1 DEF SnapshotUnderlay, At, Enters, Running, Cmds, LockFree, KindFits
  <2>2. CASE ~(LockFree /\ Latest < load.runs)
    BY <1>0, <1>9, <2>2 DEF SnapshotUnderlay, Leave, Leaves, Latest
  <2>. QED
    BY <2>1, <2>2
<1>10. CASE PlanEntries(p)
  <2>1. PICK plan \in [Files -> EntryPlans \cup {None}] :
           cmd' = [cmd EXCEPT ![p].pc = "entry", ![p].todo = Present(Gen(p).snap), ![p].plan = plan]
    BY <1>10 DEF PlanEntries
  <2>. QED
    BY <1>0, <1>10, <2>1 DEF PlanEntries, At, GoesOn, Stays, Running, Cmds, disk, Latest
<1>11. CASE Entry(p)
  <2>1. PICK f \in cmd[p].todo : \E plan \in EntryPlans : EntryTaken(p, f, plan)
    BY <1>11, EntryParts
  <2>2. PICK plan \in EntryPlans : EntryTaken(p, f, plan)
    BY <2>1
  <2>. QED
    BY <1>0, <1>11, <2>2 DEF EntryTaken, Entry, At, GoesOn, Stays, Running, Cmds, disk, Latest
<1>12. CASE StashPreimage(p) \/ WriteOrig(p) \/ QuarantineReuse(p) \/ FinishDelete(p)
  <2>1. UNCHANGED <<lock, load>> /\ Latest' = Latest
    BY <1>12 DEF StashPreimage, WriteOrig, QuarantineReuse, FinishDelete, Latest, BaseInv, TypeInv
  <2>2. /\ cmd[p].pc \in Running /\ cmd'[p].pc \in Running
        /\ cmd'[p].kind = cmd[p].kind /\ cmd'[p].gen = cmd[p].gen
        /\ \A q \in Procs : q # p => cmd'[q] = cmd[q]
    <3>1. CASE StashPreimage(p)
      BY <1>0, <3>1 DEF StashPreimage, Goto, At, Running, Cmds
    <3>2. CASE WriteOrig(p) \/ QuarantineReuse(p)
      BY <1>0, <3>2 DEF WriteOrig, QuarantineReuse, Goto, At, Running, Cmds
    <3>3. CASE FinishDelete(p)
      BY <1>0, <3>3 DEF FinishDelete, Goto, At, Running, Cmds
    <3>. QED
      BY <1>12, <3>1, <3>2, <3>3
  <2>. QED
    BY <2>1, <2>2 DEF GoesOn, Stays
<1>13. CASE RestoreMemory(p) \/ PlaceRead(p) \/ PlaceWrite(p) \/ Relocate(p) \/ Prune(p) \/ WriteManifest(p)
  <2>1. UNCHANGED <<lock, load>> /\ Latest' = Latest
    <3>1. CASE RestoreMemory(p) \/ PlaceRead(p)
      BY <3>1 DEF RestoreMemory, PlaceRead, disk, Latest
    <3>2. CASE PlaceWrite(p) \/ Prune(p)
      BY <3>2 DEF PlaceWrite, Prune, Latest
    <3>3. CASE Relocate(p) \/ WriteManifest(p)
      BY <3>3 DEF Relocate, WriteManifest, Latest, BaseInv, TypeInv
    <3>. QED
      BY <1>13, <3>1, <3>2, <3>3
  <2>2. /\ cmd[p].pc \in Running /\ cmd'[p].pc \in Running
        /\ cmd'[p].kind = cmd[p].kind /\ cmd'[p].gen = cmd[p].gen
        /\ \A q \in Procs : q # p => cmd'[q] = cmd[q]
    <3>1. CASE RestoreMemory(p) \/ PlaceWrite(p)
      BY <1>0, <3>1 DEF RestoreMemory, PlaceWrite, Goto, At, Running, Cmds
    <3>2. CASE PlaceRead(p)
      BY <1>0, <3>2 DEF PlaceRead, At, Running, Cmds
    <3>3. CASE Relocate(p) \/ Prune(p) \/ WriteManifest(p)
      BY <1>0, <3>3 DEF Relocate, Prune, WriteManifest, Goto, At, Running, Cmds
    <3>. QED
      BY <1>13, <3>1, <3>2, <3>3
  <2>. QED
    BY <2>1, <2>2 DEF GoesOn, Stays
<1>14. CASE UndoCheck(p)
  <2>1. gens # <<>> => Latest # 0
    BY EmptySeq DEF BaseInv, TypeInv, Latest
  <2>2. CASE cmd' = [cmd EXCEPT ![p] = Idle]
    BY <1>0, <1>14, <2>2 DEF UndoCheck, Leave, Leaves, Latest, Idle
  <2>3. CASE cmd' # [cmd EXCEPT ![p] = Idle]
    BY <1>0, <1>14, <2>1, <2>3 DEF UndoCheck, Leave, At, Enters, Undoing, Cmds, LockFree, Latest
  <2>. QED
    BY <2>2, <2>3
<1>15. CASE AbortIfMounted(p)
  BY <1>0, <1>15 DEF AbortIfMounted, Leave, Leaves, At, GoesOn, Stays, Undoing, Cmds, Latest
<1>16. CASE Reverse(p)
  <2>1. UNCHANGED <<lock, load>> /\ Latest' = Latest
    BY <1>16 DEF Reverse, Latest, BaseInv, TypeInv
  <2>2. /\ cmd[p].pc \in Undoing /\ cmd'[p].pc \in Undoing
        /\ cmd'[p].kind = cmd[p].kind /\ cmd'[p].gen = cmd[p].gen
        /\ \A q \in Procs : q # p => cmd'[q] = cmd[q]
    BY <1>0, <1>16 DEF Reverse, At, Undoing, Cmds
  <2>. QED
    BY <2>1, <2>2 DEF GoesOn, Stays
<1>17. CASE RestoreUnderlay(p)
  BY <1>0, <1>17 DEF RestoreUnderlay, Goto, At, GoesOn, Stays, Undoing, Cmds, Latest
<1>18. CASE WriteUndone(p)
  BY <1>0, <1>18 DEF WriteUndone, Leave, Leaves, Latest, BaseInv, TypeInv
<1>. QED
  BY <1>1, <1>2, <1>3, <1>4, <1>5, <1>6, <1>7, <1>8, <1>9, <1>10, <1>11, <1>12, <1>13, <1>14, <1>15, <1>16,
     <1>17, <1>18 DEF ReconcileSteps, UndoSteps, Commands

\* The lock is taken in two places.
LEMMA EnterSteps ==
    ASSUME NEW p \in Procs, ReconcileSteps(p) \/ UndoSteps(p) \/ Crash(p), lock = None, lock' = p
    PROVE  SnapshotUnderlay(p) \/ UndoCheck(p)
<1>0. lock' # lock /\ lock' # None
  BY NoneAssumption
<1>1. ASSUME \/ \E k \in Commands : Begin(p, k)
             \/ CheckPreconditions(p) \/ Preview(p) \/ PlanEntries(p) \/ Entry(p) \/ StashPreimage(p)
             \/ WriteOrig(p) \/ QuarantineReuse(p) \/ FinishDelete(p) \/ RestoreMemory(p) \/ PlaceRead(p)
             \/ PlaceWrite(p) \/ Relocate(p) \/ Prune(p) \/ WriteManifest(p)
      PROVE  FALSE
  BY <1>0, <1>1 DEF Begin, CheckPreconditions, Preview, PlanEntries, Entry, StashPreimage, WriteOrig, QuarantineReuse,
         FinishDelete, RestoreMemory, PlaceRead, PlaceWrite, Relocate, Prune, WriteManifest, Leave
<1>2. ASSUME \/ AbortIfMounted(p) \/ Reverse(p) \/ RestoreUnderlay(p) \/ WriteUndone(p) \/ Crash(p)
             \/ \E from, to \in Pcs, on \in BOOLEAN : SetReconciling(p, from, on, to)
             \/ \E from, to \in Pcs : ReingestOneFile(p, from, to)
      PROVE  FALSE
  BY <1>0, <1>2 DEF AbortIfMounted, Reverse, RestoreUnderlay, WriteUndone, Crash, CutShort, SetReconciling,
                    ReingestOneFile, Leave
<1>. QED
  BY <1>1, <1>2, Steps

LEMMA RunKept ==
    ASSUME BaseInv, TypeInv', NEW p \in Procs, ReconcileSteps(p) \/ UndoSteps(p) \/ Crash(p)
    PROVE  RunInv'
<1>1. /\ UNCHANGED load /\ \A q \in Procs : q # p => cmd'[q] = cmd[q]
      /\ GoesOn(p) \/ Leaves(p) \/ Starts(p) \/ Enters(p)
  BY CmdSteps
<1>2. RunInv /\ None \notin Procs /\ cmd \in [Procs -> Cmds] /\ cmd' \in [Procs -> Cmds]
  BY NoneAssumption DEF BaseInv, TypeInv
<1>3. \A q \in Procs : q # p => HoldsLock(q)' /\ KindFits(q)'
  BY <1>1, <1>2 DEF RunInv, HoldsLock, KindFits, InRun, InUndo, GoesOn, Leaves, Starts, Enters
<1>4. HoldsLock(p)' /\ KindFits(p)'
  <2>1. CASE GoesOn(p)
    BY <1>1, <1>2, <2>1 DEF RunInv, HoldsLock, KindFits, InRun, InUndo, GoesOn, Stays, Running, Undoing
  <2>2. CASE Leaves(p)
    BY <1>1, <1>2, <2>2 DEF RunInv, HoldsLock, KindFits, InRun, InUndo, Leaves, Idle, Running, Undoing
  <2>3. CASE Starts(p)
    BY <1>1, <1>2, <2>3 DEF RunInv, HoldsLock, KindFits, InRun, InUndo, Starts, Running, Undoing
  <2>4. CASE Enters(p)
    BY <1>1, <1>2, <2>4 DEF RunInv, HoldsLock, KindFits, InRun, InUndo, Enters, Running, Undoing
  <2>. QED
    BY <1>1, <2>1, <2>2, <2>3, <2>4
<1>5. AloneInv'
  <2>1. \A q \in Procs : cmd[q] = Idle => cmd[q].pc = "idle"
    BY DEF Idle
  <2>2. cmd[p].pc # "idle" \/ cmd'[p].pc = "idle" \/ (load.alone => \A q \in Procs : cmd[q] = Idle)
    BY <1>1 DEF GoesOn, Stays, Leaves, Idle, Starts, Enters, Running, Undoing
  <2>. QED
    BY <1>1, <1>2, <2>1, <2>2 DEF RunInv, AloneInv
<1>. QED
  BY <1>3, <1>4, <1>5 DEF RunInv

-----------------------------------------------------------------------------
(* What a run has in hand                                                   *)

\* Whoever has no part in the run that holds the lock touches no file.
LEMMA OutsideSteps ==
    ASSUME BaseInv, NEW p \in Procs, NEW q \in Procs, q # p, InRun(q) \/ InUndo(q),
           ReconcileSteps(p) \/ UndoSteps(p) \/ Crash(p)
    PROVE  UNCHANGED <<load, orig, backing, live, gens, aside>>
<1>1. cmd[p].pc \notin Running \cup Undoing /\ lock # None
  BY NoneAssumption DEF BaseInv, RunInv, HoldsLock, InRun, InUndo
<1>2. \/ \E k \in Commands : Begin(p, k)
      \/ CheckPreconditions(p) \/ SnapshotUnderlay(p) \/ UndoCheck(p) \/ Crash(p)
  BY <1>1 DEF ReconcileSteps, UndoSteps, Commands, Running, Undoing, SetReconciling, ReingestOneFile, Preview,
      PlanEntries, Entry, StashPreimage, WriteOrig, QuarantineReuse, FinishDelete, RestoreMemory, PlaceRead,
      PlaceWrite, Relocate, Prune, WriteManifest, AbortIfMounted, Reverse, RestoreUnderlay, WriteUndone, At
<1>. QED
  BY <1>1, <1>2 DEF Begin, CheckPreconditions, SnapshotUnderlay, UndoCheck, Crash, LockFree, disk, aside, ghosts

\* What a step does to the generations: one is added, or the latest changes, but
\* neither its snapshot nor what orig was before it.
GenAdded ==
    /\ Latest' = Latest + 1 /\ \A g \in 1..Latest : gens'[g] = gens[g]
    /\ gens'[Latest'] = [snap |-> Mountpoint, pre |-> NoFiles, quar |-> NoFiles, manifest |-> None,
                         undone |-> FALSE, before |-> orig, through |-> mounted]
GenChanged ==
    /\ Latest' = Latest /\ Latest # 0 /\ \A g \in 1..Latest : g # Latest => gens'[g] = gens[g]
    /\ gens'[Latest].snap = gens[Latest].snap /\ gens'[Latest].before = gens[Latest].before
    /\ gens'[Latest].through = gens[Latest].through

LEMMA GenSteps ==
    ASSUME BaseInv, NEW p \in Procs, ReconcileSteps(p) \/ UndoSteps(p) \/ Crash(p)
    PROVE  \/ UNCHANGED gens
           \/ GenAdded /\ SnapshotUnderlay(p)
           \/ GenChanged /\ cmd[p].gen = Latest
              /\ \/ StashPreimage(p) \/ QuarantineReuse(p) \/ Relocate(p) \/ WriteManifest(p)
                 \/ Reverse(p) \/ WriteUndone(p)
<1>0. gens \in Seq(Generations) /\ Latest = Len(gens)
  BY DEF BaseInv, TypeInv, Latest
<1>1. CASE SnapshotUnderlay(p)
  <2>1. [snap |-> Mountpoint, pre |-> NoFiles, quar |-> NoFiles, manifest |-> None,
         undone |-> FALSE, before |-> orig, through |-> mounted] \in Generations
    BY NoFilesType DEF BaseInv, TypeInv, Generations, Mountpoint
  <2>. QED
    BY <1>0, <1>1, <2>1, AppendProperties DEF SnapshotUnderlay, GenAdded, Latest
<1>2. CASE StashPreimage(p) \/ QuarantineReuse(p) \/ Relocate(p) \/ WriteManifest(p)
  <2>1. cmd[p].gen = Latest /\ Latest \in 1..Latest /\ gens[Latest] \in Generations
    BY <1>2, RunGen DEF StashPreimage, QuarantineReuse, Relocate, WriteManifest, At, InRun, Running
  <2>2. CASE StashPreimage(p)
    BY <1>0, <2>1, <2>2 DEF StashPreimage, GenChanged, Latest, Generations
  <2>3. CASE QuarantineReuse(p)
    BY <1>0, <2>1, <2>3 DEF QuarantineReuse, GenChanged, Latest, Generations
  <2>4. CASE Relocate(p)
    BY <1>0, <2>1, <2>4 DEF Relocate, GenChanged, Latest, Generations
  <2>5. CASE WriteManifest(p)
    BY <1>0, <2>1, <2>5 DEF WriteManifest, GenChanged, Latest, Generations
  <2>. QED
    BY <1>2, <2>2, <2>3, <2>4, <2>5
<1>3. CASE Reverse(p) \/ WriteUndone(p)
  <2>1. cmd[p].gen = Latest /\ Latest \in 1..Latest /\ gens[Latest] \in Generations
    BY <1>3, RunGen DEF Reverse, WriteUndone, At, InUndo, Undoing
  <2>2. CASE Reverse(p)
    <3>1. CASE UNCHANGED gens
      BY <3>1
    <3>2. CASE ~UNCHANGED gens
      <4>1. PICK f \in cmd[p].todo : gens' = [gens EXCEPT ![cmd[p].gen].quar[f] = None]
        BY <2>2, <3>2 DEF Reverse
      <4>. QED
        BY <1>0, <2>1, <2>2, <4>1 DEF GenChanged, Latest, Generations
    <3>. QED
      BY <3>1, <3>2
  <2>3. CASE WriteUndone(p)
    BY <1>0, <2>1, <2>3 DEF WriteUndone, GenChanged, Latest, Generations
  <2>. QED
    BY <1>3, <2>2, <2>3
<1>4. ASSUME \/ \E k \in Commands : Begin(p, k)
             \/ CheckPreconditions(p) \/ Preview(p) \/ PlanEntries(p) \/ Entry(p) \/ WriteOrig(p)
             \/ FinishDelete(p) \/ RestoreMemory(p) \/ PlaceRead(p) \/ PlaceWrite(p) \/ Prune(p)
      PROVE  UNCHANGED gens
  BY <1>4 DEF Begin, CheckPreconditions, Preview, PlanEntries, Entry, WriteOrig, FinishDelete, RestoreMemory,
              PlaceRead, PlaceWrite, Prune, disk
<1>5. ASSUME \/ UndoCheck(p) \/ AbortIfMounted(p) \/ RestoreUnderlay(p) \/ Crash(p)
             \/ \E from, to \in Pcs, on \in BOOLEAN : SetReconciling(p, from, on, to)
             \/ \E from, to \in Pcs : ReingestOneFile(p, from, to)
      PROVE  UNCHANGED gens
  BY <1>5 DEF UndoCheck, AbortIfMounted, RestoreUnderlay, Crash, SetReconciling, ReingestOneFile, disk
<1>. QED
  BY <1>1, <1>2, <1>3, <1>4, <1>5, Steps

\* The files of a run that are memory, and those the underlay has.
LEMMA OthersKeepHand ==
    ASSUME BaseInv, TypeInv', NEW p \in Procs, NEW q \in Procs, q # p,
           ReconcileSteps(p) \/ UndoSteps(p) \/ Crash(p)
    PROVE  StillThere(q)' /\ PlanFits(q)'
<1>1. UNCHANGED load /\ cmd'[q] = cmd[q]
  BY CmdSteps
<1>2. StillThere(q) /\ PlanFits(q)
  BY DEF BaseInv, HandInv
<1>3. CASE InRun(q) \/ InUndo(q)
  <2>1. UNCHANGED <<load, orig, backing, live, gens, aside>>
    BY <1>3, OutsideSteps
  <2>. QED
    <3>1. Memory' = Memory /\ \A f : \A b, s : Plans(f, b, s)' = Plans(f, b, s)
      BY <1>1 DEF Memory, Of, Plans, ByContent, Sessions, Recommend
    <3>2. Gen(q)' = Gen(q) /\ File(q)' = File(q)
      BY <1>1, <2>1 DEF Gen, File
    <3>3. StillThere(q)'
      BY <1>1, <1>2, <2>1, <3>1, <3>2 DEF StillThere
    <3>4. PlanFits(q)'
      BY <1>1, <1>2, <2>1, <3>1, <3>2 DEF PlanFits, Of
    <3>. QED
      BY <3>3, <3>4
<1>4. CASE ~InRun(q) /\ ~InUndo(q)
  BY <1>1, <1>4 DEF StillThere, PlanFits, InRun, InUndo, InHand, Planned, Placing, Running, Undoing
<1>. QED
  BY <1>3, <1>4

LEMMA HandFacts ==
    ASSUME BaseInv, NEW p \in Procs
    PROVE  /\ cmd \in [Procs -> Cmds] /\ cmd[p] \in Cmds /\ StillThere(p) /\ PlanFits(p)
           /\ orig \in Directory /\ live \in Directory /\ load \in Workloads
           /\ InRun(p) \/ InUndo(p) => /\ Gen(p) = gens[Latest] /\ Gen(p) \in Generations /\ Gen(p).snap \in Directory
                                       /\ cmd[p].gen = Latest /\ Latest \in 1..Latest /\ Latest \in Nat
  BY RunGen DEF BaseInv, TypeInv, HandInv, Generations

\* Plans depends on the kinds of the files only.
LEMMA PlansSame ==
    ASSUME UNCHANGED load
    PROVE  /\ Memory' = Memory /\ Sessions' = Sessions
           /\ \A f : \A b, s : Plans(f, b, s)' = Plans(f, b, s)
  BY DEF Memory, Of, Plans, ByContent, Sessions, Recommend

\* What a run has in hand depends on its command, the snapshot, orig and the underlay.
LEMMA HandBy ==
    ASSUME BaseInv, NEW p \in Procs, UNCHANGED load, Latest' = Latest, cmd'[p].gen = cmd[p].gen,
           Latest # 0 => gens'[Latest].snap = gens[Latest].snap /\ gens'[Latest].through = gens[Latest].through,
           InRun(p) \/ InUndo(p)
    PROVE  Gen(p)'.snap = Gen(p).snap /\ Gen(p)'.through = Gen(p).through
  BY HandFacts DEF Gen

LEMMA StartHand ==
    ASSUME BaseInv, TypeInv', NEW p \in Procs,
           \/ SnapshotUnderlay(p) \/ SetReconciling(p, "mark", TRUE, "plan") \/ PlanEntries(p) \/ Entry(p)
    PROVE  StillThere(p)' /\ PlanFits(p)'
<1>0. /\ cmd \in [Procs -> Cmds] /\ cmd[p] \in Cmds /\ StillThere(p) /\ PlanFits(p) /\ live \in Directory
      /\ InRun(p) => Gen(p).snap \in Directory
  BY HandFacts
<1>1. CASE SnapshotUnderlay(p)
  <2>0. GenAdded \/ UNCHANGED gens
    BY <1>1, GenSteps DEF ReconcileSteps, GenChanged, SnapshotUnderlay, StashPreimage, QuarantineReuse, Relocate,
                          WriteManifest, Reverse, WriteUndone, At
  <2>1. cmd'[p].pc \in {"idle", "mark", "preview"}
    BY <1>0, <1>1 DEF SnapshotUnderlay, Leave, Idle, Cmds
  <2>2. CASE cmd'[p].pc = "mark"
    <3>1. cmd'[p].gen = Latest + 1 /\ LockFree /\ Latest < load.runs /\ Latest \in Nat
      BY <1>0, <1>1, <2>2 DEF SnapshotUnderlay, Leave, Idle, Cmds, BaseInv, TypeInv, Latest
    <3> DEFINE e == [snap |-> Mountpoint, pre |-> NoFiles, quar |-> NoFiles,
                     manifest |-> None, undone |-> FALSE, before |-> orig, through |-> mounted]
    <3>2. gens' = Append(gens, e)
      BY <1>1, <3>1 DEF SnapshotUnderlay
    <3>3. ~Gen(p)'.through => Gen(p)'.snap = live
      <4>1. e \in Generations /\ (~e.through => e.snap = live)
        BY NoFilesType DEF BaseInv, TypeInv, Generations, Mountpoint
      <4>. HIDE DEF e
      <4>. QED
        BY <3>1, <3>2, <4>1, AppendProperties DEF Gen, BaseInv, TypeInv, Latest
    <3>4. live' = live
      BY <1>1 DEF SnapshotUnderlay
    <3>. QED
      BY <2>2, <3>3, <3>4 DEF StillThere, PlanFits, Planned, Running, InHand, Placing, Present
  <2>. QED
    BY <2>1, <2>2 DEF StillThere, PlanFits, Planned, Running, InHand, Placing
<1>2. CASE SetReconciling(p, "mark", TRUE, "plan")
  <2>1. cmd'[p].pc = "plan" /\ cmd'[p].gen = cmd[p].gen /\ live' = live /\ gens' = gens /\ cmd[p].pc = "mark"
    BY <1>0, <1>2 DEF SetReconciling, Goto, At, Cmds
  <2>2. Gen(p)' = Gen(p)
    BY <2>1 DEF Gen
  <2>. QED
    BY <1>0, <2>1, <2>2 DEF StillThere, PlanFits, Planned, Running, InHand, Placing
<1>3. CASE PlanEntries(p)
  <2>1. PICK plan \in [Files -> EntryPlans \cup {None}] :
          /\ \A f \in Files : IF f \in Present(Gen(p).snap)
                                THEN plan[f] \in Plans(f, orig[f], Gen(p).snap[f])
                                ELSE plan[f] = None
          /\ cmd' = [cmd EXCEPT ![p].pc = "entry", ![p].todo = Present(Gen(p).snap), ![p].plan = plan]
    BY <1>3 DEF PlanEntries
  <2>2. /\ cmd'[p].pc = "entry" /\ cmd'[p].todo = Present(Gen(p).snap) /\ cmd'[p].plan = plan
        /\ cmd'[p].gen = cmd[p].gen /\ cmd[p].pc = "plan"
        /\ UNCHANGED <<load, live, gens, orig>>
    BY <1>0, <1>3, <2>1 DEF PlanEntries, Cmds, At, disk
  <2>3. Gen(p)' = Gen(p) /\ InRun(p)
    BY <2>2 DEF Gen, InRun, Running
  <2>4. \A f \in Present(Gen(p).snap) : plan[f] \in Plans(f, orig[f], Gen(p).snap[f])'
    <3>1. \A f \in Files : Plans(f, orig[f], Gen(p).snap[f])' = Plans(f, orig[f], Gen(p).snap[f])
      BY <2>2, <2>3, PlansSame
    <3>. QED
      BY <2>1, <3>1 DEF Present
  <2>5. \A f \in Files : plan[f] = None <=> Gen(p).snap[f] = None
    <3>1. \A f \in Files : None \notin Plans(f, orig[f], Gen(p).snap[f])
      BY NoneAssumption DEF Plans, ByContent, Recommend, EntryPlans
    <3>. QED
      BY <2>1, <3>1 DEF Present
  <2>6. \A f \in Memory' : plan[f] \in {None, "Passthrough", "KeepBoth"}
    <3>1. \A f \in Memory : Plans(f, orig[f], Gen(p).snap[f]) = {"Passthrough"}
      <4>1. \A f \in Memory : f \notin Of("subagent")
        BY DEF Memory, Of
      <4>. QED
        BY <4>1 DEF Plans
    <3>. QED
      BY <2>1, <2>2, <3>1, PlansSame DEF Present, Memory, Of
  <2>7. StillThere(p)'
    BY <1>0, <2>2, <2>3 DEF StillThere, InHand, Placing, Present
  <2>8. PlanFits(p)'
    BY <2>2, <2>3, <2>4, <2>5, <2>6 DEF PlanFits, InHand
  <2>. QED
    BY <2>7, <2>8
<1>4. CASE Entry(p)
  <2>1. PICK f \in cmd[p].todo : \E plan \in EntryPlans : EntryTaken(p, f, plan)
    BY <1>4, EntryParts
  <2>2. PICK plan \in EntryPlans : EntryTaken(p, f, plan)
    BY <2>1
  <2>3. /\ cmd'[p].pc = FirstStep(p, f, plan) /\ cmd'[p].todo = cmd[p].todo \ {f} /\ cmd'[p].file = f
        /\ cmd'[p].plan = [cmd[p].plan EXCEPT ![f] = plan] /\ cmd[p].plan \in [Files -> EntryPlans \cup {None}]
        /\ cmd'[p].gen = cmd[p].gen /\ cmd[p].pc = "entry"
        /\ UNCHANGED <<load, live, gens, orig, backing>>
    BY <1>0, <1>4, <2>2 DEF Entry, EntryTaken, Cmds, At, disk
  <2>4. Gen(p)' = Gen(p) /\ InRun(p) /\ cmd[p].pc \in Planned
    BY <2>3 DEF Gen, InRun, Running, Planned
  <2>5. /\ FirstStep(p, f, plan) \in {"stash", "quarantine", "gate", "reingest"} =>
             f \notin Memory /\ plan = cmd[p].plan[f] /\ plan \in StepPlans[FirstStep(p, f, plan)]
        /\ FirstStep(p, f, plan) \in {"entry", "stash", "quarantine", "memory", "gate", "reingest"}
        /\ f \in Memory => plan \in {"Passthrough", "KeepBoth"}
    <3>1. f \in Memory => cmd[p].plan[f] = "Passthrough"
      BY <2>2 DEF EntryTaken, Plans, Memory, Of
    <3>. QED
      BY <2>2, <3>1 DEF EntryTaken, FirstStep, StartStep, StepPlans, EntryPlans
  <2>6. StillThere(p)'
    <3>1. /\ cmd[p].todo \subseteq Present(Gen(p).snap)
          /\ ~Gen(p).through => cmd[p].todo \ Memory \subseteq Present(live)
      BY <1>0, <2>4 DEF StillThere
    <3>. QED
      BY <1>0, <2>3, <2>4, <2>5, <3>1, PlansSame DEF StillThere, InHand, Placing, File
  <2>7. PlanFits(p)'
    <3>1. /\ \A h \in Files : cmd[p].plan[h] = None <=> Gen(p).snap[h] = None
          /\ \A h \in Memory : cmd[p].plan[h] \in {None, "Passthrough", "KeepBoth"}
          /\ \A h \in cmd[p].todo : cmd[p].plan[h] \in Plans(h, orig[h], Gen(p).snap[h])
      BY <1>0, <2>4 DEF PlanFits
    <3>2. \A h \in cmd'[p].todo : cmd'[p].plan[h] \in Plans(h, orig[h], Gen(p).snap[h])'
      BY <1>0, <2>3, <2>4, <3>1, PlansSame DEF Cmds
    <3>3. /\ \A h \in Files : cmd'[p].plan[h] = None <=> Gen(p)'.snap[h] = None
          /\ \A h \in Memory' : cmd'[p].plan[h] \in {None, "Passthrough", "KeepBoth"}
      <4>1. None \notin EntryPlans /\ cmd[p].plan[f] # None
        BY <2>2, NoneAssumption DEF EntryTaken, Plans, ByContent, Recommend, EntryPlans
      <4>2. Memory \subseteq Files
        BY DEF Memory, Of
      <4>. QED
        BY <2>2, <2>3, <2>4, <2>5, <3>1, <4>1, <4>2, PlansSame DEF EntryTaken
    <3>4. cmd'[p].pc \in {"stash", "merge", "quarantine"} =>
            cmd'[p].plan[f] \in Plans(f, orig[f], Gen(p).snap[f])'
      BY <2>2, <2>3, <2>4, <2>5, <3>1, PlansSame DEF EntryTaken
    <3>5. cmd'[p].pc \in InHand => /\ cmd'[p].plan[f] \in StepPlans[cmd'[p].pc]
                                   /\ f \in load'.large => f \in Of("subagent")'
      <4>1. f \in load.large \ (Of("subagent") \cup Memory) => cmd[p].plan[f] = "KeepBoth"
        BY <2>2 DEF EntryTaken, Plans
      <4>2. "KeepBoth" \notin StepPlans[FirstStep(p, f, plan)] \/ FirstStep(p, f, plan) \in {"entry", "memory"}
        BY <2>5 DEF StepPlans
      <4>. QED
        BY <2>2, <2>3, <2>5, <4>1, <4>2 DEF EntryTaken, InHand, Of
    <3>. QED
      BY <2>3, <3>2, <3>3, <3>4, <3>5 DEF PlanFits, File
  <2>. QED
    BY <2>6, <2>7
<1>. QED
  BY <1>1, <1>2, <1>3, <1>4

\* A step of a run that keeps the plans and the files left.
LEMMA StepHand ==
    ASSUME BaseInv, TypeInv', NEW p \in Procs, cmd[p].pc \in Planned, cmd'[p].pc \in Planned,
           UNCHANGED load, Latest' = Latest, cmd'[p].gen = cmd[p].gen,
           gens'[Latest].snap = gens[Latest].snap, gens'[Latest].through = gens[Latest].through,
           cmd'[p].todo = cmd[p].todo,
           \A f \in cmd[p].todo : orig'[f] = orig[f]
                                  /\ (f \in Present(live) \ Memory => f \in Present(live)'),
           \A f \in Files : cmd'[p].plan[f] = cmd[p].plan[f]
                            \/ /\ f = File(p) /\ File(p) \notin Memory \cup cmd[p].todo
                               /\ cmd'[p].plan[f] # None /\ Gen(p).snap[f] # None
    PROVE  /\ Gen(p)'.snap = Gen(p).snap /\ Gen(p)'.through = Gen(p).through
           /\ cmd'[p].todo \subseteq Present(Gen(p)'.snap)
           /\ ~Gen(p).through => cmd'[p].todo \ Memory' \subseteq Present(live)'
           /\ \A f \in Files : cmd'[p].plan[f] = None <=> Gen(p)'.snap[f] = None
           /\ \A f \in Memory' : cmd'[p].plan[f] \in {None, "Passthrough", "KeepBoth"}
           /\ \A f \in cmd'[p].todo : cmd'[p].plan[f] \in Plans(f, orig[f], Gen(p).snap[f])'
<1>0. /\ cmd[p] \in Cmds /\ StillThere(p) /\ PlanFits(p) /\ InRun(p)
      /\ cmd[p].gen = Latest /\ Latest # 0
  BY HandFacts DEF InRun, Planned
<1>1. Gen(p)'.snap = Gen(p).snap /\ Gen(p)'.through = Gen(p).through
  BY <1>0 DEF Gen
<1>2. /\ \A f \in Files : cmd[p].plan[f] = None <=> Gen(p).snap[f] = None
      /\ \A f \in Memory : cmd[p].plan[f] \in {None, "Passthrough", "KeepBoth"}
      /\ \A f \in cmd[p].todo : cmd[p].plan[f] \in Plans(f, orig[f], Gen(p).snap[f])
      /\ cmd[p].todo \subseteq Present(Gen(p).snap)
      /\ ~Gen(p).through => cmd[p].todo \ Memory \subseteq Present(live)
  BY <1>0 DEF PlanFits, StillThere
<1>3. cmd[p].todo \subseteq Files /\ Memory \subseteq Files
  BY <1>0 DEF Cmds, Memory, Of
<1>4. \A f \in cmd[p].todo : cmd'[p].plan[f] \in Plans(f, orig[f], Gen(p).snap[f])'
  <2>. TAKE f \in cmd[p].todo
  <2>1. cmd'[p].plan[f] = cmd[p].plan[f] /\ orig'[f] = orig[f]
    BY <1>3
  <2>2. Plans(f, orig[f], Gen(p).snap[f])' = Plans(f, orig[f], Gen(p).snap[f])
    BY <1>1, <2>1, PlansSame
  <2>. QED
    BY <1>2, <2>1, <2>2
<1>5. ~Gen(p).through => cmd'[p].todo \ Memory' \subseteq Present(live)'
  BY <1>2, <1>3, PlansSame
<1>6. \A f \in Memory' : cmd'[p].plan[f] \in {None, "Passthrough", "KeepBoth"}
  BY <1>2, <1>3, PlansSame
<1>7. \A f \in Files : cmd'[p].plan[f] = None <=> Gen(p)'.snap[f] = None
  BY <1>1, <1>2
<1>. QED
  BY <1>1, <1>2, <1>4, <1>5, <1>6, <1>7

\* A step that changes the generation leaves its snapshot.
LEMMA SnapKept ==
    ASSUME BaseInv, NEW p \in Procs, InRun(p) \/ InUndo(p), ReconcileSteps(p) \/ UndoSteps(p)
    PROVE  /\ Latest' = Latest /\ gens'[Latest].snap = gens[Latest].snap
           /\ gens'[Latest].before = gens[Latest].before /\ gens'[Latest].through = gens[Latest].through
<1>1. ~SnapshotUnderlay(p)
  BY DEF InRun, InUndo, Running, Undoing, SnapshotUnderlay, At
<1>. QED
  BY <1>1, GenSteps DEF GenChanged, Latest

\* A file in hand takes its next step, and stays in the underlay.
HandMoves(p) ==
    /\ UNCHANGED <<load, live>> /\ cmd'[p].gen = cmd[p].gen /\ cmd'[p].todo = cmd[p].todo
    /\ File(p)' = File(p)
    /\ \A f \in Files \ {File(p)} : orig'[f] = orig[f]
    /\ cmd[p].pc # "merge" => orig' = orig
    /\ \/ /\ cmd[p].pc = "stash" /\ cmd'[p].pc = "entry"
          /\ cmd'[p].plan = [cmd[p].plan EXCEPT ![File(p)] = "KeepBoth"]
       \/ /\ cmd'[p].plan = cmd[p].plan
          /\ <<cmd[p].pc, cmd'[p].pc>> \in
                {<<"stash", "merge">>, <<"merge", "reingest">>, <<"reingest", "gate">>,
                 <<"quarantine", "gate">>, <<"gate", "unlink">>, <<"gate", "entry">>}

LEMMA MergeHand ==
    ASSUME BaseInv, TypeInv', NEW p \in Procs,
           \/ StashPreimage(p) \/ WriteOrig(p) \/ ReingestOneFile(p, "reingest", "gate")
           \/ QuarantineReuse(p) \/ FinishDelete(p)
    PROVE  StillThere(p)' /\ PlanFits(p)'
<1>0. /\ cmd \in [Procs -> Cmds] /\ cmd[p] \in Cmds /\ StillThere(p) /\ PlanFits(p) /\ live \in Directory
      /\ orig \in Directory
  BY HandFacts
<1>1. cmd[p].pc \in InHand /\ cmd[p].pc \in Planned /\ InRun(p)
  BY DEF StashPreimage, WriteOrig, ReingestOneFile, QuarantineReuse, FinishDelete, At, InHand, Planned, Running, InRun
<1>2. Latest' = Latest /\ gens'[Latest].snap = gens[Latest].snap /\ gens'[Latest].through = gens[Latest].through
  BY <1>1, SnapKept DEF ReconcileSteps
<1>3. /\ File(p) \in Present(Gen(p).snap) \ (Memory \cup cmd[p].todo)
      /\ ~Gen(p).through => File(p) \in Present(live)
      /\ cmd[p].plan[File(p)] \in StepPlans[cmd[p].pc]
      /\ File(p) \in load.large => File(p) \in Of("subagent")
  BY <1>0, <1>1 DEF StillThere, PlanFits
<1>4. File(p) \in Files /\ File(p) # None /\ None \notin EntryPlans /\ "KeepBoth" \in EntryPlans
  BY <1>3, NoneAssumption DEF Present, EntryPlans
<1>5. CASE StashPreimage(p) \/ WriteOrig(p) \/ (ReingestOneFile(p, "reingest", "gate") /\ ~mounted)
           \/ QuarantineReuse(p) \/ (FinishDelete(p) /\ At(p, "gate"))
  <2>1. HandMoves(p)
    <3>1. CASE StashPreimage(p)
      BY <1>0, <3>1 DEF StashPreimage, Goto, At, Cmds, File, HandMoves
    <3>2. CASE WriteOrig(p)
      BY <1>0, <1>4, <3>2 DEF WriteOrig, Goto, At, Cmds, File, Directory, HandMoves
    <3>3. CASE ReingestOneFile(p, "reingest", "gate") /\ ~mounted
      BY <1>0, <3>3 DEF ReingestOneFile, Goto, At, Cmds, File, HandMoves
    <3>4. CASE QuarantineReuse(p)
      BY <1>0, <3>4 DEF QuarantineReuse, Goto, At, Cmds, File, HandMoves
    <3>5. CASE FinishDelete(p) /\ At(p, "gate")
      BY <1>0, <3>5 DEF FinishDelete, Goto, Cmds, File, At, HandMoves
    <3>. QED
      BY <1>5, <3>1, <3>2, <3>3, <3>4, <3>5
  <2>2. cmd'[p].pc \in Planned
    BY <2>1 DEF Planned, Running, HandMoves
  <2>3. cmd[p].todo \subseteq Files /\ cmd[p].plan \in [Files -> EntryPlans \cup {None}]
    BY <1>0 DEF Cmds
  <2>4. /\ Gen(p)'.snap = Gen(p).snap /\ Gen(p)'.through = Gen(p).through
        /\ cmd'[p].todo \subseteq Present(Gen(p)'.snap)
        /\ ~Gen(p).through => cmd'[p].todo \ Memory' \subseteq Present(live)'
        /\ \A f \in Files : cmd'[p].plan[f] = None <=> Gen(p)'.snap[f] = None
        /\ \A f \in Memory' : cmd'[p].plan[f] \in {None, "Passthrough", "KeepBoth"}
        /\ \A f \in cmd'[p].todo : cmd'[p].plan[f] \in Plans(f, orig[f], Gen(p).snap[f])'
    <3>1. \A f \in cmd[p].todo : orig'[f] = orig[f] /\ (f \in Present(live) \ Memory => f \in Present(live)')
      BY <1>3, <2>1, <2>3 DEF Present, HandMoves
    <3>2. \A f \in Files : cmd'[p].plan[f] = cmd[p].plan[f]
                            \/ /\ f = File(p) /\ File(p) \notin Memory \cup cmd[p].todo
                               /\ cmd'[p].plan[f] # None /\ Gen(p).snap[f] # None
      BY <1>3, <1>4, <2>1, <2>3 DEF Present, HandMoves
    <3>3. UNCHANGED load /\ cmd'[p].gen = cmd[p].gen /\ cmd'[p].todo = cmd[p].todo
      BY <2>1 DEF HandMoves
    <3>. QED
      BY <1>1, <1>2, <2>2, <3>1, <3>2, <3>3, StepHand
  <2>5. StillThere(p)'
    BY <1>3, <1>4, <2>1, <2>2, <2>4, PlansSame DEF StillThere, Placing, Present, InHand, HandMoves
  <2>6. cmd'[p].pc \in InHand => /\ cmd'[p].plan[File(p)'] \in StepPlans[cmd'[p].pc]
                                 /\ File(p)' \in load'.large => File(p)' \in Of("subagent")'
    BY <1>3, <2>1 DEF HandMoves, StepPlans, InHand, Of
  <2>7. cmd'[p].pc \in {"stash", "merge", "quarantine"} =>
          cmd'[p].plan[File(p)'] \in Plans(File(p), orig[File(p)], Gen(p).snap[File(p)])'
    <3>1. SUFFICES ASSUME cmd'[p].pc \in {"stash", "merge", "quarantine"}
                   PROVE  cmd'[p].plan[File(p)'] \in Plans(File(p), orig[File(p)], Gen(p).snap[File(p)])'
      OBVIOUS
    <3>2. cmd'[p].plan = cmd[p].plan /\ orig' = orig /\ cmd[p].pc = "stash"
      BY <2>1, <3>1 DEF HandMoves
    <3>3. cmd[p].plan[File(p)] \in Plans(File(p), orig[File(p)], Gen(p).snap[File(p)])
      BY <1>0, <3>2 DEF PlanFits
    <3>4. Plans(File(p), orig[File(p)], Gen(p).snap[File(p)])' = Plans(File(p), orig[File(p)], Gen(p).snap[File(p)])
      BY <2>1, <2>4, <3>2, PlansSame DEF HandMoves
    <3>. QED
      BY <2>1, <3>2, <3>3, <3>4 DEF HandMoves
  <2>8. PlanFits(p)'
    BY <2>4, <2>6, <2>7 DEF PlanFits
  <2>. QED
    BY <2>5, <2>8
<1>6. CASE FinishDelete(p) /\ ~At(p, "gate")
  <2>1. /\ cmd'[p].pc = "entry" /\ UNCHANGED <<load, orig>> /\ cmd'[p].gen = cmd[p].gen /\ cmd'[p].todo = cmd[p].todo
        /\ cmd'[p].plan = cmd[p].plan /\ live' \in {live, [live EXCEPT ![File(p)] = None]}
    BY <1>0, <1>6 DEF FinishDelete, Goto, Cmds, At
  <2>2. \A f \in cmd[p].todo : orig'[f] = orig[f] /\ (f \in Present(live) \ Memory => f \in Present(live)')
    BY <1>0, <1>3, <2>1 DEF Present, Directory
  <2>3. cmd'[p].pc \in Planned
    BY <2>1 DEF Planned, Running
  <2>4. /\ Gen(p)'.snap = Gen(p).snap /\ Gen(p)'.through = Gen(p).through
        /\ cmd'[p].todo \subseteq Present(Gen(p)'.snap)
        /\ ~Gen(p).through => cmd'[p].todo \ Memory' \subseteq Present(live)'
        /\ \A f \in Files : cmd'[p].plan[f] = None <=> Gen(p)'.snap[f] = None
        /\ \A f \in Memory' : cmd'[p].plan[f] \in {None, "Passthrough", "KeepBoth"}
        /\ \A f \in cmd'[p].todo : cmd'[p].plan[f] \in Plans(f, orig[f], Gen(p).snap[f])'
    <3>1. \A f \in Files : cmd'[p].plan[f] = cmd[p].plan[f]
      BY <2>1
    <3>. QED
      BY <1>1, <1>2, <2>1, <2>2, <2>3, <3>1, StepHand
  <2>. QED
    BY <2>1, <2>4 DEF StillThere, PlanFits, InHand, Placing
<1>7. CASE ReingestOneFile(p, "reingest", "gate") /\ mounted
  <2>1. cmd'[p] = Idle
    BY <1>0, <1>7 DEF ReingestOneFile, CutShort, Leave
  <2>. QED
    BY <2>1 DEF Idle, StillThere, PlanFits, Planned, InHand, Placing, Running
<1>. QED
  BY <1>5, <1>6, <1>7

\* What is read of a memory file and of the target says where it goes.
PlaceTaken(p, f) ==
    /\ f \in Files \cap Memory /\ live[f] # None /\ cmd[p].pc = "place"
    /\ UNCHANGED <<load, orig, backing, live, gens, marker, hollow, target, beside, mounted, lock>>
    /\ cmd'[p].file = f /\ cmd'[p].text = live[f] /\ cmd'[p].plan = cmd[p].plan
    /\ cmd'[p].gen = cmd[p].gen /\ cmd'[p].todo = cmd[p].todo
    /\ \/ target[f] = None /\ cmd'[p].pc = "put" /\ cmd'[p].left = cmd[p].left
       \/ target[f] = live[f] /\ cmd'[p].pc = "place" /\ cmd'[p].left = cmd[p].left \ {f}
       \/ target[f] \notin {None, live[f]} /\ cmd'[p].pc = "putbeside" /\ cmd'[p].left = cmd[p].left

LEMMA PlaceParts ==
    ASSUME BaseInv, NEW p \in Procs, PlaceRead(p)
    PROVE  \E f \in cmd[p].left : PlaceTaken(p, f)
<1>0. /\ cmd \in [Procs -> Cmds] /\ cmd[p] \in Cmds /\ StillThere(p)
  BY HandFacts
<1>1. PICK f \in cmd[p].left : cmd' = [cmd EXCEPT ![p].file = f, ![p].text = live[f],
                    ![p].pc = CASE target[f] = None    -> "put"
                                [] target[f] = live[f] -> "place"
                                [] OTHER               -> "putbeside",
                    ![p].left = IF target[f] = live[f] THEN @ \ {f} ELSE @]
  BY DEF PlaceRead
<1>2. live[f] # None /\ f \in Files \cap Memory
  BY <1>0 DEF PlaceRead, At, StillThere, Placing, Present
<1>3. /\ cmd[p].pc = "place" /\ cmd'[p].file = f /\ cmd'[p].text = live[f] /\ cmd'[p].plan = cmd[p].plan
      /\ cmd'[p].gen = cmd[p].gen /\ cmd'[p].todo = cmd[p].todo
  BY <1>0, <1>1 DEF Cmds, PlaceRead, At
<1>4. \/ target[f] = None /\ cmd'[p].pc = "put" /\ cmd'[p].left = cmd[p].left
      \/ target[f] = live[f] /\ cmd'[p].pc = "place" /\ cmd'[p].left = cmd[p].left \ {f}
      \/ target[f] \notin {None, live[f]} /\ cmd'[p].pc = "putbeside" /\ cmd'[p].left = cmd[p].left
  <2>1. CASE target[f] = live[f]
    BY <1>0, <1>1, <1>2, <2>1 DEF Cmds
  <2>2. CASE target[f] # live[f]
    BY <1>0, <1>1, <2>2 DEF Cmds
  <2>. QED
    BY <2>1, <2>2
<1>. QED
  BY <1>2, <1>3, <1>4 DEF PlaceTaken, PlaceRead, disk, aside

LEMMA MemoryHand ==
    ASSUME BaseInv, TypeInv', NEW p \in Procs,
           RestoreMemory(p) \/ PlaceRead(p) \/ PlaceWrite(p) \/ Relocate(p) \/ Prune(p) \/ WriteManifest(p)
    PROVE  StillThere(p)' /\ PlanFits(p)'
<1>0. /\ cmd \in [Procs -> Cmds] /\ cmd[p] \in Cmds /\ StillThere(p) /\ PlanFits(p) /\ live \in Directory
  BY HandFacts
<1>1. cmd[p].pc \in {"memory", "place", "put", "putbeside", "entry", "manifest"}
  BY DEF RestoreMemory, PlaceRead, PlaceWrite, Relocate, Prune, WriteManifest, At
<1>2. /\ Latest' = Latest /\ gens'[Latest].snap = gens[Latest].snap /\ cmd[p].pc \in Planned
      /\ gens'[Latest].through = gens[Latest].through
  BY <1>1, SnapKept DEF ReconcileSteps, InRun, Running, Planned
<1>3. /\ UNCHANGED <<load, orig>> /\ cmd'[p].gen = cmd[p].gen /\ cmd'[p].todo = cmd[p].todo
      /\ cmd'[p].plan = cmd[p].plan
      /\ cmd'[p].pc \in {"place", "put", "putbeside", "entry", "manifest", "clear"}
      /\ \A f \in Files \ Memory : live'[f] = live[f]
      /\ cmd'[p].pc \in Placing => live' = live
  <2>1. CASE RestoreMemory(p) \/ PlaceWrite(p)
    BY <1>0, <2>1 DEF RestoreMemory, PlaceWrite, Goto, Cmds, disk, Placing
  <2>2. CASE PlaceRead(p)
    BY <2>2, PlaceParts DEF PlaceTaken, Placing
  <2>3. CASE Relocate(p)
    BY <1>0, <2>3 DEF Relocate, Goto, Cmds, Placing
  <2>4. CASE Prune(p) \/ WriteManifest(p)
    BY <1>0, <2>4 DEF Prune, WriteManifest, Goto, Cmds, Placing
  <2>. QED
    BY <2>1, <2>2, <2>3, <2>4
<1>4. cmd'[p].pc \in Planned /\ cmd'[p].pc \notin InHand
  BY <1>3 DEF Planned, Running, InHand
<1>5. /\ Gen(p)'.snap = Gen(p).snap /\ Gen(p)'.through = Gen(p).through
      /\ cmd'[p].todo \subseteq Present(Gen(p)'.snap)
      /\ ~Gen(p).through => cmd'[p].todo \ Memory' \subseteq Present(live)'
      /\ \A f \in Files : cmd'[p].plan[f] = None <=> Gen(p)'.snap[f] = None
      /\ \A f \in Memory' : cmd'[p].plan[f] \in {None, "Passthrough", "KeepBoth"}
      /\ \A f \in cmd'[p].todo : cmd'[p].plan[f] \in Plans(f, orig[f], Gen(p).snap[f])'
  <2>1. cmd[p].todo \subseteq Files
    BY <1>0 DEF Cmds
  <2>2. \A f \in cmd[p].todo : orig'[f] = orig[f] /\ (f \in Present(live) \ Memory => f \in Present(live)')
    BY <1>3, <2>1 DEF Present
  <2>3. \A f \in Files : cmd'[p].plan[f] = cmd[p].plan[f]
    BY <1>3
  <2>. QED
    BY <1>2, <1>3, <1>4, <2>2, <2>3, StepHand
<1>6. cmd'[p].pc \in Placing => cmd'[p].left \subseteq Present(live)' \cap Memory'
                                /\ Present(live)' \cap Memory' # {}
  <2>1. CASE RestoreMemory(p)
    BY <1>0, <1>3, <2>1, PlansSame DEF RestoreMemory, Goto, Cmds, Placing
  <2>2. CASE PlaceRead(p)
    <3>1. PICK f \in cmd[p].left : PlaceTaken(p, f)
      BY <2>2, PlaceParts
    <3>. QED
      BY <1>0, <1>3, <3>1, PlansSame DEF PlaceTaken, Placing, StillThere
  <2>3. CASE PlaceWrite(p)
    BY <1>0, <1>3, <2>3, PlansSame DEF PlaceWrite, Cmds, At, Placing, StillThere
  <2>4. CASE Relocate(p) \/ Prune(p) \/ WriteManifest(p)
    BY <1>0, <2>4 DEF Relocate, Prune, WriteManifest, Goto, Cmds, Placing
  <2>. QED
    BY <2>1, <2>2, <2>3, <2>4
<1>7. cmd'[p].pc \in {"put", "putbeside"} => File(p)' \in cmd'[p].left
  <2>1. CASE PlaceRead(p)
    <3>1. PICK f \in cmd[p].left : PlaceTaken(p, f)
      BY <2>1, PlaceParts
    <3>. QED
      BY <3>1 DEF PlaceTaken, File
  <2>2. CASE RestoreMemory(p) \/ PlaceWrite(p)
    BY <1>0, <2>2 DEF RestoreMemory, PlaceWrite, Goto, Cmds
  <2>3. CASE Relocate(p) \/ Prune(p) \/ WriteManifest(p)
    BY <1>0, <2>3 DEF Relocate, Prune, WriteManifest, Goto, Cmds
  <2>. QED
    BY <2>1, <2>2, <2>3
<1>8. StillThere(p)'
  BY <1>3, <1>4, <1>5, <1>6, <1>7 DEF StillThere
<1>9. PlanFits(p)'
  BY <1>3, <1>4, <1>5 DEF PlanFits
<1>. QED
  BY <1>8, <1>9

\* No other step has a file in hand at its end.
LEMMA RestHand ==
    ASSUME BaseInv, TypeInv', NEW p \in Procs,
           \/ \E k \in Commands : Begin(p, k)
           \/ CheckPreconditions(p) \/ Preview(p) \/ SetReconciling(p, "clear", FALSE, "idle") \/ Crash(p)
           \/ UndoSteps(p)
    PROVE  StillThere(p)' /\ PlanFits(p)'
<1>0. /\ cmd \in [Procs -> Cmds] /\ cmd[p] \in Cmds
  BY HandFacts
<1>1. CASE UndoSteps(p)
  <2>1. CASE Reverse(p)
    <3>1. InUndo(p)
      BY <2>1 DEF Reverse, At, InUndo, Undoing
    <3>2. PICK f \in cmd[p].todo :
              cmd' = [cmd EXCEPT ![p].todo = @ \ {f}, ![p].file = f,
                        ![p].pc = IF Gen(p).manifest[f] \in {"RestoreOrig", "RemoveOrig"} THEN "rebuild" ELSE "reverse"]
      BY <2>1 DEF Reverse
    <3>3. f \in Files /\ (f \in Memory => Gen(p).manifest[f] \notin {"RestoreOrig", "RemoveOrig"})
      <4>1. MemoryKept /\ gens \in Seq(Generations) /\ Gen(p) = gens[Latest] /\ Latest \in 1..Latest /\ cmd[p].todo \subseteq Files
        BY <1>0, <3>1, HandFacts DEF Cmds, BaseInv, HandInv, TypeInv
      <4>2. Latest \in DOMAIN gens /\ Gen(p).manifest # None
        BY <3>1, <4>1 DEF MemoryKept, Latest
      <4>. QED
        BY <4>1, <4>2 DEF MemoryKept
    <3>4. cmd'[p].pc \in {"rebuild", "reverse"} /\ (cmd'[p].pc = "rebuild" => File(p)' \in Files \ Memory)
      BY <1>0, <3>2, <3>3 DEF Cmds, File
    <3>5. UNCHANGED load
      BY <2>1 DEF Reverse
    <3>. QED
      BY <3>4, <3>5, PlansSame DEF StillThere, PlanFits, Planned, InHand, Placing, Running
  <2>2. CASE UndoCheck(p) \/ AbortIfMounted(p) \/ WriteUndone(p)
    BY <1>0, <2>2 DEF UndoCheck, AbortIfMounted, WriteUndone, Leave, Idle, Cmds, StillThere, PlanFits, Planned, InHand, Placing, Running
  <2>3. CASE RestoreUnderlay(p) \/ ReingestOneFile(p, "rebuild", "reverse")
    BY <1>0, <2>3 DEF RestoreUnderlay, ReingestOneFile, CutShort, Leave, Idle, Goto, Cmds, StillThere, PlanFits,
                      Planned, InHand, Placing, Running
  <2>4. CASE SetReconciling(p, "set", TRUE, "recheck") \/ SetReconciling(p, "unset", FALSE, "done")
    BY <1>0, <2>4 DEF SetReconciling, Goto, Cmds, StillThere, PlanFits, Planned, InHand, Placing, Running
  <2>5. CASE Begin(p, "undo")
    BY <1>0, <2>5 DEF Begin, Cmds, StillThere, PlanFits, Planned, InHand, Placing, Running
  <2>. QED
    BY <1>1, <2>1, <2>2, <2>3, <2>4, <2>5 DEF UndoSteps
<1>2. CASE \E k \in Commands : Begin(p, k)
  <2>1. cmd'[p].pc = "check"
    <3>1. PICK k \in Commands : cmd' = [cmd EXCEPT ![p].kind = k, ![p].pc = "check"]
      BY <1>2 DEF Begin
    <3>. QED
      BY <1>0, <3>1 DEF Cmds
  <2>. QED
    BY <2>1 DEF StillThere, PlanFits, Planned, InHand, Placing, Running
<1>3. CASE CheckPreconditions(p)
  BY <1>0, <1>3 DEF CheckPreconditions, Leave, Goto, Idle, Cmds, StillThere, PlanFits, Planned, InHand, Placing, Running
<1>4. CASE Preview(p) \/ SetReconciling(p, "clear", FALSE, "idle") \/ Crash(p)
  BY <1>0, <1>4 DEF Preview, SetReconciling, Crash, CutShort, Leave, Idle, Cmds, StillThere, PlanFits, Planned,
                    InHand, Placing, Running
<1>. QED
  BY <1>1, <1>2, <1>3, <1>4

\* Memory is never in orig, nor in the backing.
LEMMA MemoryStaysOut ==
    ASSUME BaseInv, TypeInv', NEW p \in Procs, ReconcileSteps(p) \/ UndoSteps(p) \/ Crash(p)
    PROVE  MemoryKept'
<1>0. /\ UNCHANGED load /\ Memory' = Memory /\ Memory \subseteq Files /\ Latest \in Nat
      /\ orig \in Directory /\ backing \in Directory /\ gens \in Seq(Generations) /\ gens' \in Seq(Generations)
      /\ MemoryKept /\ Latest = Len(gens) /\ DOMAIN gens = 1..Latest /\ DOMAIN gens' = 1..Latest'
  BY CmdSteps, PlansSame DEF BaseInv, TypeInv, HandInv, Memory, Of, Latest
<1>1. \A f \in Memory : orig'[f] = None
  <2>1. CASE UNCHANGED orig
    BY <1>0, <2>1 DEF MemoryKept
  <2>2. CASE WriteOrig(p)
    <3>1. File(p) \in Files \ Memory
      BY <2>2, HandFacts DEF WriteOrig, At, StillThere, InHand, Present
    <3>. QED
      BY <1>0, <2>2, <3>1 DEF WriteOrig, MemoryKept, Directory
  <2>3. CASE Reverse(p)
    <3>1. InUndo(p)
      BY <2>3 DEF Reverse, At, InUndo, Undoing
    <3>2. PICK f \in cmd[p].todo :
            orig' = CASE Gen(p).manifest[f] = "RestoreOrig" -> [orig EXCEPT ![f] = Gen(p).pre[f]]
                      [] Gen(p).manifest[f] = "RemoveOrig"  -> [orig EXCEPT ![f] = None]
                      [] OTHER                              -> orig
      BY <2>3 DEF Reverse
    <3>3. f \in Files /\ (f \in Memory => Gen(p).manifest[f] \notin {"RestoreOrig", "RemoveOrig"})
      BY <1>0, <3>1, HandFacts DEF Cmds, MemoryKept
    <3>. QED
      BY <1>0, <3>2, <3>3 DEF MemoryKept, Directory
  <2>4. UNCHANGED orig \/ WriteOrig(p) \/ Reverse(p)
    <3>1. ASSUME \/ \E k \in Commands : Begin(p, k)
                 \/ CheckPreconditions(p) \/ SnapshotUnderlay(p) \/ Preview(p) \/ PlanEntries(p) \/ Entry(p)
                 \/ StashPreimage(p) \/ QuarantineReuse(p) \/ FinishDelete(p) \/ RestoreMemory(p) \/ PlaceRead(p)
                 \/ PlaceWrite(p) \/ Relocate(p) \/ Prune(p) \/ WriteManifest(p)
          PROVE  UNCHANGED orig
      BY <3>1 DEF Begin, CheckPreconditions, SnapshotUnderlay, Preview, PlanEntries, Entry, StashPreimage,
                  QuarantineReuse, FinishDelete, RestoreMemory, PlaceRead, PlaceWrite, Relocate, Prune, WriteManifest, disk
    <3>2. ASSUME \/ UndoCheck(p) \/ AbortIfMounted(p) \/ RestoreUnderlay(p) \/ WriteUndone(p) \/ Crash(p)
                 \/ \E from, to \in Pcs, on \in BOOLEAN : SetReconciling(p, from, on, to)
                 \/ \E from, to \in Pcs : ReingestOneFile(p, from, to)
          PROVE  UNCHANGED orig
      BY <3>2 DEF UndoCheck, AbortIfMounted, RestoreUnderlay, WriteUndone, Crash, SetReconciling, ReingestOneFile, disk
    <3>. QED
      BY <3>1, <3>2, Steps
  <2>. QED
    BY <2>1, <2>2, <2>3, <2>4
<1>2. \A f \in Memory : backing'[f] = None
  <2>1. CASE UNCHANGED backing
    BY <1>0, <2>1 DEF MemoryKept
  <2>2. ASSUME NEW from \in {"reingest", "rebuild"}, NEW to, ReingestOneFile(p, from, to)
        PROVE  \A f \in Memory : backing'[f] = None
    BY <1>0, <2>2 DEF ReingestOneFile, MemoryKept, Directory
  <2>4. CASE FinishDelete(p)
    BY <1>0, <2>4 DEF FinishDelete, MemoryKept, Directory
  <2>5. CASE RestoreUnderlay(p)
    <3>1. UNCHANGED backing \/ \A f \in Files : f \in Memory => backing'[f] = backing[f]
      BY <2>5 DEF RestoreUnderlay
    <3>. QED
      BY <1>0, <3>1 DEF MemoryKept
  <2>3. \/ UNCHANGED backing \/ ReingestOneFile(p, "reingest", "gate") \/ ReingestOneFile(p, "rebuild", "reverse")
        \/ FinishDelete(p) \/ RestoreUnderlay(p)
    <3>1. ASSUME \/ \E k \in Commands : Begin(p, k)
                 \/ CheckPreconditions(p) \/ SnapshotUnderlay(p) \/ Preview(p) \/ PlanEntries(p) \/ Entry(p)
                 \/ StashPreimage(p) \/ WriteOrig(p) \/ QuarantineReuse(p) \/ RestoreMemory(p)
                 \/ PlaceRead(p) \/ PlaceWrite(p) \/ Relocate(p) \/ Prune(p) \/ WriteManifest(p)
          PROVE  UNCHANGED backing
      BY <3>1 DEF Begin, CheckPreconditions, SnapshotUnderlay, Preview, PlanEntries, Entry, StashPreimage, WriteOrig,
                  QuarantineReuse, RestoreMemory, PlaceRead, PlaceWrite, Relocate, Prune, WriteManifest, disk
    <3>2. ASSUME \/ UndoCheck(p) \/ AbortIfMounted(p) \/ Reverse(p) \/ WriteUndone(p) \/ Crash(p)
                 \/ \E from, to \in Pcs, on \in BOOLEAN : SetReconciling(p, from, on, to)
          PROVE  UNCHANGED backing
      BY <3>2 DEF UndoCheck, AbortIfMounted, Reverse, WriteUndone, Crash, SetReconciling, disk
    <3>. QED
      BY <3>1, <3>2, PcValues DEF ReconcileSteps, UndoSteps, Commands
  <2>. QED
    BY <2>1, <2>2, <2>3, <2>4, <2>5
<1>3. \A g \in 1..Latest' :
          /\ gens'[g].manifest # None => \A f \in Memory : gens'[g].manifest[f] \notin {"RestoreOrig", "RemoveOrig"}
          /\ gens'[g].undone => gens'[g].manifest # None
  <2>. TAKE g \in 1..Latest'
  <2> DEFINE Fine(e) == /\ e.manifest # None => \A f \in Memory : e.manifest[f] \notin {"RestoreOrig", "RemoveOrig"}
                        /\ e.undone => e.manifest # None
  <2>1. \A h \in 1..Latest : Fine(gens[h])
    BY <1>0 DEF MemoryKept
  <2>2. CASE UNCHANGED gens
    BY <1>0, <2>1, <2>2
  <2>3. CASE GenAdded
    BY <1>0, <2>1, <2>3 DEF GenAdded
  <2>4. CASE GenChanged /\ g # Latest
    BY <1>0, <2>1, <2>4 DEF GenChanged
  <2>5. CASE /\ GenChanged /\ g = Latest /\ cmd[p].gen = Latest
             /\ \/ StashPreimage(p) \/ QuarantineReuse(p) \/ Relocate(p) \/ WriteManifest(p)
                \/ Reverse(p) \/ WriteUndone(p)
    <3>0. gens[Latest] \in Generations /\ Latest \in 1..Latest /\ Latest # 0
      BY <1>0, <2>5 DEF GenChanged
    <3>1. CASE StashPreimage(p) \/ QuarantineReuse(p) \/ Relocate(p) \/ Reverse(p)
      <4>0. Latest \in DOMAIN gens
        BY <1>0, <3>0
      <4>1. gens'[Latest].manifest = gens[Latest].manifest /\ gens'[Latest].undone = gens[Latest].undone
        <5>1. CASE StashPreimage(p)
          <6>1. UNCHANGED gens \/ gens' = [gens EXCEPT ![cmd[p].gen].pre[File(p)] = orig[File(p)]]
            BY <5>1 DEF StashPreimage
          <6>. QED
            BY <2>5, <3>0, <4>0, <6>1 DEF Generations
        <5>2. CASE QuarantineReuse(p)
          <6>1. gens' = [gens EXCEPT ![cmd[p].gen].quar[File(p)] = Bytes(p)]
            BY <5>2 DEF QuarantineReuse
          <6>. QED
            BY <2>5, <3>0, <4>0, <6>1 DEF Generations
        <5>3. CASE Relocate(p)
          <6>1. gens' = [gens EXCEPT ![cmd[p].gen].quar =
                            [f \in Files |-> IF f \in Memory THEN live[f] ELSE @[f]]]
            BY <5>3 DEF Relocate
          <6>. QED
            BY <2>5, <3>0, <4>0, <6>1 DEF Generations
        <5>4. CASE Reverse(p)
          <6>1. PICK f \in cmd[p].todo : UNCHANGED gens \/ gens' = [gens EXCEPT ![cmd[p].gen].quar[f] = None]
            BY <5>4 DEF Reverse
          <6>. QED
            BY <2>5, <3>0, <4>0, <6>1 DEF Generations
        <5>. QED
          BY <3>1, <5>1, <5>2, <5>3, <5>4
      <4>. QED
        BY <2>1, <2>5, <3>0, <4>1
    <3>2. CASE WriteManifest(p)
      <4> DEFINE m == [f \in Files |-> IF cmd[p].plan[f] = None THEN "Noop" ELSE Reversal(p, f)]
      <4>1. gens' = gens \/ (gens'[Latest].manifest = m /\ gens'[Latest].undone = gens[Latest].undone)
        BY <1>0, <2>5, <3>0, <3>2 DEF WriteManifest, Generations
      <4>2. \A f \in Memory : m[f] \notin {"RestoreOrig", "RemoveOrig"}
        <5>1. \A f \in Memory : cmd[p].plan[f] \in {None, "Passthrough", "KeepBoth"}
          BY <3>2, HandFacts DEF WriteManifest, At, PlanFits, Planned, Running
        <5>. QED
          BY <1>0, <5>1 DEF Reversal
      <4>3. None \notin [Files -> Reversals] /\ m \in [Files -> Reversals]
        BY NoneAssumption DEF Reversal, ReversalForPreimage, Reversals
      <4>. QED
        BY <2>1, <2>5, <3>0, <4>1, <4>2, <4>3
    <3>3. CASE WriteUndone(p)
      <4>1. InUndo(p)
        BY <3>3 DEF WriteUndone, At, InUndo, Undoing
      <4>2. gens[Latest].manifest # None
        BY <1>0, <4>1, HandFacts DEF MemoryKept
      <4>3. gens'[Latest].manifest = gens[Latest].manifest
        BY <1>0, <2>5, <3>0, <3>3 DEF WriteUndone, Generations
      <4>. QED
        BY <2>1, <2>5, <3>0, <4>2, <4>3
    <3>. QED
      BY <2>5, <3>1, <3>2, <3>3
  <2>6. \/ GenAdded \/ UNCHANGED gens
        \/ /\ GenChanged /\ cmd[p].gen = Latest
           /\ \/ StashPreimage(p) \/ QuarantineReuse(p) \/ Relocate(p) \/ WriteManifest(p)
              \/ Reverse(p) \/ WriteUndone(p)
    BY GenSteps
  <2>. QED
    BY <2>2, <2>3, <2>4, <2>5, <2>6
<1>4. \A q \in Procs : InUndo(q)' => Gen(q)'.manifest # None
  <2>1. SUFFICES ASSUME NEW q \in Procs, InUndo(q)' PROVE Gen(q)'.manifest # None
    OBVIOUS
  <2>2. CASE q # p
    <3>1. cmd'[q] = cmd[q] /\ InUndo(q)
      BY <2>1, <2>2, CmdSteps DEF InUndo
    <3>. QED
      BY <1>0, <2>2, <3>1, OutsideSteps DEF MemoryKept, Gen
  <2>3. CASE q = p /\ InUndo(p)
    <3>1. cmd'[p].gen = cmd[p].gen \/ cmd'[p] = Idle
      <4>1. ~Enters(p) /\ ~Starts(p)
        BY <2>3, NoneAssumption DEF Enters, Starts, BaseInv, RunInv, HoldsLock, InUndo, Undoing, Idle
      <4>. QED
        BY <4>1, CmdSteps DEF GoesOn, Leaves
    <3>2. cmd'[p] # Idle
      BY <2>1, <2>3 DEF Idle, InUndo, Undoing
    <3>3. Latest' = Latest /\ gens[Latest].manifest # None /\ Latest \in 1..Latest /\ gens[Latest] \in Generations
          /\ cmd[p].gen = Latest
      <4>1. Latest' = Latest
        BY <2>3, SnapKept DEF Crash, Latest, disk
      <4>. QED
        BY <1>0, <2>3, <4>1, HandFacts DEF MemoryKept
    <3>4. gens'[Latest].manifest = gens[Latest].manifest
      <4>1. CASE UNCHANGED gens
        BY <4>1
      <4>2. CASE Reverse(p)
        <5>1. PICK f \in cmd[p].todo : UNCHANGED gens \/ gens' = [gens EXCEPT ![cmd[p].gen].quar[f] = None]
          BY <4>2 DEF Reverse
        <5>. QED
          BY <1>0, <3>3, <5>1 DEF Generations
      <4>3. CASE WriteUndone(p)
        BY <1>0, <3>3, <4>3 DEF WriteUndone, Generations
      <4>. QED
        BY <2>3, <4>1, <4>2, <4>3, GenSteps DEF SnapshotUnderlay, StashPreimage, QuarantineReuse, Relocate, WriteManifest,
                                                 At, InUndo, Undoing
    <3>. QED
      BY <2>3, <3>1, <3>2, <3>3, <3>4 DEF Gen
  <2>4. CASE q = p /\ ~InUndo(p)
    <3>1. Enters(p) /\ cmd[p].kind = "undo" /\ cmd'[p].gen = Latest' /\ Latest' # 0
      BY <2>1, <2>4, CmdSteps DEF GoesOn, Leaves, Starts, Enters, Stays, InUndo, Idle, Running, Undoing, BaseInv, RunInv, KindFits
    <3>2. UndoCheck(p)
      <4>1. ~SnapshotUnderlay(p)
        BY <2>1, <2>4, <3>1, HandFacts DEF SnapshotUnderlay, Leave, Idle, InUndo, Undoing, Cmds
      <4>. QED
        BY <3>1, <4>1, EnterSteps DEF Enters
    <3>3. UNCHANGED gens /\ gens[Latest].manifest # None
      BY <2>1, <2>4, <3>2, HandFacts DEF UndoCheck, Leave, Idle, InUndo, Undoing, Cmds
    <3>. QED
      BY <2>4, <3>1, <3>3 DEF Gen, Latest
  <2>. QED
    BY <2>2, <2>3, <2>4
<1>. QED
  BY <1>0, <1>1, <1>2, <1>3, <1>4 DEF MemoryKept

LEMMA HandKept ==
    ASSUME BaseInv, TypeInv', NEW p \in Procs, ReconcileSteps(p) \/ UndoSteps(p) \/ Crash(p)
    PROVE  HandInv'
<1>1. StillThere(p)' /\ PlanFits(p)'
  BY StartHand, MergeHand, MemoryHand, RestHand DEF ReconcileSteps, Commands
<1>2. \A q \in Procs : StillThere(q)' /\ PlanFits(q)'
  BY <1>1, OthersKeepHand
<1>. QED
  BY <1>2, MemoryStaysOut DEF HandInv

\* Mounts and writers leave the commands, orig and the generations alone, and
\* remove nothing from the underlay.
LEMMA OutsideHand ==
    ASSUME BaseInv, TypeInv',
           \/ Mount \/ Unmount \/ \E f \in Files : Write(f) \/ Link(f)
    PROVE  /\ UNCHANGED <<load, orig, gens, marker, lock, cmd>> /\ Present(live) \subseteq Present(live)'
           /\ RunInv' /\ HandInv'
<1>0. /\ live \in Directory /\ backing \in Directory
      /\ \A q \in Procs : StillThere(q) /\ PlanFits(q)
  BY DEF BaseInv, TypeInv, HandInv
<1>1. UNCHANGED <<load, orig, gens, marker, lock, cmd>> /\ Memory' = Memory
  BY PlansSame DEF Mount, Unmount, Write, Link, disk
<1>2. Present(live) \subseteq Present(live)'
  <2>1. CASE Mount \/ Unmount \/ \E f \in Files : Link(f)
    BY <2>1 DEF Mount, Unmount, Link, disk, Present
  <2>2. ASSUME NEW f \in Files, Write(f)
        PROVE  Present(live) \subseteq Present(live)'
    <3>1. live' = live \/ \E t \in SUBSET Records : live' = [live EXCEPT ![f] = t]
      <4>1. CASE live' # live
        <5>1. PICK text \in IF live[f] # None THEN {live[f]} ELSE {{}} \cup ({orig[f], target[f]} \ {None}) :
                live' = [live EXCEPT ![f] = text \cup {written'}]
          BY <2>2, <4>1 DEF Write
        <5>2. text \in SUBSET Records /\ written' \in Records
          BY <5>1, ContentTypes DEF BaseInv, TypeInv, Contents
        <5>3. text \cup {written'} \in SUBSET Records
          BY <5>2
        <5>. QED
          BY <5>1, <5>3
      <4>. QED
        BY <4>1
    <3>. QED
      BY <1>0, <3>1, NoneAssumption DEF Present, Directory
  <2>. QED
    BY <2>1, <2>2
<1>3. RunInv'
  BY <1>1 DEF BaseInv, RunInv, AloneInv, HoldsLock, KindFits, InRun, InUndo, Latest, Idle, NoFiles
<1>4. MemoryKept'
  <2>1. \A f \in Memory : backing'[f] = None
    <3>1. backing' = backing \/ \E f \in Files \ Memory : \E t : backing' = [backing EXCEPT ![f] = t]
      BY DEF Mount, Unmount, Write, Link, disk
    <3>2. \A f \in Memory : f \in Files /\ backing[f] = None
      BY DEF BaseInv, HandInv, MemoryKept, Memory, Of
    <3>. QED
      BY <1>0, <1>1, <3>1, <3>2 DEF Directory
  <2>. QED
    BY <1>1, <2>1 DEF BaseInv, HandInv, MemoryKept, InUndo, Gen
<1>5. \A q \in Procs : StillThere(q)' /\ PlanFits(q)'
  <2>. TAKE q \in Procs
  <2>1. StillThere(q)'
    BY <1>0, <1>1, <1>2 DEF StillThere, Gen, File, Present
  <2>2. PlanFits(q)'
    <3>1. PlanFits(q) /\ Gen(q)' = Gen(q) /\ File(q)' = File(q)
      BY <1>0, <1>1 DEF Gen, File
    <3>2. \A f : \A b, s : Plans(f, b, s)' = Plans(f, b, s)
      BY <1>1, PlansSame
    <3>. QED
      BY <1>1, <3>1, <3>2 DEF PlanFits, Of
  <2>. QED
    BY <2>1, <2>2
<1>. QED
  BY <1>1, <1>2, <1>3, <1>4, <1>5 DEF HandInv

-----------------------------------------------------------------------------
(* When a project is mounted                                                *)

\* Undo is only called where one command runs at a time.
UndoAlone == \A w \in Workloads : "undo" \in w.commands => w.alone

LEMMA UndoIsAlone ==
    ASSUME BaseInv, UndoAlone, NEW p \in Procs, NEW q \in Procs, q # p, InUndo(p)
    PROVE  cmd[q] = Idle
<1>1. load.alone
  BY DEF BaseInv, TypeInv, RunInv, KindFits, InUndo, Undoing, UndoAlone
<1>. QED
  BY <1>1 DEF BaseInv, RunInv, KindFits, AloneInv, InUndo, Undoing

\* While a run that read the underlay rewrites, that is not empty; while undo
\* does, its marker is set.
LEMMA RewritingUnmounted ==
    ASSUME BaseInv, MountInv, NEW p \in Procs, Rewriting(p), mounted
    PROVE  cmd[p].kind # "undo" /\ Gen(p).through
<1>1. CASE cmd[p].pc \in InHand
  <2>1. InRun(p)
    BY <1>1 DEF InHand, InRun, Running
  <2>. QED
    BY <1>1, <2>1 DEF BaseInv, RunInv, KindFits, HandInv, StillThere, MountInv, Fallthrough
<1>2. CASE cmd[p].pc \in Placing
  BY <1>2 DEF BaseInv, HandInv, StillThere, MountInv, Fallthrough
<1>3. CASE cmd[p].pc \in {"reverse", "rebuild", "unset"}
  BY <1>3 DEF BaseInv, MountInv
<1>. QED
  BY <1>1, <1>2, <1>3 DEF Rewriting, InHand, Placing

LEMMA MountKept ==
    ASSUME BaseInv, MountInv, TypeInv', UndoAlone, NEW p \in Procs, ReconcileSteps(p) \/ UndoSteps(p) \/ Crash(p)
    PROVE  MountInv'
<1>0. /\ cmd \in [Procs -> Cmds] /\ cmd[p] \in Cmds /\ MountInv /\ UNCHANGED mounted /\ live \in Directory
      /\ \A q \in Procs : q # p => cmd'[q] = cmd[q]
  <2>1. UNCHANGED mounted
    <3>1. ASSUME \/ \E k \in Commands : Begin(p, k)
                 \/ CheckPreconditions(p) \/ SnapshotUnderlay(p) \/ Preview(p) \/ PlanEntries(p) \/ Entry(p)
                 \/ StashPreimage(p) \/ WriteOrig(p) \/ QuarantineReuse(p) \/ FinishDelete(p) \/ RestoreMemory(p)
                 \/ PlaceRead(p) \/ PlaceWrite(p) \/ Relocate(p) \/ Prune(p) \/ WriteManifest(p)
          PROVE  UNCHANGED mounted
      BY <3>1 DEF Begin, CheckPreconditions, SnapshotUnderlay, Preview, PlanEntries, Entry, StashPreimage, WriteOrig,
                  QuarantineReuse, FinishDelete, RestoreMemory, PlaceRead, PlaceWrite, Relocate, Prune, WriteManifest
    <3>2. ASSUME \/ UndoCheck(p) \/ AbortIfMounted(p) \/ Reverse(p) \/ RestoreUnderlay(p) \/ WriteUndone(p) \/ Crash(p)
                 \/ \E from, to \in Pcs, on \in BOOLEAN : SetReconciling(p, from, on, to)
                 \/ \E from, to \in Pcs : ReingestOneFile(p, from, to)
          PROVE  UNCHANGED mounted
      BY <3>2 DEF UndoCheck, AbortIfMounted, Reverse, RestoreUnderlay, WriteUndone, Crash, SetReconciling, ReingestOneFile
    <3>. QED
      BY <3>1, <3>2, Steps
  <2>. QED
    BY <2>1, CmdSteps DEF BaseInv, TypeInv
<1>1. mounted => ~Fallthrough'
  <2>1. CASE UNCHANGED <<live, hollow>>
    BY <1>0, <2>1 DEF MountInv, Fallthrough
  <2>2. CASE FinishDelete(p) /\ ~UNCHANGED <<live, hollow>>
    BY <2>2 DEF FinishDelete
  <2>3. CASE Relocate(p)
    BY <1>0, <2>3 DEF Relocate, aside, MountInv, Fallthrough, Present
  <2>4. CASE RestoreUnderlay(p)
    BY <2>4 DEF RestoreUnderlay, At, MountInv
  <2>5. CASE Prune(p)
    BY <1>0, <2>5 DEF Prune, MountInv, Fallthrough
  <2>6. \/ UNCHANGED <<live, hollow>> \/ FinishDelete(p) \/ Relocate(p) \/ RestoreUnderlay(p) \/ Prune(p)
    <3>1. ASSUME \/ \E k \in Commands : Begin(p, k)
                 \/ CheckPreconditions(p) \/ SnapshotUnderlay(p) \/ Preview(p) \/ PlanEntries(p) \/ Entry(p)
                 \/ StashPreimage(p) \/ WriteOrig(p) \/ QuarantineReuse(p) \/ RestoreMemory(p)
                 \/ PlaceRead(p) \/ PlaceWrite(p) \/ WriteManifest(p)
          PROVE  UNCHANGED <<live, hollow>>
      BY <3>1 DEF Begin, CheckPreconditions, SnapshotUnderlay, Preview, PlanEntries, Entry, StashPreimage, WriteOrig,
                  QuarantineReuse, RestoreMemory, PlaceRead, PlaceWrite, WriteManifest, disk, aside
    <3>2. ASSUME \/ UndoCheck(p) \/ AbortIfMounted(p) \/ Reverse(p) \/ WriteUndone(p) \/ Crash(p)
                 \/ \E from, to \in Pcs, on \in BOOLEAN : SetReconciling(p, from, on, to)
                 \/ \E from, to \in Pcs : ReingestOneFile(p, from, to)
          PROVE  UNCHANGED <<live, hollow>>
      BY <3>2 DEF UndoCheck, AbortIfMounted, Reverse, WriteUndone, Crash, SetReconciling, ReingestOneFile, disk, aside
    <3>. QED
      BY <3>1, <3>2, Steps
  <2>. QED
    BY <2>1, <2>2, <2>3, <2>4, <2>5, <2>6
<1>2. ASSUME NEW q \in Procs, q # p
      PROVE  /\ cmd'[q].pc \in {"recheck", "reverse", "rebuild", "unset"} => marker'
             /\ cmd'[q].pc \in {"reverse", "rebuild", "unset"} => ~mounted'
  <2>1. CASE InUndo(q)
    <3>1. cmd[p].pc = "idle"
      BY <1>2, <2>1, UndoIsAlone DEF Idle
    <3>2. (\E k \in Commands : Begin(p, k)) \/ Crash(p)
      BY <3>1 DEF ReconcileSteps, UndoSteps, Commands, SetReconciling, ReingestOneFile, Preview,
          PlanEntries, Entry, StashPreimage, WriteOrig, QuarantineReuse, FinishDelete, RestoreMemory, PlaceRead,
          PlaceWrite, Relocate, Prune, WriteManifest, AbortIfMounted, Reverse, RestoreUnderlay, WriteUndone, At,
          CheckPreconditions, SnapshotUnderlay, UndoCheck
    <3>3. UNCHANGED marker
      BY <3>2 DEF Begin, Crash, disk
    <3>. QED
      BY <1>0, <1>2, <3>3 DEF MountInv
  <2>2. CASE ~InUndo(q)
    BY <1>0, <1>2, <2>2 DEF InUndo, Undoing
  <2>. QED
    BY <2>1, <2>2
<1>3. /\ cmd'[p].pc \in {"recheck", "reverse", "rebuild", "unset"} => marker'
      /\ cmd'[p].pc \in {"reverse", "rebuild", "unset"} => ~mounted'
  <2>1. CASE cmd'[p].pc \notin {"recheck", "reverse", "rebuild", "unset"}
    BY <2>1
  <2>2. CASE cmd'[p].pc \in {"recheck", "reverse", "rebuild", "unset"}
    <3>1. CASE InUndo(p)
      <4>1. \/ UndoCheck(p) \/ AbortIfMounted(p) \/ Reverse(p) \/ RestoreUnderlay(p) \/ WriteUndone(p) \/ Crash(p)
            \/ SetReconciling(p, "set", TRUE, "recheck") \/ SetReconciling(p, "unset", FALSE, "done")
            \/ ReingestOneFile(p, "rebuild", "reverse")
        <5>1. ASSUME \/ \E k \in Commands : Begin(p, k)
                     \/ CheckPreconditions(p) \/ SnapshotUnderlay(p) \/ Preview(p) \/ PlanEntries(p) \/ Entry(p)
                     \/ StashPreimage(p) \/ WriteOrig(p) \/ QuarantineReuse(p) \/ FinishDelete(p)
                     \/ SetReconciling(p, "mark", TRUE, "plan") \/ SetReconciling(p, "clear", FALSE, "idle")
              PROVE  FALSE
          <6>1. ~ \E k \in Commands : Begin(p, k)
            <7>1. Idle.pc = "idle"
              BY DEF Idle
            <7>. QED
              BY <3>1, <7>1 DEF InUndo, Undoing, Begin
          <6>2. cmd[p].pc \notin {"check"} /\ cmd[p].pc \in Undoing
            BY <3>1 DEF InUndo, Undoing
          <6>. QED
            BY <5>1, <6>1, <6>2 DEF Undoing, SetReconciling, Preview, PlanEntries, Entry, StashPreimage, WriteOrig,
               QuarantineReuse, FinishDelete, At, CheckPreconditions, SnapshotUnderlay
        <5>2. ASSUME \/ RestoreMemory(p) \/ PlaceRead(p) \/ PlaceWrite(p) \/ Relocate(p) \/ Prune(p) \/ WriteManifest(p)
                     \/ ReingestOneFile(p, "reingest", "gate")
              PROVE  FALSE
          BY <3>1, <5>2 DEF InUndo, Undoing, RestoreMemory, PlaceRead, PlaceWrite, Relocate, Prune, WriteManifest,
             ReingestOneFile, At
        <5>. QED
          BY <5>1, <5>2 DEF ReconcileSteps, UndoSteps, Commands
      <4>2. CASE SetReconciling(p, "set", TRUE, "recheck") \/ SetReconciling(p, "unset", FALSE, "done")
        BY <1>0, <2>2, <4>2 DEF SetReconciling, Goto, Cmds
      <4>3. CASE UndoCheck(p) \/ WriteUndone(p) \/ Crash(p)
        BY <1>0, <2>2, <4>3 DEF UndoCheck, WriteUndone, Crash, CutShort, Leave, Idle, Cmds
      <4>4. CASE AbortIfMounted(p)
        BY <1>0, <2>2, <4>4 DEF AbortIfMounted, Leave, Idle, Cmds, At, MountInv
      <4>5. CASE Reverse(p)
        BY <1>0, <2>2, <4>5 DEF Reverse, At, MountInv
      <4>6. CASE RestoreUnderlay(p)
        BY <1>0, <2>2, <4>6 DEF RestoreUnderlay, At, MountInv
      <4>7. CASE ReingestOneFile(p, "rebuild", "reverse")
        BY <1>0, <2>2, <4>7 DEF ReingestOneFile, At, MountInv, disk
      <4>. QED
        BY <4>1, <4>2, <4>3, <4>4, <4>5, <4>6, <4>7
    <3>2. CASE ~InUndo(p)
      <4>1. Enters(p)
        BY <2>2, <3>2, CmdSteps DEF GoesOn, Leaves, Starts, Stays, InUndo, Idle, Running, Undoing
      <4>2. SnapshotUnderlay(p) \/ UndoCheck(p)
        BY <4>1, EnterSteps DEF Enters
      <4>. QED
        BY <1>0, <2>2, <4>2 DEF SnapshotUnderlay, UndoCheck, Leave, Idle, Cmds
    <3>. QED
      BY <3>1, <3>2
  <2>. QED
    BY <2>1, <2>2
<1>. QED
  BY <1>0, <1>1, <1>2, <1>3 DEF MountInv

LEMMA OutsideMount ==
    ASSUME BaseInv, MountInv, TypeInv',
           \/ Mount \/ Unmount \/ \E f \in Files : Write(f) \/ Link(f)
    PROVE  MountInv'
<1>1. UNCHANGED <<marker, cmd>> /\ MountInv
  BY OutsideHand DEF BaseInv
<1>2. mounted' => ~Fallthrough'
  BY <1>1 DEF Mount, Unmount, Write, Link, MountInv, EnsureMountable, Fallthrough, disk, aside
<1>3. mounted' => mounted \/ ~marker
  BY DEF Mount, Unmount, Write, Link, EnsureMountable
<1>. QED
  BY <1>1, <1>2, <1>3 DEF MountInv

LEMMA InitBase == Init => BaseInv
<1>. SUFFICES ASSUME Init PROVE BaseInv
  OBVIOUS
<1>1. TypeInv
  BY InitTypes
<1>2. \A p \in Procs : cmd[p] = Idle /\ cmd[p].pc = "idle" /\ cmd[p].gen = 0
  BY DEF Init, Idle
<1>3. RunInv
  BY <1>2 DEF RunInv, AloneInv, HoldsLock, KindFits, InRun, InUndo, Running, Undoing
<1>4. MemoryKept
  <2>1. \A f \in Memory : orig[f] = None
    <3>1. PICK f \in Files : orig = IF f \in Memory THEN NoFiles ELSE [NoFiles EXCEPT ![f] = {1}]
      BY DEF Init
    <3>2. Memory \subseteq Files
      BY DEF Memory, Of
    <3>. QED
      BY <3>1, <3>2, NoFilesType DEF Directory
  <2>2. DOMAIN gens = {}
    BY DEF Init
  <2>. QED
    BY <1>2, <2>1, <2>2 DEF MemoryKept, Init, InUndo, Undoing
<1>5. HandInv
  BY <1>2, <1>4 DEF HandInv, StillThere, PlanFits, Planned, InHand, Placing, Running
<1>. QED
  BY <1>1, <1>3, <1>5 DEF BaseInv

LEMMA InitMount == Init => MountInv
  BY NoFilesType DEF MountInv, Init, Idle

LEMMA NextBase ==
    ASSUME BaseInv, [Next]_vars
    PROVE  BaseInv'
<1>1. TypeInv'
  BY NextTypes
<1>2. CASE Mount \/ Unmount \/ \E f \in Files : Write(f) \/ Link(f)
  BY <1>1, <1>2, OutsideHand DEF BaseInv
<1>3. CASE \E p \in Procs : ReconcileSteps(p) \/ UndoSteps(p) \/ Crash(p)
  BY <1>1, <1>3, RunKept, HandKept DEF BaseInv
<1>4. CASE UNCHANGED vars
  <2>1. Memory' = Memory /\ \A f : \A b, s : Plans(f, b, s)' = Plans(f, b, s)
    BY <1>4, PlansSame DEF vars
  <2>2. UNCHANGED <<load, orig, backing, live, gens, marker, hollow, target, beside, mounted, lock, cmd>>
    BY <1>4 DEF vars, disk, aside
  <2>3. RunInv'
    BY <2>2 DEF BaseInv, RunInv, AloneInv, HoldsLock, KindFits, InRun, InUndo, Latest, Idle, NoFiles
  <2>4. MemoryKept' /\ \A q \in Procs : StillThere(q)'
    BY <2>1, <2>2 DEF BaseInv, HandInv, MemoryKept, StillThere, InUndo, Gen, File
  <2>5. \A q \in Procs : PlanFits(q)'
    BY <2>1, <2>2 DEF BaseInv, HandInv, PlanFits, Gen, File, Of
  <2>. QED
    BY <1>1, <2>3, <2>4, <2>5 DEF BaseInv, HandInv
<1>. QED
  BY <1>2, <1>3, <1>4 DEF Next

LEMMA NextMount ==
    ASSUME BaseInv, MountInv, UndoAlone, [Next]_vars
    PROVE  MountInv'
<1>1. TypeInv'
  BY NextTypes
<1>2. CASE UNCHANGED vars
  <2>1. UNCHANGED <<marker, mounted, live, hollow, cmd>>
    BY <1>2 DEF vars, disk, aside
  <2>. QED
    BY <2>1 DEF MountInv, Fallthrough
<1>. QED
  BY <1>1, <1>2, OutsideMount, MountKept DEF Next

LEMMA BaseAlways == Spec => []BaseInv
<1>1. BaseInv /\ [Next]_vars => BaseInv'
  BY NextBase
<1>. QED
  BY InitBase, <1>1, PTL DEF Spec

\* The state is well-typed, the two commands never rewrite at a time, memory
\* files stay out of orig and backing, and only a finished run is undone.
THEOREM TypeCorrect == Spec => []TypeOK
<1>1. BaseInv => TypeOK
  <2>. SUFFICES ASSUME BaseInv PROVE TypeOK
    OBVIOUS
  <2>1. \A g \in DOMAIN gens : gens[g] \in Generations
    BY DEF BaseInv, TypeInv
  <2>2. \A p \in Procs : cmd[p].gen # 0 => lock = p
    <3>. TAKE p \in Procs
    <3>1. cmd[p].pc \in Pcs /\ HoldsLock(p)
      BY DEF BaseInv, TypeInv, RunInv, Cmds
    <3>. QED
      BY <3>1 DEF HoldsLock, Pcs, InRun, InUndo
  <2>. QED
    BY <2>1, <2>2 DEF TypeOK, BaseInv, TypeInv, HandInv, MemoryKept, Latest, Generations
<1>. QED
  BY BaseAlways, <1>1, PTL

\* No mount serves a project while an undo rewrites it, or a run of reconcile
\* that has read the underlay: the underlay keeps such a run's files until their
\* last step, and undo sets its marker before it looks whether the project is
\* mounted.  A run that rewrites a mounted project has read it through a mount.
THEOREM RewritesUnmounted ==
    ASSUME UndoAlone PROVE Spec => []RewriteUnmounted
<1>1. Init => BaseInv /\ MountInv
  BY InitBase, InitMount
<1>2. BaseInv /\ MountInv /\ [Next]_vars => BaseInv' /\ MountInv'
  BY NextBase, NextMount
<1>3. BaseInv /\ MountInv => RewriteUnmounted
  BY RewritingUnmounted DEF RewriteUnmounted
<1>. QED
  BY <1>1, <1>2, <1>3, PTL DEF Spec

-----------------------------------------------------------------------------
(* What a run has settled                                                   *)

\* Another's run is not touched.
LEMMA OthersSettled ==
    ASSUME BaseInv, TypeInv', SettledInv, NEW p \in Procs, NEW q \in Procs, q # p,
           ReconcileSteps(p) \/ UndoSteps(p) \/ Crash(p), InRun(q)'
    PROVE  RunSettled(q)'
<1>1. cmd'[q] = cmd[q] /\ InRun(q)
  BY CmdSteps DEF InRun
<1>2. UNCHANGED <<orig, gens>> /\ RunSettled(q)
  BY <1>1, OutsideSteps DEF SettledInv
<1>3. Gen(q)' = Gen(q) /\ File(q)' = File(q) /\ Pending(q)' = Pending(q)
  BY <1>1, <1>2 DEF Gen, File, Pending
<1>4. \A f \in Files : Reversal(q, f)' = Reversal(q, f)
  BY <1>1, <1>3 DEF Reversal
<1>. QED
  BY <1>1, <1>2, <1>3, <1>4 DEF RunSettled

\* A step that leaves orig, the plans and what the generation has of them.
LEMMA StaysSettled ==
    ASSUME BaseInv, SettledInv, NEW p \in Procs, InRun(p), InRun(p)', UNCHANGED orig,
           cmd'[p].plan = cmd[p].plan, cmd'[p].gen = cmd[p].gen, Pending(p)' = Pending(p),
           gens'[Latest].before = gens[Latest].before, gens'[Latest].snap = gens[Latest].snap,
           gens'[Latest].pre = gens[Latest].pre, gens'[Latest].undone = gens[Latest].undone,
           cmd'[p].pc # "clear" => gens'[Latest].manifest = gens[Latest].manifest /\ cmd[p].pc # "clear",
           cmd'[p].pc \in {"manifest", "clear"} => cmd'[p].todo = {},
           cmd'[p].pc # "merge"
    PROVE  RunSettled(p)'
<1>1. RunSettled(p) /\ cmd[p].gen = Latest
  BY HandFacts DEF SettledInv
<1>2. /\ Gen(p)'.before = Gen(p).before /\ Gen(p)'.snap = Gen(p).snap /\ Gen(p)'.pre = Gen(p).pre
      /\ Gen(p)'.undone = Gen(p).undone
  BY <1>1 DEF Gen
<1>3. \A f \in Files : Reversal(p, f)' = Reversal(p, f)
  BY <1>2 DEF Reversal
<1>4. cmd'[p].pc # "clear" => Gen(p)'.manifest = None
  BY <1>1 DEF Gen, RunSettled
<1>. QED
  BY <1>1, <1>2, <1>3, <1>4 DEF RunSettled

LEMMA StartSettled ==
    ASSUME BaseInv, TypeInv', SettledInv, NEW p \in Procs, InRun(p)',
           SnapshotUnderlay(p) \/ SetReconciling(p, "mark", TRUE, "plan") \/ PlanEntries(p) \/ Entry(p)
    PROVE  RunSettled(p)'
<1>0. /\ cmd \in [Procs -> Cmds] /\ cmd[p] \in Cmds /\ PlanFits(p) /\ gens \in Seq(Generations) /\ orig \in Directory
  BY HandFacts DEF BaseInv, TypeInv
<1>1. CASE SnapshotUnderlay(p)
  <2>1. cmd'[p].pc \in {"mark", "preview"} /\ LockFree /\ Latest < load.runs
    BY <1>0, <1>1 DEF SnapshotUnderlay, Leave, Idle, Cmds, InRun, Running
  <2>2. cmd'[p].gen = Latest + 1 /\ orig' = orig /\ cmd'[p].todo = cmd[p].todo
    BY <1>0, <1>1, <2>1 DEF SnapshotUnderlay, Cmds
  <2>3. Gen(p)' = [snap |-> Mountpoint, pre |-> NoFiles, quar |-> NoFiles, manifest |-> None,
                   undone |-> FALSE, before |-> orig, through |-> mounted]
    <3>1. [snap |-> Mountpoint, pre |-> NoFiles, quar |-> NoFiles, manifest |-> None,
           undone |-> FALSE, before |-> orig, through |-> mounted] \in Generations
      BY NoFilesType DEF BaseInv, TypeInv, Generations, Mountpoint
    <3>. QED
      BY <1>0, <1>1, <2>1, <2>2, <3>1, AppendProperties DEF SnapshotUnderlay, Gen, Latest
  <2>4. Pending(p)' = Files
    BY <2>1 DEF Pending
  <2>. QED
    BY <2>1, <2>2, <2>3, <2>4 DEF RunSettled
<1>2. CASE SetReconciling(p, "mark", TRUE, "plan")
  <2>1. /\ cmd[p].pc = "mark" /\ cmd'[p].pc = "plan" /\ cmd'[p].plan = cmd[p].plan /\ cmd'[p].gen = cmd[p].gen
        /\ UNCHANGED <<gens, orig>>
    BY <1>0, <1>2 DEF SetReconciling, Goto, At, Cmds
  <2>2. Pending(p) = Files /\ Pending(p)' = Files /\ InRun(p)
    BY <2>1 DEF Pending, InRun, Running
  <2>. QED
    BY <2>1, <2>2, StaysSettled
<1>3. CASE PlanEntries(p)
  <2>1. PICK plan \in [Files -> EntryPlans \cup {None}] :
          /\ \A f \in Files : IF f \in Present(Gen(p).snap)
                                THEN plan[f] \in Plans(f, orig[f], Gen(p).snap[f])
                                ELSE plan[f] = None
          /\ cmd' = [cmd EXCEPT ![p].pc = "entry", ![p].todo = Present(Gen(p).snap), ![p].plan = plan]
    BY <1>3 DEF PlanEntries
  <2>2. /\ cmd'[p].pc = "entry" /\ cmd'[p].todo = Present(Gen(p).snap) /\ cmd'[p].plan = plan
        /\ cmd'[p].gen = cmd[p].gen /\ cmd[p].pc = "plan" /\ UNCHANGED <<gens, orig>>
    BY <1>0, <1>3, <2>1 DEF PlanEntries, Cmds, At, disk
  <2>3. Gen(p)' = Gen(p) /\ InRun(p) /\ Pending(p)' = Present(Gen(p).snap) /\ Pending(p) = Files
    BY <2>2 DEF Gen, InRun, Running, Pending
  <2>4. RunSettled(p)
    BY <2>3 DEF SettledInv
  <2>5. \A f \in Files \ Present(Gen(p).snap) : Reversal(p, f)' = "Noop"
    <3>1. \A f \in Files \ Present(Gen(p).snap) : cmd'[p].plan[f] = None
      BY <2>1, <2>2
    <3>. QED
      BY <3>1, NoneAssumption DEF Reversal, EntryPlans
  <2>6. \A h \in Files \ Pending(p)' :
            Settled(orig[h], Gen(p).before[h], Gen(p).pre[h], Gen(p).snap[h], Reversal(p, h))'
    <3>. TAKE h \in Files \ Pending(p)'
    <3>1. Reversal(p, h)' = "Noop"
      BY <2>3, <2>5
    <3>2. orig'[h] = Gen(p)'.before[h]
      BY <2>2, <2>3, <2>4 DEF RunSettled
    <3>. QED
      BY <3>1, <3>2 DEF Settled
  <2>7. \A h \in Pending(p)' : orig'[h] = Gen(p)'.before[h]
    BY <2>2, <2>3, <2>4 DEF RunSettled, Present
  <2>. QED
    BY <2>2, <2>3, <2>4, <2>6, <2>7 DEF RunSettled
<1>4. CASE Entry(p)
  <2>1. PICK f \in cmd[p].todo : \E plan \in EntryPlans : EntryTaken(p, f, plan)
    BY <1>4, EntryParts
  <2>2. PICK plan \in EntryPlans : EntryTaken(p, f, plan)
    BY <2>1
  <2>3. /\ cmd'[p].pc = FirstStep(p, f, plan) /\ cmd'[p].todo = cmd[p].todo \ {f} /\ cmd'[p].file = f
        /\ cmd'[p].plan = [cmd[p].plan EXCEPT ![f] = plan] /\ cmd[p].plan \in [Files -> EntryPlans \cup {None}]
        /\ cmd'[p].gen = cmd[p].gen /\ cmd[p].pc = "entry" /\ UNCHANGED <<orig, gens>>
    BY <1>0, <1>4, <2>2 DEF Entry, EntryTaken, Cmds, At, disk
  <2>4. Gen(p)' = Gen(p) /\ InRun(p) /\ RunSettled(p) /\ Pending(p) = cmd[p].todo
    BY <2>3 DEF Gen, InRun, Running, SettledInv, Pending
  <2>5. FirstStep(p, f, plan) \in {"entry", "stash", "quarantine", "memory", "gate", "reingest"}
    BY <2>2 DEF EntryTaken
  <2>6. Pending(p)' = IF FirstStep(p, f, plan) = "stash" THEN cmd[p].todo ELSE cmd[p].todo \ {f}
    <3>1. CASE FirstStep(p, f, plan) = "stash"
      <4>1. cmd'[p].pc = "stash" /\ cmd'[p].todo \cup {cmd'[p].file} = cmd[p].todo
        BY <2>1, <2>3, <3>1
      <4>. QED
        BY <3>1, <4>1 DEF Pending, File
    <3>2. CASE FirstStep(p, f, plan) # "stash"
      <4>1. cmd'[p].pc \notin {"preview", "mark", "plan", "stash"}
        BY <2>3, <2>5, <3>2
      <4>. QED
        BY <2>3, <3>2, <4>1 DEF Pending
    <3>. QED
      BY <3>1, <3>2
  <2>7. FirstStep(p, f, plan) # "stash" => Reversal(p, f)' \notin {"RestoreOrig", "RemoveOrig"}
    <3>1. cmd'[p].plan[f] = plan
      BY <2>2, <2>3 DEF EntryTaken
    <3>2. FirstStep(p, f, plan) # "stash" => plan \notin {"Union", "New"}
      BY <2>2 DEF FirstStep, StartStep, EntryPlans
    <3>. QED
      BY <3>1, <3>2 DEF Reversal
  <2>8. \A h \in Files \ {f} : Reversal(p, h)' = Reversal(p, h)
    BY <2>3, <2>4 DEF Reversal
  <2>9. \A h \in Files \ Pending(p)' :
            Settled(orig[h], Gen(p).before[h], Gen(p).pre[h], Gen(p).snap[h], Reversal(p, h))'
    <3>. TAKE h \in Files \ Pending(p)'
    <3>1. CASE h = f
      <4>1. orig[f] = Gen(p).before[f]
        BY <2>4 DEF RunSettled
      <4>2. Reversal(p, f)' \notin {"RestoreOrig", "RemoveOrig"}
        BY <2>6, <2>7, <3>1
      <4>. QED
        BY <2>3, <2>4, <3>1, <4>1, <4>2 DEF Settled
    <3>2. CASE h # f
      BY <2>3, <2>4, <2>6, <2>8, <3>2 DEF RunSettled
    <3>. QED
      BY <3>1, <3>2
  <2>. QED
    BY <2>3, <2>4, <2>5, <2>6, <2>9 DEF RunSettled
<1>. QED
  BY <1>1, <1>2, <1>3, <1>4

LEMMA MergeSettled ==
    ASSUME BaseInv, TypeInv', SettledInv, NEW p \in Procs, InRun(p)',
           \/ StashPreimage(p) \/ WriteOrig(p) \/ ReingestOneFile(p, "reingest", "gate")
           \/ QuarantineReuse(p) \/ FinishDelete(p)
    PROVE  RunSettled(p)'
<1>0. /\ cmd \in [Procs -> Cmds] /\ cmd[p] \in Cmds /\ PlanFits(p) /\ StillThere(p)
      /\ gens \in Seq(Generations) /\ orig \in Directory
  BY HandFacts DEF BaseInv, TypeInv
<1>1. cmd[p].pc \in InHand /\ InRun(p) /\ cmd[p].pc \in Planned
  BY DEF StashPreimage, WriteOrig, ReingestOneFile, QuarantineReuse, FinishDelete, At, InHand, Running, InRun, Planned
<1>2. /\ Latest \in 1..Latest /\ gens[Latest] \in Generations /\ cmd[p].gen = Latest /\ Gen(p) = gens[Latest]
      /\ RunSettled(p) /\ File(p) \in Files
  BY <1>0, <1>1, HandFacts DEF SettledInv, StillThere, Present
<1>3. CASE StashPreimage(p)
  <2>1. cmd[p].pc = "stash" /\ UNCHANGED orig /\ Pending(p) = cmd[p].todo \cup {File(p)}
    BY <1>3 DEF StashPreimage, At, Pending
  <2>2. cmd'[p].gen = cmd[p].gen /\ cmd'[p].todo = cmd[p].todo /\ File(p)' = File(p)
    BY <1>0, <1>3 DEF StashPreimage, Goto, Cmds, File
  <2>3. File(p) \notin cmd[p].todo
    BY <1>0, <1>1 DEF StillThere
  <2>4. CASE cmd'[p].pc = "merge"
    <3>1. cmd'[p].plan = cmd[p].plan
      BY <1>0, <1>3, <2>4 DEF StashPreimage, Goto, Cmds
    <3>2. Gen(p)' = [Gen(p) EXCEPT !.pre[File(p)] = orig[File(p)]]
      <4>1. gens' = [gens EXCEPT ![cmd[p].gen].pre[File(p)] = orig[File(p)]]
        BY <1>0, <1>3, <2>4 DEF StashPreimage, Goto, Cmds
      <4>. QED
        BY <1>0, <1>2, <2>2, <4>1 DEF Gen, Latest
    <3>3. /\ Gen(p)'.before = Gen(p).before /\ Gen(p)'.snap = Gen(p).snap /\ Gen(p)'.undone = Gen(p).undone
          /\ Gen(p)'.manifest = Gen(p).manifest /\ Gen(p)'.pre = [Gen(p).pre EXCEPT ![File(p)] = orig[File(p)]]
          /\ Gen(p).pre \in Directory
      BY <1>2, <3>2 DEF Generations
    <3>4. Pending(p)' = cmd[p].todo
      BY <2>2, <2>4 DEF Pending
    <3>5. orig[File(p)] = Gen(p).before[File(p)]
      BY <1>2, <2>1 DEF RunSettled
    <3>6. \A h \in Files \ {File(p)} : Reversal(p, h)' = Reversal(p, h)
      BY <3>1, <3>3 DEF Reversal, Directory
    <3>7. Gen(p)'.pre[File(p)] = orig[File(p)]
      BY <1>2, <3>3 DEF Directory
    <3>8. Reversal(p, File(p))' = "RemoveOrig" => orig[File(p)] = None
      <4>1. cmd[p].plan[File(p)] \in {"Union", "New"}
        BY <1>0, <1>1, <2>1 DEF PlanFits, StepPlans
      <4>. QED
        BY <3>1, <3>7, <4>1, <2>2 DEF Reversal, ReversalForPreimage
    <3>9. \A h \in Files \ Pending(p)' :
              Settled(orig[h], Gen(p).before[h], Gen(p).pre[h], Gen(p).snap[h], Reversal(p, h))'
      <4>. TAKE h \in Files \ Pending(p)'
      <4>1. CASE h = File(p)
        <5>1. orig'[h] = Gen(p)'.before[h] /\ Gen(p)'.pre[h] = Gen(p)'.before[h]
          BY <2>1, <3>3, <3>5, <3>7, <4>1
        <5>2. Reversal(p, h)' = "RemoveOrig" => Gen(p)'.before[h] = None
          BY <3>3, <3>5, <3>8, <4>1, <2>2
        <5>. QED
          BY <5>1, <5>2 DEF Settled, Text
      <4>2. CASE h # File(p)
        <5>1. Gen(p)'.pre[h] = Gen(p).pre[h]
          BY <3>3, <4>2 DEF Directory
        <5>. QED
          BY <1>2, <2>1, <3>3, <3>4, <3>6, <4>2, <5>1 DEF RunSettled
      <4>. QED
        BY <4>1, <4>2
    <3>. QED
      BY <1>2, <2>1, <2>2, <2>4, <3>3, <3>4, <3>5, <3>9 DEF RunSettled
  <2>5. CASE cmd'[p].pc # "merge"
    <3>1. cmd'[p].pc = "entry" /\ cmd'[p].plan = [cmd[p].plan EXCEPT ![File(p)] = "KeepBoth"] /\ UNCHANGED gens
      BY <1>0, <1>3, <2>5 DEF StashPreimage, Goto, Cmds, File
    <3>2. Gen(p)' = Gen(p) /\ Pending(p)' = cmd[p].todo
      BY <2>2, <3>1 DEF Gen, Pending
    <3>3. \A h \in Files \ {File(p)} : Reversal(p, h)' = Reversal(p, h)
      BY <1>0, <3>1, <3>2 DEF Reversal, Cmds
    <3>4. Reversal(p, File(p))' = "Noop"
      <4>1. cmd'[p].plan[File(p)'] = "KeepBoth"
        BY <1>0, <1>2, <2>2, <3>1 DEF Cmds
      <4>. QED
        BY <4>1 DEF Reversal
    <3>5. \A h \in Files \ Pending(p)' :
              Settled(orig[h], Gen(p).before[h], Gen(p).pre[h], Gen(p).snap[h], Reversal(p, h))'
      <4>. TAKE h \in Files \ Pending(p)'
      <4>1. CASE h = File(p)
        <5>1. orig'[h] = Gen(p)'.before[h]
          BY <1>2, <2>1, <3>2, <4>1 DEF RunSettled
        <5>2. Reversal(p, h)' = "Noop"
          BY <2>2, <3>4, <4>1
        <5>. QED
          BY <5>1, <5>2 DEF Settled
      <4>2. CASE h # File(p)
        BY <1>2, <2>1, <3>2, <3>3, <4>2 DEF RunSettled
      <4>. QED
        BY <4>1, <4>2
    <3>. QED
      BY <1>2, <2>1, <2>2, <3>1, <3>2, <3>5 DEF RunSettled
  <2>. QED
    BY <2>4, <2>5
<1>4. CASE WriteOrig(p)
  <2>1. /\ cmd[p].pc = "merge" /\ cmd'[p].pc = "reingest" /\ cmd'[p].plan = cmd[p].plan /\ cmd'[p].gen = cmd[p].gen
        /\ cmd'[p].todo = cmd[p].todo /\ UNCHANGED gens /\ orig' = [orig EXCEPT ![File(p)] = MergedFile(p)]
    BY <1>0, <1>4 DEF WriteOrig, Goto, At, Cmds
  <2>2. Gen(p)' = Gen(p) /\ Pending(p)' = cmd[p].todo /\ Pending(p) = cmd[p].todo
    BY <2>1 DEF Gen, Pending
  <2>3. \A h \in Files : Reversal(p, h)' = Reversal(p, h)
    BY <2>1, <2>2 DEF Reversal
  <2>4. File(p) \notin cmd[p].todo /\ cmd[p].plan[File(p)] \in {"Union", "New"} /\ Gen(p).snap[File(p)] # None
    BY <1>0, <1>1, <2>1 DEF StillThere, PlanFits, StepPlans, Present
  <2>5. Reversal(p, File(p)) \in {"RestoreOrig", "RemoveOrig"}
    BY <2>4 DEF Reversal, ReversalForPreimage
  <2>6. Text(MergedFile(p)) \subseteq Text(Gen(p).before[File(p)]) \cup Text(Gen(p).snap[File(p)])
    <3>1. orig[File(p)] = Gen(p).before[File(p)]
      BY <1>2, <2>1 DEF RunSettled
    <3>. QED
      BY <2>4, <3>1 DEF MergedFile, Merged, SessionMerge, Bytes, Text
  <2>7. \A h \in Files \ Pending(p)' :
              Settled(orig[h], Gen(p).before[h], Gen(p).pre[h], Gen(p).snap[h], Reversal(p, h))'
    <3>. TAKE h \in Files \ Pending(p)'
    <3>1. Settled(orig[h], Gen(p).before[h], Gen(p).pre[h], Gen(p).snap[h], Reversal(p, h))
      BY <1>2, <2>2 DEF RunSettled
    <3>2. CASE h = File(p)
      <4>1. orig'[h] = MergedFile(p)
        BY <1>0, <1>2, <2>1, <3>2 DEF Directory
      <4>. QED
        BY <2>2, <2>3, <2>5, <2>6, <3>1, <3>2, <4>1 DEF Settled
    <3>3. CASE h # File(p)
      <4>1. orig'[h] = orig[h]
        BY <1>0, <2>1, <3>3 DEF Directory
      <4>. QED
        BY <2>2, <2>3, <3>1, <4>1
    <3>. QED
      BY <3>2, <3>3
  <2>8. \A h \in Pending(p)' : orig'[h] = Gen(p)'.before[h]
    <3>1. \A h \in cmd[p].todo : orig'[h] = orig[h]
      BY <1>0, <2>1, <2>4 DEF Directory, Cmds
    <3>. QED
      BY <1>2, <2>2, <3>1 DEF RunSettled
  <2>. QED
    BY <1>2, <2>1, <2>2, <2>7, <2>8 DEF RunSettled
<1>5. CASE QuarantineReuse(p)
  <2>1. /\ UNCHANGED orig /\ cmd'[p].plan = cmd[p].plan /\ cmd'[p].gen = cmd[p].gen /\ cmd'[p].todo = cmd[p].todo
        /\ cmd[p].pc = "quarantine" /\ cmd'[p].pc = "gate"
    BY <1>0, <1>5 DEF QuarantineReuse, Goto, At, Cmds
  <2>2. /\ gens'[Latest].before = gens[Latest].before /\ gens'[Latest].snap = gens[Latest].snap
        /\ gens'[Latest].pre = gens[Latest].pre /\ gens'[Latest].undone = gens[Latest].undone
        /\ gens'[Latest].manifest = gens[Latest].manifest
    BY <1>0, <1>2, <1>5 DEF QuarantineReuse, Generations, Latest
  <2>3. Pending(p)' = Pending(p)
    BY <2>1 DEF Pending
  <2>. QED
    BY <1>1, <2>1, <2>2, <2>3, StaysSettled
<1>6. CASE ReingestOneFile(p, "reingest", "gate") \/ FinishDelete(p)
  <2>1. /\ UNCHANGED <<orig, gens>> /\ cmd'[p].plan = cmd[p].plan /\ cmd'[p].gen = cmd[p].gen /\ cmd'[p].todo = cmd[p].todo
        /\ cmd[p].pc \in {"reingest", "gate", "unlink"} /\ cmd'[p].pc \in {"gate", "unlink", "entry"}
    BY <1>0, <1>6 DEF ReingestOneFile, CutShort, Leave, Idle, InRun, Running, FinishDelete, Goto, At, Cmds
  <2>2. Pending(p)' = Pending(p)
    BY <2>1 DEF Pending
  <2>. QED
    BY <1>1, <2>1, <2>2, StaysSettled
<1>. QED
  BY <1>3, <1>4, <1>5, <1>6

LEMMA MemorySettled ==
    ASSUME BaseInv, TypeInv', SettledInv, NEW p \in Procs, InRun(p)',
           RestoreMemory(p) \/ PlaceRead(p) \/ PlaceWrite(p) \/ Relocate(p) \/ Prune(p) \/ WriteManifest(p)
    PROVE  RunSettled(p)'
<1>0. /\ cmd \in [Procs -> Cmds] /\ cmd[p] \in Cmds
      /\ gens \in Seq(Generations) /\ orig \in Directory
  BY HandFacts DEF BaseInv, TypeInv
<1>1. InRun(p)
  BY DEF RestoreMemory, PlaceRead, PlaceWrite, Relocate, Prune, WriteManifest, At, Running, InRun
<1>2. /\ Latest \in 1..Latest /\ gens[Latest] \in Generations /\ cmd[p].gen = Latest /\ Gen(p) = gens[Latest]
      /\ RunSettled(p)
  BY <1>0, <1>1, HandFacts DEF SettledInv
<1>3. /\ UNCHANGED orig /\ cmd'[p].plan = cmd[p].plan /\ cmd'[p].gen = cmd[p].gen /\ cmd'[p].todo = cmd[p].todo
      /\ cmd[p].pc \in {"memory", "place", "put", "putbeside", "entry", "manifest"}
      /\ cmd'[p].pc \in {"place", "put", "putbeside", "entry", "manifest", "clear"}
      /\ cmd'[p].pc = "manifest" => cmd[p].todo = {}
      /\ cmd'[p].pc = "clear" => cmd[p].pc = "manifest"
  <2>1. CASE RestoreMemory(p) \/ PlaceWrite(p)
    BY <1>0, <2>1 DEF RestoreMemory, PlaceWrite, Goto, At, Cmds, disk
  <2>2. CASE PlaceRead(p)
    BY <2>2, PlaceParts DEF PlaceTaken
  <2>3. CASE Relocate(p)
    BY <1>0, <2>3 DEF Relocate, Goto, At, Cmds
  <2>4. CASE Prune(p) \/ WriteManifest(p)
    BY <1>0, <2>4 DEF Prune, WriteManifest, Goto, At, Cmds
  <2>. QED
    BY <2>1, <2>2, <2>3, <2>4
<1>4. /\ gens'[Latest].before = gens[Latest].before /\ gens'[Latest].snap = gens[Latest].snap
      /\ gens'[Latest].pre = gens[Latest].pre /\ gens'[Latest].undone = gens[Latest].undone
      /\ cmd'[p].pc # "clear" => gens'[Latest].manifest = gens[Latest].manifest
  <2>1. CASE RestoreMemory(p) \/ PlaceRead(p) \/ PlaceWrite(p) \/ Prune(p)
    BY <2>1 DEF RestoreMemory, PlaceRead, PlaceWrite, Prune, disk
  <2>2. CASE Relocate(p)
    BY <1>0, <1>2, <2>2 DEF Relocate, Generations, Latest
  <2>3. CASE WriteManifest(p)
    <3>1. cmd'[p].pc = "clear"
      BY <1>0, <2>3 DEF WriteManifest, Goto, Cmds
    <3>. QED
      BY <1>0, <1>2, <2>3, <3>1 DEF WriteManifest, Generations, Latest
  <2>. QED
    BY <2>1, <2>2, <2>3
<1>5. Pending(p)' = Pending(p)
  BY <1>3 DEF Pending
<1>6. cmd'[p].pc \in {"manifest", "clear"} => cmd'[p].todo = {}
  BY <1>2, <1>3 DEF RunSettled
<1>. QED
  BY <1>1, <1>3, <1>4, <1>5, <1>6, StaysSettled

LEMMA RunsSettled ==
    ASSUME BaseInv, TypeInv', SettledInv, NEW p \in Procs, ReconcileSteps(p) \/ UndoSteps(p) \/ Crash(p),
           NEW q \in Procs, InRun(q)'
    PROVE  RunSettled(q)'
<1>1. CASE q # p
  BY <1>1, OthersSettled
<1>2. CASE q = p
  <2>1. \/ SnapshotUnderlay(p) \/ SetReconciling(p, "mark", TRUE, "plan") \/ PlanEntries(p) \/ Entry(p)
        \/ StashPreimage(p) \/ WriteOrig(p) \/ ReingestOneFile(p, "reingest", "gate")
        \/ QuarantineReuse(p) \/ FinishDelete(p)
        \/ RestoreMemory(p) \/ PlaceRead(p) \/ PlaceWrite(p) \/ Relocate(p) \/ Prune(p) \/ WriteManifest(p)
    <3>0. cmd \in [Procs -> Cmds] /\ cmd'[p].pc \in Running
      BY <1>2 DEF InRun, BaseInv, TypeInv
    <3>1. CASE CheckPreconditions(p) \/ Preview(p) \/ SetReconciling(p, "clear", FALSE, "idle") \/ Crash(p)
      BY <3>0, <3>1, HandFacts DEF CheckPreconditions, Preview, SetReconciling, Crash, CutShort, Leave, Goto, Idle,
                                   Running, Cmds
    <3>2. CASE \E k \in Commands : Begin(p, k)
      <4>1. cmd'[p].pc = "check"
        BY <3>2, HandFacts DEF Begin, Cmds
      <4>. QED
        BY <3>0, <4>1 DEF Running
    <3>3. CASE UndoSteps(p) /\ ~ \E k \in Commands : Begin(p, k)
      <4>1. InUndo(p) \/ UndoCheck(p)
        BY <3>3 DEF UndoSteps, Commands, InUndo, Undoing, SetReconciling, AbortIfMounted, Reverse, ReingestOneFile,
                    RestoreUnderlay, WriteUndone, At
      <4>2. CASE UndoCheck(p)
        BY <3>0, <4>2, HandFacts DEF UndoCheck, Leave, Idle, Running, Cmds
      <4>3. CASE InUndo(p)
        <5>1. cmd'[p].pc \in Undoing \cup {"idle"}
          <6>1. ~Enters(p) /\ ~Starts(p)
            BY <4>3, NoneAssumption DEF Enters, Starts, BaseInv, RunInv, HoldsLock, InUndo, Undoing, Idle
          <6>. QED
            BY <4>3, <6>1, CmdSteps DEF GoesOn, Leaves, Stays, InUndo, Idle, Undoing, Running
        <5>. QED
          BY <3>0, <5>1 DEF Running, Undoing
      <4>. QED
        BY <4>1, <4>2, <4>3
    <3>. QED
      BY <3>1, <3>2, <3>3 DEF ReconcileSteps, UndoSteps, Commands
  <2>. QED
    BY <1>2, <2>1, StartSettled, MergeSettled, MemorySettled
<1>. QED
  BY <1>1, <1>2

\* What undo takes back of one file.
Reversed(p, f) ==
    LET class == Gen(p).manifest[f]
    IN /\ f \in Files /\ f \in cmd[p].todo
       /\ cmd[p].pc = "reverse" /\ InUndo(p)
       /\ orig' = CASE class = "RestoreOrig" -> [orig EXCEPT ![f] = Gen(p).pre[f]]
                    [] class = "RemoveOrig"  -> [orig EXCEPT ![f] = None]
                    [] OTHER                 -> orig
       /\ gens' \in {gens, [gens EXCEPT ![Latest].quar[f] = None]}
       /\ cmd'[p].todo = cmd[p].todo \ {f} /\ cmd'[p].file = f /\ cmd'[p].gen = cmd[p].gen
       /\ cmd'[p].pc = IF class \in {"RestoreOrig", "RemoveOrig"} THEN "rebuild" ELSE "reverse"
       /\ class = "RemoveQuarantine" => gens' = [gens EXCEPT ![Latest].quar[f] = None]
       /\ class # "RemoveQuarantine" => gens' = gens
       /\ UNCHANGED <<load, backing, live, hollow, target, beside, marker, mounted, lock, ghosts>>

LEMMA ReverseParts ==
    ASSUME BaseInv, NEW p \in Procs, Reverse(p)
    PROVE  \E f \in Files : Reversed(p, f)
<1>0. /\ cmd \in [Procs -> Cmds] /\ cmd[p] \in Cmds /\ cmd[p].pc = "reverse" /\ InUndo(p) /\ cmd[p].gen = Latest
  BY HandFacts DEF Reverse, At, InUndo, Undoing
<1>1. PICK f \in cmd[p].todo :
          LET class == Gen(p).manifest[f]
          IN /\ orig' = CASE class = "RestoreOrig" -> [orig EXCEPT ![f] = Gen(p).pre[f]]
                          [] class = "RemoveOrig"  -> [orig EXCEPT ![f] = None]
                          [] OTHER                 -> orig
             /\ gens' = IF class = "RemoveQuarantine"
                        THEN [gens EXCEPT ![cmd[p].gen].quar[f] = None] ELSE gens
             /\ cmd' = [cmd EXCEPT ![p].todo = @ \ {f}, ![p].file = f,
                          ![p].pc = IF class \in {"RestoreOrig", "RemoveOrig"} THEN "rebuild" ELSE "reverse"]
  BY DEF Reverse
<1>2. /\ f \in Files /\ cmd'[p].todo = cmd[p].todo \ {f} /\ cmd'[p].file = f /\ cmd'[p].gen = cmd[p].gen
      /\ cmd'[p].pc = IF Gen(p).manifest[f] \in {"RestoreOrig", "RemoveOrig"} THEN "rebuild" ELSE "reverse"
  BY <1>0, <1>1 DEF Cmds
<1>3. UNCHANGED <<load, backing, live, hollow, target, beside, marker, mounted, lock, ghosts>>
  BY DEF Reverse, aside
<1>. QED
  BY <1>0, <1>1, <1>2, <1>3 DEF Reversed

\* Two steps change orig.
LEMMA OrigSteps ==
    ASSUME NEW p \in Procs, ReconcileSteps(p) \/ UndoSteps(p) \/ Crash(p)
    PROVE  UNCHANGED orig \/ WriteOrig(p) \/ Reverse(p)
<1>1. ASSUME \/ \E k \in Commands : Begin(p, k)
             \/ CheckPreconditions(p) \/ SnapshotUnderlay(p) \/ Preview(p) \/ PlanEntries(p) \/ Entry(p)
             \/ StashPreimage(p) \/ QuarantineReuse(p) \/ FinishDelete(p) \/ RestoreMemory(p)
             \/ PlaceRead(p) \/ PlaceWrite(p) \/ Relocate(p) \/ Prune(p) \/ WriteManifest(p)
      PROVE  UNCHANGED orig
  BY <1>1 DEF Begin, CheckPreconditions, SnapshotUnderlay, Preview, PlanEntries, Entry, StashPreimage, QuarantineReuse,
              FinishDelete, RestoreMemory, PlaceRead, PlaceWrite, Relocate, Prune, WriteManifest, disk
<1>2. ASSUME \/ UndoCheck(p) \/ AbortIfMounted(p) \/ RestoreUnderlay(p) \/ WriteUndone(p) \/ Crash(p)
             \/ \E from, to \in Pcs, on \in BOOLEAN : SetReconciling(p, from, on, to)
             \/ \E from, to \in Pcs : ReingestOneFile(p, from, to)
      PROVE  UNCHANGED orig
  BY <1>2 DEF UndoCheck, AbortIfMounted, RestoreUnderlay, WriteUndone, Crash, SetReconciling, ReingestOneFile, disk
<1>. QED
  BY <1>1, <1>2, Steps

\* The manifest of the latest generation keeps saying what can be taken back.
LEMMA ManifestKept ==
    ASSUME BaseInv, TypeInv', SettledInv, NEW p \in Procs, ReconcileSteps(p) \/ UndoSteps(p) \/ Crash(p),
           Latest' # 0
    PROVE  ManifestRight(gens[Latest])'
<1>0. /\ cmd \in [Procs -> Cmds] /\ cmd[p] \in Cmds /\ orig \in Directory /\ gens \in Seq(Generations) /\ Latest \in Nat
      /\ Latest = Len(gens) /\ UNCHANGED load
  BY CmdSteps DEF BaseInv, TypeInv, Latest
<1>1. CASE GenAdded
  BY <1>1 DEF GenAdded, ManifestRight
<1>2. CASE WriteOrig(p)
  <2>1. InRun(p) /\ cmd[p].pc # "clear" /\ UNCHANGED gens /\ Latest' = Latest
    BY <1>2 DEF WriteOrig, At, InRun, Running, Latest
  <2>2. gens[Latest].manifest = None
    BY <2>1, HandFacts DEF SettledInv, RunSettled
  <2>. QED
    BY <2>1, <2>2 DEF ManifestRight
<1>3. CASE WriteManifest(p)
  <2>1. InRun(p) /\ cmd[p].pc = "manifest" /\ UNCHANGED orig
    BY <1>3 DEF WriteManifest, At, InRun, Running
  <2>2. /\ RunSettled(p) /\ cmd[p].gen = Latest /\ Gen(p) = gens[Latest] /\ Latest \in 1..Latest
        /\ gens[Latest] \in Generations
    BY <2>1, HandFacts DEF SettledInv
  <2>3. gens[Latest].manifest = None /\ Pending(p) = {}
    BY <2>1, <2>2 DEF RunSettled, Pending
  <2>4. CASE UNCHANGED gens
    BY <2>3, <2>4 DEF ManifestRight, Latest
  <2> DEFINE m == [f \in Files |-> IF cmd[p].plan[f] = None THEN "Noop" ELSE Reversal(p, f)]
  <2>5. CASE gens' = [gens EXCEPT ![cmd[p].gen].manifest = m]
    <3>1. \A f \in Files : m[f] = Reversal(p, f)
      <4>1. \A f \in Files : cmd[p].plan[f] = None => Reversal(p, f) = "Noop"
        BY NoneAssumption DEF Reversal, EntryPlans
      <4>. QED
        BY <4>1
    <3>. HIDE DEF m
    <3>2. /\ Latest' = Latest /\ gens'[Latest].manifest = m /\ gens'[Latest].before = gens[Latest].before
          /\ gens'[Latest].pre = gens[Latest].pre /\ gens'[Latest].snap = gens[Latest].snap
      BY <1>0, <2>2, <2>5 DEF Latest, Generations
    <3>3. \A f \in Files : Settled(orig[f], gens[Latest].before[f], gens[Latest].pre[f], gens[Latest].snap[f], m[f])
      BY <2>2, <2>3, <3>1 DEF RunSettled
    <3>. QED
      BY <2>1, <3>2, <3>3 DEF ManifestRight
  <2>. QED
    BY <1>3, <2>4, <2>5 DEF WriteManifest
<1>4. CASE Reverse(p)
  <2>1. PICK f \in Files : Reversed(p, f)
    BY <1>4, ReverseParts
  <2>2. Gen(p) = gens[Latest] /\ Gen(p) \in Generations /\ Latest \in 1..Latest
    BY <2>1, HandFacts DEF Reversed
  <2>3. /\ Latest' = Latest /\ gens'[Latest].manifest = gens[Latest].manifest
        /\ gens'[Latest].before = gens[Latest].before /\ gens'[Latest].pre = gens[Latest].pre
        /\ gens'[Latest].snap = gens[Latest].snap
    <3>1. CASE UNCHANGED gens
      BY <3>1 DEF Latest
    <3>2. CASE gens' = [gens EXCEPT ![Latest].quar[f] = None]
      BY <1>0, <2>2, <3>2 DEF Latest, Generations
    <3>. QED
      BY <2>1, <3>1, <3>2 DEF Reversed
  <2>4. ManifestRight(gens[Latest]) /\ gens[Latest].manifest # None
    BY <1>0, <2>1, <2>2 DEF SettledInv, BaseInv, HandInv, MemoryKept, Reversed
  <2>5. \A h \in Files : Settled(orig'[h], gens[Latest].before[h], gens[Latest].pre[h], gens[Latest].snap[h],
                                 gens[Latest].manifest[h])
    <3>. TAKE h \in Files
    <3>1. Settled(orig[h], gens[Latest].before[h], gens[Latest].pre[h], gens[Latest].snap[h], gens[Latest].manifest[h])
      BY <2>4 DEF ManifestRight
    <3>2. CASE h # f
      <4>1. orig'[h] = orig[h]
        BY <1>0, <2>1, <3>2 DEF Reversed, Directory
      <4>. QED
        BY <3>1, <4>1
    <3>3. CASE h = f
      BY <1>0, <2>1, <2>2, <3>1, <3>3 DEF Reversed, Settled, Text, Directory
    <3>. QED
      BY <3>2, <3>3
  <2>. QED
    BY <2>3, <2>5 DEF ManifestRight
<1>5. CASE ~GenAdded /\ ~WriteOrig(p) /\ ~WriteManifest(p) /\ ~Reverse(p)
  <2>1. UNCHANGED orig
    BY <1>5, OrigSteps
  <2>2. CASE UNCHANGED gens
    BY <2>1, <2>2 DEF ManifestRight, SettledInv, Latest
  <2>3. CASE StashPreimage(p) \/ QuarantineReuse(p) \/ Relocate(p)
    <3>1. InRun(p) /\ cmd[p].pc # "clear"
      BY <2>3 DEF StashPreimage, QuarantineReuse, Relocate, At, InRun, Running
    <3>2. gens[Latest].manifest = None /\ gens[Latest] \in Generations /\ cmd[p].gen = Latest /\ Latest \in 1..Latest
      BY <3>1, HandFacts DEF SettledInv, RunSettled
    <3>3. Latest' = Latest /\ gens'[Latest].manifest = None
      BY <1>0, <2>3, <3>2 DEF StashPreimage, QuarantineReuse, Relocate, Latest, Generations
    <3>. QED
      BY <3>3 DEF ManifestRight
  <2>4. CASE WriteUndone(p)
    <3>1. InUndo(p)
      BY <2>4 DEF WriteUndone, At, InUndo, Undoing
    <3>2. gens[Latest] \in Generations /\ cmd[p].gen = Latest /\ Latest \in 1..Latest
      BY <3>1, HandFacts
    <3>3. /\ Latest' = Latest /\ gens'[Latest].manifest = gens[Latest].manifest
          /\ gens'[Latest].before = gens[Latest].before /\ gens'[Latest].pre = gens[Latest].pre
          /\ gens'[Latest].snap = gens[Latest].snap
      BY <1>0, <2>4, <3>2 DEF WriteUndone, Latest, Generations
    <3>. QED
      BY <2>1, <3>2, <3>3 DEF ManifestRight, SettledInv
  <2>. QED
    BY <1>5, <2>2, <2>3, <2>4, GenSteps
<1>. QED
  BY <1>1, <1>2, <1>3, <1>4, <1>5

LEMMA InitSettled == Init => SettledInv
<1>. SUFFICES ASSUME Init PROVE SettledInv
  OBVIOUS
<1>1. Latest = 0 /\ \A p \in Procs : cmd[p].pc = "idle"
  BY EmptySeq DEF Init, Latest, Idle
<1>. QED
  BY <1>1 DEF SettledInv, InRun, Running

LEMMA NextSettled ==
    ASSUME BaseInv, TypeInv', SettledInv, [Next]_vars
    PROVE  SettledInv'
<1>1. CASE UNCHANGED <<load, orig, gens, cmd>>
  <2>1. \A p \in Procs : Gen(p)' = Gen(p) /\ File(p)' = File(p) /\ Pending(p)' = Pending(p)
    BY <1>1 DEF Gen, File, Pending
  <2>2. \A p \in Procs : \A f \in Files : Reversal(p, f)' = Reversal(p, f)
    BY <1>1, <2>1 DEF Reversal
  <2>3. \A p \in Procs : RunSettled(p) => RunSettled(p)'
    BY <1>1, <2>1, <2>2 DEF RunSettled
  <2>. QED
    BY <1>1, <2>3 DEF SettledInv, ManifestRight, InRun, Latest
<1>2. CASE Mount \/ Unmount \/ \E f \in Files : Write(f) \/ Link(f)
  BY <1>1, <1>2, OutsideHand
<1>3. CASE \E p \in Procs : ReconcileSteps(p) \/ UndoSteps(p) \/ Crash(p)
  BY <1>3, ManifestKept, RunsSettled DEF SettledInv
<1>4. CASE UNCHANGED vars
  BY <1>1, <1>4 DEF vars, disk
<1>. QED
  BY <1>2, <1>3, <1>4 DEF Next

-----------------------------------------------------------------------------
(* Undo gives back the project                                              *)

\* Where undo is called, nobody writes to the underlay while it runs, nor to the
\* target of the memory link.
UndoUndisturbed == \A w \in Workloads : "undo" \in w.commands => w.alone /\ "late" \notin w.writes /\ "shared" \notin w.writes

LEMMA UndoFacts ==
    ASSUME BaseInv, UndoUndisturbed, NEW p \in Procs, InUndo(p)
    PROVE  /\ UndoAlone /\ \A q \in Procs : q # p => cmd[q] = Idle
           /\ Deleting(p) /\ ~InReach /\ "shared" \notin load.writes /\ load.alone
           /\ Gen(p) = gens[Latest] /\ Gen(p) \in Generations /\ Latest \in 1..Latest /\ cmd[p].gen = Latest
           /\ cmd[p].kind = "undo" /\ cmd[p].pc \in Undoing
<1>1. UndoAlone
  BY DEF UndoUndisturbed, UndoAlone
<1>2. cmd[p].kind = "undo" /\ "undo" \in load.commands /\ load \in Workloads
  BY DEF BaseInv, TypeInv, RunInv, KindFits, InUndo, Undoing
<1>3. "late" \notin load.writes /\ "shared" \notin load.writes /\ load.alone
  BY <1>2 DEF UndoUndisturbed
<1>4. Deleting(p) /\ ~InReach
  BY <1>2, <1>3 DEF Deleting, InReach
<1>. QED
  BY <1>1, <1>2, <1>3, <1>4, UndoIsAlone, HandFacts DEF InUndo

\* Mounts and writers leave what the snapshot has where it is.
LEMMA OutsideUndo ==
    ASSUME BaseInv, MountInv, BaseInv', UndoUndisturbed, NEW p \in Procs, InUndo(p),
           \/ Mount \/ Unmount \/ \E f \in Files : Write(f) \/ Link(f)
    PROVE  UNCHANGED <<live, hollow>> /\ \A f \in Files : Underlay(f)' = Underlay(f)
<1>0. ~InReach /\ "shared" \notin load.writes /\ UNCHANGED load /\ Memory' = Memory /\ live \in Directory /\ target \in Directory
  BY UndoFacts, OutsideHand, PlansSame DEF BaseInv, TypeInv
<1>1. CASE Mount \/ Unmount
  BY <1>0, <1>1 DEF Mount, Unmount, disk, aside, Underlay
<1>2. CASE \E f \in Files : Link(f)
  BY <1>0, <1>2 DEF Link
<1>3. ASSUME NEW f \in Files, Write(f)
      PROVE  UNCHANGED <<live, hollow>> /\ \A h \in Files : Underlay(h)' = Underlay(h)
  <2>1. UNCHANGED <<live, hollow>>
    BY <1>0, <1>3 DEF Write, aside
  <2>2. UNCHANGED target \/ mounted
    BY <1>0, <1>3 DEF Write, aside
  <2>3. mounted => hollow = {}
    BY DEF MountInv, Fallthrough
  <2>. QED
    BY <1>0, <2>1, <2>2, <2>3 DEF Underlay
<1>. QED
  BY <1>1, <1>2, <1>3

LEMMA UndoStays ==
    ASSUME BaseInv, NEW p \in Procs, UndoKept(p), UNCHANGED load,
           Gen(p)'.snap = Gen(p).snap, Gen(p)'.before = Gen(p).before,
           \A f \in Files : Underlay(f)' = Underlay(f),
           cmd'[p].pc \in {"unset", "done"} <=> cmd[p].pc \in {"unset", "done"},
           cmd'[p].pc \in {"unset", "done"} => UNCHANGED orig,
           cmd'[p].pc \in {"reverse", "rebuild"} =>
              \A f \in Files \ cmd'[p].todo : orig'[f] = Gen(p).before[f]
    PROVE  UndoKept(p)'
<1>1. Present(Gen(p).snap)' = Present(Gen(p).snap) /\ Present(Gen(p).snap) \subseteq Files
  BY DEF Present
<1>2. \A f \in Present(Gen(p).snap)' :
          IF cmd'[p].pc \in {"unset", "done"}
          THEN Underlay(f)' = Gen(p)'.snap[f]
          ELSE Underlay(f)' \in {None, Gen(p)'.snap[f]}
  <2>. TAKE f \in Present(Gen(p).snap)'
  <2>1. Underlay(f)' = Underlay(f)
    BY <1>1
  <2>2. CASE cmd'[p].pc \in {"unset", "done"}
    BY <1>1, <2>1, <2>2 DEF UndoKept
  <2>3. CASE ~(cmd'[p].pc \in {"unset", "done"})
    <3>1. Underlay(f) \in {None, Gen(p).snap[f]}
      BY <1>1, <2>3 DEF UndoKept
    <3>. QED
      BY <2>1, <2>3, <3>1
  <2>. QED
    BY <2>2, <2>3
<1>. QED
  BY <1>2 DEF UndoKept

LEMMA UndoStepKept ==
    ASSUME BaseInv, MountInv, BaseInv', SettledInv, UndoUndisturbed, NEW p \in Procs, ReconcileSteps(p) \/ UndoSteps(p) \/ Crash(p),
           InUndo(p) => UndoKept(p), InUndo(p)'
    PROVE  UndoKept(p)'
<1>0. /\ cmd \in [Procs -> Cmds] /\ cmd[p] \in Cmds /\ live \in Directory /\ target \in Directory /\ orig \in Directory
      /\ gens \in Seq(Generations) /\ Latest = Len(gens) /\ UNCHANGED load /\ Memory' = Memory
  BY HandFacts, CmdSteps, PlansSame DEF BaseInv, TypeInv, Latest
<1>1. CASE ~InUndo(p)
  <2>1. UndoCheck(p) /\ cmd'[p].pc = "set" /\ cmd'[p].gen = Latest /\ UNCHANGED <<live, target, hollow, gens>>
    <3>1. Enters(p)
      <4>1. cmd[p].pc \notin Undoing /\ cmd'[p].pc \in Undoing
        BY <1>1 DEF InUndo
      <4>2. GoesOn(p) \/ Leaves(p) \/ Starts(p) \/ Enters(p)
        BY CmdSteps DEF BaseInv
      <4>. QED
        BY <4>1, <4>2 DEF GoesOn, Stays, Leaves, Starts, Idle, Undoing, Running
    <3>2. SnapshotUnderlay(p) \/ UndoCheck(p)
      BY <3>1, EnterSteps DEF Enters
    <3>3. ~SnapshotUnderlay(p)
      <4>1. CASE SnapshotUnderlay(p)
        <5>1. cmd'[p].pc \in {"idle", "mark", "preview"}
          BY <1>0, <4>1 DEF SnapshotUnderlay, Leave, Idle, Cmds
        <5>. QED
          BY <5>1 DEF InUndo, Undoing
      <4>. QED
        BY <4>1
    <3>. QED
      BY <1>0, <3>2, <3>3 DEF UndoCheck, Leave, Idle, InUndo, Undoing, Cmds, aside
  <2>2. \A f \in Present(gens[Latest].snap) : Underlay(f) \in {None, gens[Latest].snap[f]}
    <3>1. \A f \in Present(gens[Latest].snap) : LiveUnchanged(f, gens[Latest].snap)
      BY <1>0, <2>1 DEF UndoCheck, Leave, Idle, Cmds
    <3>2. \A f \in Files : mounted => Underlay(f) = None
      BY DEF MountInv, Fallthrough, Underlay, Present
    <3>. QED
      BY <3>1, <3>2 DEF LiveUnchanged, LiveText, Present
  <2>3. Gen(p)' = gens[Latest]
    BY <2>1 DEF Gen
  <2>4. \A f \in Files : Underlay(f)' = Underlay(f)
    BY <1>0, <2>1 DEF Underlay
  <2>5. \A f \in Present(gens[Latest].snap) : Underlay(f)' \in {None, gens[Latest].snap[f]}
    BY <2>2, <2>4 DEF Present
  <2>. QED
    BY <2>1, <2>3, <2>5 DEF UndoKept, Present
<1>2. CASE InUndo(p)
  <2>0. /\ Gen(p) = gens[Latest] /\ Gen(p) \in Generations /\ Latest \in 1..Latest /\ cmd[p].gen = Latest
        /\ cmd[p].kind = "undo" /\ cmd[p].pc \in Undoing /\ UndoKept(p) /\ cmd'[p].pc \in Undoing
    BY <1>2, UndoFacts DEF InUndo
  <2>1. CASE SetReconciling(p, "set", TRUE, "recheck") \/ SetReconciling(p, "unset", FALSE, "done")
    <3>1. /\ UNCHANGED <<live, target, hollow, gens, orig>> /\ cmd'[p].gen = cmd[p].gen
          /\ <<cmd[p].pc, cmd'[p].pc>> \in {<<"set", "recheck">>, <<"unset", "done">>}
      BY <1>0, <2>1 DEF SetReconciling, Goto, At, Cmds, aside
    <3>2. Gen(p)' = Gen(p) /\ \A f \in Files : Underlay(f)' = Underlay(f)
      BY <1>0, <3>1 DEF Gen, Underlay
    <3>. QED
      BY <1>0, <2>0, <3>1, <3>2, UndoStays
  <2>2. CASE AbortIfMounted(p) \/ ReingestOneFile(p, "rebuild", "reverse")
    <3>0. cmd[p].pc = "rebuild" => ~mounted
      BY DEF MountInv
    <3>1. UNCHANGED <<live, target, hollow, gens, orig>> /\ cmd'[p].gen = cmd[p].gen
      BY <1>0, <2>0, <2>2, <3>0 DEF At, AbortIfMounted, ReingestOneFile, Goto, Leave, Idle, Undoing, Cmds, aside
    <3>2. \/ cmd[p].pc = "recheck" /\ cmd'[p].pc = "reverse" /\ cmd'[p].todo = Files
          \/ cmd[p].pc = "rebuild" /\ cmd'[p].pc = "reverse" /\ cmd'[p].todo = cmd[p].todo
      BY <1>0, <2>0, <2>2, <3>0 DEF AbortIfMounted, ReingestOneFile, Goto, Leave, Idle, Undoing, Cmds, At
    <3>3. Gen(p)' = Gen(p) /\ \A f \in Files : Underlay(f)' = Underlay(f)
      BY <1>0, <3>1 DEF Gen, Underlay
    <3>4. \A f \in Files \ cmd'[p].todo : orig'[f] = Gen(p).before[f]
      BY <2>0, <3>1, <3>2 DEF UndoKept
    <3>. QED
      BY <1>0, <2>0, <3>1, <3>2, <3>3, <3>4, UndoStays
  <2>3. CASE Reverse(p)
    <3>1. PICK f \in Files : Reversed(p, f)
      BY <2>3, ReverseParts
    <3>2. /\ gens'[Latest].before = gens[Latest].before /\ gens'[Latest].snap = gens[Latest].snap
      BY <1>0, <2>0, <3>1 DEF Reversed, Generations
    <3>3. Gen(p)'.snap = Gen(p).snap /\ Gen(p)'.before = Gen(p).before
      BY <2>0, <3>1, <3>2 DEF Gen, Reversed
    <3>4. \A h \in Files : Underlay(h)' = Underlay(h)
      BY <1>0, <3>1 DEF Reversed, Underlay
    <3>5. ManifestRight(gens[Latest]) /\ gens[Latest].manifest # None
      BY <1>0, <1>2, <2>0 DEF SettledInv, BaseInv, HandInv, MemoryKept
    <3>6. orig'[f] = Gen(p).before[f]
      <4>1. Settled(orig[f], gens[Latest].before[f], gens[Latest].pre[f], gens[Latest].snap[f], gens[Latest].manifest[f])
        BY <3>5 DEF ManifestRight
      <4>. QED
        BY <1>0, <2>0, <3>1, <4>1 DEF Reversed, Settled, Directory
    <3>7. \A h \in Files \ cmd'[p].todo : orig'[h] = Gen(p).before[h]
      <4>1. \A h \in Files \ {f} : orig'[h] = orig[h]
        BY <1>0, <3>1 DEF Reversed, Directory
      <4>2. \A h \in Files \ cmd[p].todo : orig[h] = Gen(p).before[h]
        BY <2>0, <3>1 DEF Reversed, UndoKept
      <4>. QED
        BY <3>1, <3>6, <4>1, <4>2 DEF Reversed
    <3>8. cmd[p].pc = "reverse" /\ cmd'[p].pc \in {"reverse", "rebuild"}
      BY <3>1 DEF Reversed
    <3>. QED
      BY <1>0, <2>0, <3>3, <3>4, <3>7, <3>8, UndoStays
  <2>4. CASE RestoreUnderlay(p)
    <3>1. /\ cmd[p].pc = "reverse" /\ cmd[p].todo = {} /\ cmd'[p].pc = "unset" /\ cmd'[p].gen = cmd[p].gen
          /\ UNCHANGED <<orig, gens>>
      BY <1>0, <2>4 DEF RestoreUnderlay, Goto, At, Cmds
    <3>2. Gen(p)' = Gen(p)
      BY <3>1 DEF Gen
    <3>3. \A f \in Files : orig[f] = Gen(p).before[f]
      BY <2>0, <3>1 DEF UndoKept
    <3>4. orig = Gen(p).before
      BY <1>0, <2>0, <3>3 DEF Directory, Generations
    <3>0. ~mounted /\ \A f \in Files : LiveText(f) = Underlay(f)
      BY <3>1 DEF MountInv, LiveText
    <3>5. \A f \in Files : /\ live'[f] = IF LiveText(f) = None /\ f \notin Memory \cap hollow THEN Gen(p).snap[f] ELSE live[f]
                           /\ target'[f] = IF LiveText(f) = None /\ f \in Memory \cap hollow THEN Gen(p).snap[f] ELSE target[f]
      BY <2>4, <3>0 DEF RestoreUnderlay
    <3>6. \A f \in Files : f \in Memory \cap hollow <=> f \in (Memory \cap hollow)'
      BY <1>0, <2>4 DEF RestoreUnderlay
    <3>7. \A f \in Present(Gen(p).snap) : Underlay(f)' = Gen(p).snap[f]
      <4>. TAKE f \in Present(Gen(p).snap)
      <4>1. f \in Files /\ LiveText(f) \in {None, Gen(p).snap[f]}
        BY <2>0, <3>0, <3>1 DEF UndoKept, Present
      <4>2. CASE f \in Memory \cap hollow
        BY <3>0, <3>5, <3>6, <4>1, <4>2 DEF LiveText, Underlay
      <4>3. CASE f \notin Memory \cap hollow
        BY <3>0, <3>5, <3>6, <4>1, <4>3 DEF LiveText, Underlay
      <4>. QED
        BY <4>2, <4>3
    <3>8. Present(Gen(p).snap)' = Present(Gen(p).snap)
      BY <3>2 DEF Present
    <3>. QED
      BY <3>1, <3>2, <3>4, <3>7, <3>8 DEF UndoKept
  <2>5. CASE ~(\/ SetReconciling(p, "set", TRUE, "recheck") \/ SetReconciling(p, "unset", FALSE, "done")
               \/ AbortIfMounted(p) \/ ReingestOneFile(p, "rebuild", "reverse") \/ Reverse(p) \/ RestoreUnderlay(p))
    <3>1. WriteUndone(p) \/ Crash(p)
      <4>1. ~ReconcileSteps(p)
        <5>1. ~Begin(p, "reconcile") /\ ~Begin(p, "preview")
          BY <2>0 DEF Undoing, Begin, Idle
        <5>2. /\ ~CheckPreconditions(p) /\ ~SnapshotUnderlay(p) /\ ~Preview(p) /\ ~PlanEntries(p) /\ ~Entry(p)
              /\ ~SetReconciling(p, "mark", TRUE, "plan") /\ ~SetReconciling(p, "clear", FALSE, "idle")
              /\ ~StashPreimage(p) /\ ~WriteOrig(p) /\ ~ReingestOneFile(p, "reingest", "gate")
          BY <2>0 DEF Undoing, CheckPreconditions, SnapshotUnderlay, Preview, SetReconciling,
               ReingestOneFile, PlanEntries, Entry, StashPreimage, WriteOrig, At
        <5>3. /\ ~QuarantineReuse(p) /\ ~FinishDelete(p) /\ ~RestoreMemory(p) /\ ~PlaceRead(p) /\ ~PlaceWrite(p)
              /\ ~Relocate(p) /\ ~Prune(p) /\ ~WriteManifest(p)
          BY <2>0 DEF Undoing, QuarantineReuse, FinishDelete, RestoreMemory, PlaceRead, PlaceWrite, Relocate, Prune,
                      WriteManifest, At
        <5>. QED
          BY <5>1, <5>2, <5>3 DEF ReconcileSteps
      <4>2. ~Begin(p, "undo") /\ ~UndoCheck(p)
        BY <2>0 DEF Undoing, Begin, Idle, UndoCheck, At
      <4>. QED
        BY <2>5, <4>1, <4>2 DEF UndoSteps
    <3>2. cmd'[p].pc = "idle"
      BY <1>0, <3>1 DEF WriteUndone, Crash, CutShort, Leave, Idle, Cmds
    <3>. QED
      BY <2>0, <3>2 DEF Undoing
  <2>. QED
    BY <2>1, <2>2, <2>3, <2>4, <2>5
<1>. QED
  BY <1>1, <1>2

LEMMA NextUndo ==
    ASSUME BaseInv, MountInv, BaseInv', SettledInv, UndoInv, UndoUndisturbed, [Next]_vars
    PROVE  UndoInv'
<1>0. \A p \in Procs : InUndo(p) => UndoKept(p)
  BY DEF UndoInv
<1>. SUFFICES ASSUME NEW p \in Procs, InUndo(p)' PROVE UndoKept(p)'
  BY DEF UndoInv
<1>1. CASE /\ UNCHANGED <<load, cmd, orig, gens>>
           /\ InUndo(p) => \A f \in Files : Underlay(f)' = Underlay(f)
  <2>1. InUndo(p) /\ UndoKept(p) /\ Gen(p)' = Gen(p)
    BY <1>0, <1>1 DEF InUndo, Gen
  <2>. QED
    BY <1>1, <2>1, UndoStays DEF UndoKept
<1>2. CASE Mount \/ Unmount \/ \E f \in Files : Write(f) \/ Link(f)
  BY <1>1, <1>2, OutsideHand, OutsideUndo DEF BaseInv
<1>3. ASSUME NEW q \in Procs, ReconcileSteps(q) \/ UndoSteps(q) \/ Crash(q)
      PROVE  UndoKept(p)'
  <2>1. CASE q = p
    BY <1>0, <1>3, <2>1, UndoStepKept
  <2>2. CASE q # p
    <3>1. cmd'[p] = cmd[p] /\ InUndo(p) /\ UNCHANGED load
      BY <1>3, <2>2, CmdSteps DEF InUndo, BaseInv
    <3>2. UNCHANGED <<orig, live, gens, hollow, target>>
      BY <1>3, <2>2, <3>1, OutsideSteps DEF aside
    <3>3. Gen(p)' = Gen(p) /\ \A f \in Files : Underlay(f)' = Underlay(f)
      BY <3>1, <3>2, PlansSame DEF Gen, Underlay
    <3>. QED
      BY <1>0, <3>1, <3>2, <3>3, UndoStays DEF UndoKept
  <2>. QED
    BY <2>1, <2>2
<1>4. CASE UNCHANGED vars
  <2>1. UNCHANGED <<load, cmd, orig, gens, live, hollow, target>>
    BY <1>4 DEF vars, disk, aside
  <2>. QED
    BY <1>1, <2>1, PlansSame DEF Underlay
<1>. QED
  BY <1>2, <1>3, <1>4 DEF Next

LEMMA InitUndo == Init => UndoInv
<1>1. Init => \A p \in Procs : cmd[p].pc = "idle"
  BY DEF Init, Idle
<1>. QED
  BY <1>1 DEF UndoInv, InUndo, Undoing

\* reconcile_undo, when it reports that it is done, has given back orig as it
\* was before the run, and every file of the snapshot to the underlay: whatever
\* was cut short before, and whatever the run merged, set aside or placed.
THEOREM UndoGivesBack ==
    ASSUME UndoUndisturbed PROVE Spec => UndoRestores
<1> DEFINE Inv == BaseInv /\ MountInv /\ SettledInv /\ UndoInv
<1>u. UndoAlone
  BY DEF UndoUndisturbed, UndoAlone
<1>1. Init => Inv
  BY InitBase, InitMount, InitSettled, InitUndo
<1>2. Inv /\ [Next]_vars => Inv'
  <2>. SUFFICES ASSUME BaseInv, MountInv, SettledInv, UndoInv, [Next]_vars PROVE Inv'
    OBVIOUS
  <2>1. BaseInv' /\ MountInv'
    BY <1>u, NextBase, NextMount
  <2>. QED
    BY <2>1, NextSettled, NextUndo DEF BaseInv
<1>3. Inv /\ [Next]_vars =>
        [\A g \in DOMAIN gens : g \in DOMAIN gens' /\ gens'[g].undone /\ ~gens[g].undone =>
          /\ orig' = gens[g].before
          /\ \A f \in Present(gens[g].snap) : Underlay(f)' # None /\ gens[g].snap[f] \subseteq Underlay(f)']_vars
  <2>. SUFFICES ASSUME Inv, [Next]_vars, NEW g \in DOMAIN gens, gens'[g].undone, ~gens[g].undone
                PROVE  /\ orig' = gens[g].before
                       /\ \A f \in Present(gens[g].snap) : Underlay(f)' # None /\ gens[g].snap[f] \subseteq Underlay(f)'
    OBVIOUS
  <2>0. gens \in Seq(Generations) /\ Latest = Len(gens) /\ g \in 1..Latest
    BY DEF BaseInv, TypeInv, Latest
  <2>1. PICK p \in Procs : ReconcileSteps(p) \/ UndoSteps(p) \/ Crash(p)
    <3>1. ~UNCHANGED gens
      OBVIOUS
    <3>2. TypeInv'
      BY NextTypes
    <3>. QED
      BY <3>1, <3>2, OutsideHand DEF Next, vars, disk
  <2>2. WriteUndone(p) /\ g = Latest
    <3>1. ~GenAdded
      BY <2>0 DEF GenAdded
    <3>2. /\ GenChanged /\ cmd[p].gen = Latest /\ g = Latest
          /\ \/ StashPreimage(p) \/ QuarantineReuse(p) \/ Relocate(p) \/ WriteManifest(p)
             \/ Reverse(p) \/ WriteUndone(p)
      BY <2>0, <2>1, <3>1, GenSteps DEF GenChanged
    <3>3. CASE StashPreimage(p) \/ QuarantineReuse(p) \/ Relocate(p) \/ WriteManifest(p)
      <4>1. gens[Latest] \in Generations
        BY <2>0, <3>2
      <4>2. gens'[Latest].undone = gens[Latest].undone
        <5>1. CASE StashPreimage(p)
          BY <2>0, <3>2, <4>1, <5>1 DEF StashPreimage, Generations
        <5>2. CASE QuarantineReuse(p) \/ Relocate(p)
          BY <2>0, <3>2, <4>1, <5>2 DEF QuarantineReuse, Relocate, Generations
        <5>3. CASE WriteManifest(p)
          BY <2>0, <3>2, <4>1, <5>3 DEF WriteManifest, Generations
        <5>. QED
          BY <3>3, <5>1, <5>2, <5>3
      <4>. QED
        BY <3>2, <4>2
    <3>4. CASE Reverse(p)
      <4>1. PICK f \in Files : Reversed(p, f)
        BY <3>4, ReverseParts
      <4>2. gens'[Latest].undone = gens[Latest].undone
        <5>1. gens[Latest] \in Generations /\ gens' \in {gens, [gens EXCEPT ![Latest].quar[f] = None]}
          BY <2>0, <3>2, <4>1 DEF Reversed
        <5>. QED
          BY <2>0, <3>2, <5>1 DEF Generations
      <4>. QED
        BY <3>2, <4>2
    <3>. QED
      BY <3>2, <3>3, <3>4
  <2>3. /\ InUndo(p) /\ cmd[p].pc = "done" /\ UNCHANGED <<load, orig, live, hollow, target>>
    BY <2>2 DEF WriteUndone, At, InUndo, Undoing, aside
  <2>4. Gen(p) = gens[Latest]
    BY <2>3, HandFacts
  <2>5. /\ \A f \in Present(gens[g].snap) : Underlay(f) = gens[g].snap[f]
        /\ orig = gens[g].before
    BY <2>2, <2>3, <2>4 DEF UndoInv, UndoKept
  <2>6. \A f \in Files : Underlay(f)' = Underlay(f)
    BY <2>3, PlansSame DEF Underlay
  <2>. QED
    BY <2>3, <2>5, <2>6 DEF Present
<1>. QED
  BY <1>1, <1>2, <1>3, PTL DEF Spec, UndoRestores

-----------------------------------------------------------------------------
(* Zero loss                                                                *)

\* Nobody writes to the underlay while a file of it is deleted or an undo runs,
\* nor to the target of the memory link; and an undo is not cut short.
NoRaces ==
    \A w \in Workloads : /\ "late" \notin w.writes /\ "shared" \notin w.writes
                         /\ "undo" \in w.commands => w.alone /\ "undo" \notin w.crash

\* No subagent file is too large to be read into memory.
NoLargeSubagent == \A w \in Workloads : \A f \in w.large : w.kinds[f] # "subagent"

LEMMA NoRacesFacts ==
    ASSUME NoRaces
    PROVE  UndoAlone /\ UndoUndisturbed
  BY DEF NoRaces, UndoAlone, UndoUndisturbed

\* Of what goes to quarantine the run has all the bytes, and of the rest if it
\* is not a large subagent file.
LEMMA QuarantineBytes ==
    ASSUME BaseInv, NEW p \in Procs, cmd[p].pc = "quarantine"
    PROVE  Bytes(p) = Gen(p).snap[File(p)]
<1>1. PlanFits(p) /\ cmd[p].plan[File(p)] = "KeepSeparate"
  BY HandFacts DEF PlanFits, StepPlans, InHand
<1>2. File(p) \notin Of("subagent")
  BY <1>1 DEF PlanFits, Plans
<1>. QED
  BY <1>1, <1>2 DEF PlanFits, InHand, Bytes

LEMMA HandBytes ==
    ASSUME BaseInv, NoLargeSubagent, NEW p \in Procs, cmd[p].pc \in InHand
    PROVE  Bytes(p) = Gen(p).snap[File(p)]
<1>1. PlanFits(p) /\ load \in Workloads
  BY HandFacts
<1>. QED
  BY <1>1 DEF PlanFits, Bytes, Of, NoLargeSubagent

\* What is at the mountpoint of a file in hand is not more of it in the underlay.
LEMMA AtMountpoint ==
    ASSUME MountInv, NEW f \in Files
    PROVE  live[f] \in {None, Mountpoint[f]}
<1>1. CASE mounted
  BY <1>1 DEF MountInv, Fallthrough, Present
<1>2. CASE ~mounted
  BY <1>2 DEF Mountpoint
<1>. QED
  BY <1>1, <1>2

\* The steps that change a file, in orig, the underlay or the target of the link.
LEMMA FileSteps ==
    ASSUME NEW p \in Procs, ReconcileSteps(p) \/ UndoSteps(p) \/ Crash(p)
    PROVE  \/ UNCHANGED <<orig, live, target, beside>>
           \/ WriteOrig(p) \/ FinishDelete(p) \/ PlaceWrite(p) \/ Relocate(p) \/ Reverse(p) \/ RestoreUnderlay(p)
<1>1. ASSUME \/ \E k \in Commands : Begin(p, k)
             \/ CheckPreconditions(p) \/ SnapshotUnderlay(p) \/ Preview(p) \/ PlanEntries(p) \/ Entry(p)
             \/ StashPreimage(p) \/ QuarantineReuse(p) \/ RestoreMemory(p)
             \/ PlaceRead(p) \/ Prune(p) \/ WriteManifest(p)
      PROVE  UNCHANGED <<orig, live, target, beside>>
  BY <1>1 DEF Begin, CheckPreconditions, SnapshotUnderlay, Preview, PlanEntries, Entry, StashPreimage, QuarantineReuse,
              RestoreMemory, PlaceRead, Prune, WriteManifest, disk, aside
<1>2. ASSUME \/ UndoCheck(p) \/ AbortIfMounted(p) \/ WriteUndone(p) \/ Crash(p)
             \/ \E from, to \in Pcs, on \in BOOLEAN : SetReconciling(p, from, on, to)
             \/ \E from, to \in Pcs : ReingestOneFile(p, from, to)
      PROVE  UNCHANGED <<orig, live, target, beside>>
  BY <1>2 DEF UndoCheck, AbortIfMounted, WriteUndone, Crash, CutShort, SetReconciling, ReingestOneFile, disk, aside
<1>. QED
  BY <1>1, <1>2, Steps

\* The steps after which a file is about to be deleted or placed.
LEMMA PlacingSteps ==
    ASSUME BaseInv, TypeInv', NEW p \in Procs, ReconcileSteps(p) \/ UndoSteps(p) \/ Crash(p),
           cmd'[p].pc \in Placing \cup {"unlink"}
    PROVE  FinishDelete(p) \/ RestoreMemory(p) \/ PlaceRead(p) \/ PlaceWrite(p)
<1>0. cmd \in [Procs -> Cmds] /\ cmd[p] \in Cmds /\ cmd'[p].pc \in {"place", "put", "putbeside", "unlink"}
  BY DEF BaseInv, TypeInv, Placing
<1>1. ASSUME \/ \E k \in Commands : Begin(p, k)
             \/ CheckPreconditions(p) \/ SnapshotUnderlay(p) \/ Preview(p) \/ StashPreimage(p) \/ QuarantineReuse(p)
             \/ WriteOrig(p) \/ Relocate(p) \/ Prune(p) \/ WriteManifest(p)
      PROVE  FALSE
  <2>0. CASE \E k \in Commands : Begin(p, k)
    BY <1>0, <2>0 DEF Begin, Cmds
  <2>1. CASE CheckPreconditions(p) \/ SnapshotUnderlay(p) \/ Preview(p)
    BY <1>0, <2>1 DEF CheckPreconditions, SnapshotUnderlay, Preview, Leave, Goto, Idle, Cmds
  <2>2. CASE StashPreimage(p) \/ QuarantineReuse(p) \/ WriteOrig(p)
    BY <1>0, <2>2 DEF StashPreimage, QuarantineReuse, WriteOrig, Goto, Cmds
  <2>3. CASE Relocate(p) \/ Prune(p) \/ WriteManifest(p)
    BY <1>0, <2>3 DEF Relocate, Prune, WriteManifest, Goto, Cmds
  <2>. QED
    BY <1>1, <2>0, <2>1, <2>2, <2>3
<1>2. ASSUME PlanEntries(p) PROVE FALSE
  <2>1. PICK plan \in [Files -> EntryPlans \cup {None}] :
           cmd' = [cmd EXCEPT ![p].pc = "entry", ![p].todo = Present(Gen(p).snap), ![p].plan = plan]
    BY <1>2 DEF PlanEntries
  <2>. QED
    BY <1>0, <2>1 DEF Cmds
<1>3. ASSUME Entry(p) PROVE FALSE
  <2>1. PICK f \in cmd[p].todo : \E plan \in EntryPlans : EntryTaken(p, f, plan)
    BY <1>3, EntryParts
  <2>2. PICK plan \in EntryPlans : EntryTaken(p, f, plan)
    BY <2>1
  <2>3. cmd'[p].pc = FirstStep(p, f, plan)
    BY <1>0, <2>2 DEF EntryTaken, Cmds
  <2>. QED
    BY <1>0, <2>2, <2>3 DEF EntryTaken
<1>4. ASSUME UndoCheck(p) \/ AbortIfMounted(p) \/ WriteUndone(p) \/ Crash(p) \/ Reverse(p) \/ RestoreUnderlay(p)
      PROVE  FALSE
  <2>1. CASE UndoCheck(p) \/ AbortIfMounted(p) \/ WriteUndone(p) \/ Crash(p) \/ RestoreUnderlay(p)
    BY <1>0, <2>1 DEF UndoCheck, AbortIfMounted, WriteUndone, Crash, CutShort, RestoreUnderlay, Leave, Goto, Idle, Cmds
  <2>2. CASE Reverse(p)
    <3>1. PICK f \in Files : Reversed(p, f)
      BY <2>2, ReverseParts
    <3>. QED
      BY <1>0, <3>1 DEF Reversed
  <2>. QED
    BY <1>4, <2>1, <2>2
<1>5. ASSUME NEW from \in Pcs, NEW to \in {"plan", "idle", "recheck", "done"}, NEW on \in BOOLEAN, SetReconciling(p, from, on, to)
      PROVE  FALSE
  BY <1>0, <1>5 DEF SetReconciling, Leave, Goto, Idle, Cmds
<1>6. ASSUME NEW from \in Pcs, NEW to \in {"gate", "reverse"}, ReingestOneFile(p, from, to)
      PROVE  FALSE
  BY <1>0, <1>6 DEF ReingestOneFile, CutShort, Leave, Goto, Idle, Cmds
<1>. QED
  BY <1>1, <1>2, <1>3, <1>4, <1>5, <1>6, PcValues DEF ReconcileSteps, UndoSteps, Commands

LEMMA PlacedSame ==
    ASSUME NEW p \in Procs, PlacedKept(p), UNCHANGED <<load, orig, live, target, beside, gens>>, cmd'[p] = cmd[p]
    PROVE  PlacedKept(p)'
<1>1. Gen(p)' = Gen(p) /\ File(p)' = File(p) /\ Memory' = Memory
  BY PlansSame DEF Gen, File
<1>2. DurableSupersetOk(p)' <=> DurableSupersetOk(p)
  BY <1>1 DEF DurableSupersetOk, Bytes
<1>. QED
  BY <1>1, <1>2 DEF PlacedKept, Present

LEMMA PlacedStep ==
    ASSUME BaseInv, MountInv, TypeInv', NEW p \in Procs, ReconcileSteps(p) \/ UndoSteps(p) \/ Crash(p), PlacedKept(p)
    PROVE  PlacedKept(p)'
<1>0. /\ cmd \in [Procs -> Cmds] /\ cmd[p] \in Cmds /\ live \in Directory /\ target \in Directory
      /\ beside \in [Files -> SUBSET Contents] /\ UNCHANGED load /\ Memory' = Memory /\ StillThere(p)
  BY HandFacts, CmdSteps, PlansSame DEF BaseInv, TypeInv
<1>1. CASE cmd'[p].pc \notin Placing \cup {"unlink"}
  BY <1>1 DEF PlacedKept, Placing
<1>2. CASE FinishDelete(p) /\ cmd'[p].pc \in Placing \cup {"unlink"}
  <2>1. /\ cmd[p].pc = "gate" /\ DeletePermitted(p) /\ cmd'[p].pc = "unlink"
        /\ cmd'[p].plan = cmd[p].plan /\ cmd'[p].gen = cmd[p].gen /\ cmd'[p].file = cmd[p].file
        /\ UNCHANGED <<orig, live, gens>>
    BY <1>0, <1>2 DEF FinishDelete, Goto, At, Cmds, Placing
  <2>2. Gen(p)' = Gen(p) /\ File(p)' = File(p)
    BY <2>1 DEF Gen, File
  <2>3. DurableSupersetOk(p)'
    BY <1>0, <2>1, <2>2 DEF DeletePermitted, DurableSupersetOk, Bytes
  <2>4. live[File(p)] \in {None, Gen(p).snap[File(p)]}
    <3>1. File(p) \in Files
      BY <1>0, <2>1 DEF StillThere, InHand, Present
    <3>. QED
      BY <2>1, <3>1, AtMountpoint DEF DeletePermitted, LiveEntryUnchanged
  <2>. QED
    BY <2>1, <2>2, <2>3, <2>4 DEF PlacedKept, Placing
<1>3. CASE RestoreMemory(p)
  <2>1. /\ UNCHANGED <<live, target, beside>>
        /\ \/ cmd'[p].pc = "place" /\ cmd'[p].left = Present(live) \cap Memory
           \/ cmd'[p].pc = "entry"
    BY <1>0, <1>3 DEF RestoreMemory, Goto, Cmds, disk, aside
  <2>. QED
    BY <1>0, <2>1 DEF PlacedKept, Placing, Present
<1>4. CASE PlaceRead(p)
  <2>1. PICK f \in cmd[p].left : PlaceTaken(p, f)
    BY <1>4, PlaceParts
  <2>2. \A h \in (Present(live) \cap Memory) \ cmd[p].left : live[h] \subseteq Text(target[h]) \/ live[h] \in beside[h]
    BY <2>1 DEF PlaceTaken, PlacedKept, Placing
  <2>3. \A h \in (Present(live) \cap Memory) \ cmd'[p].left : live[h] \subseteq Text(target[h]) \/ live[h] \in beside[h]
    BY <2>1, <2>2 DEF PlaceTaken, Text
  <2>4. \A h \in (Present(live) \cap Memory)' \ cmd'[p].left :
            live'[h] \subseteq Text(target[h])' \/ live'[h] \in beside'[h]
    BY <1>0, <2>1, <2>3 DEF PlaceTaken, Present, Text
  <2>. QED
    BY <2>1, <2>4 DEF PlacedKept, PlaceTaken, File, Placing
<1>5. CASE PlaceWrite(p)
  <2>1. /\ cmd[p].pc \in {"put", "putbeside"} /\ cmd'[p].pc = "place" /\ cmd'[p].left = cmd[p].left \ {File(p)}
        /\ UNCHANGED live
        /\ \/ cmd[p].pc = "put" /\ target' = [target EXCEPT ![File(p)] = cmd[p].text] /\ UNCHANGED beside
           \/ cmd[p].pc = "putbeside" /\ beside' = [beside EXCEPT ![File(p)] = @ \cup {cmd[p].text}] /\ UNCHANGED target
    BY <1>0, <1>5 DEF PlaceWrite, At, Cmds
  <2>2. cmd[p].text = live[File(p)] /\ File(p) \in cmd[p].left /\ File(p) \in Files /\ live[File(p)] # None
    BY <1>0, <2>1 DEF PlacedKept, StillThere, Placing, Present
  <2>3. \A h \in (Present(live) \cap Memory) \ cmd[p].left : live[h] \subseteq Text(target[h]) \/ live[h] \in beside[h]
    BY <2>1 DEF PlacedKept, Placing
  <2>4. \A h \in (Present(live) \cap Memory)' \ cmd'[p].left :
            live'[h] \subseteq Text(target[h])' \/ live'[h] \in beside'[h]
    <3>. TAKE h \in (Present(live) \cap Memory)' \ cmd'[p].left
    <3>0. h \in Files
      BY DEF Present
    <3>1. CASE h = File(p)
      BY <1>0, <2>1, <2>2, <3>1 DEF Text, Directory
    <3>2. CASE h # File(p)
      <4>1. target'[h] = target[h] /\ beside'[h] = beside[h] /\ h \in (Present(live) \cap Memory) \ cmd[p].left
        BY <1>0, <2>1, <3>0, <3>2 DEF Directory, Present
      <4>. QED
        BY <2>1, <2>3, <4>1 DEF Text
    <3>. QED
      BY <3>1, <3>2
  <2>. QED
    BY <2>1, <2>4 DEF PlacedKept, Placing
<1>. QED
  BY <1>1, <1>2, <1>3, <1>4, <1>5, PlacingSteps

\* A quarantined file is the snapshot's.
LEMMA QuarKept ==
    ASSUME BaseInv, TypeInv', QuarInv, NEW p \in Procs, ReconcileSteps(p) \/ UndoSteps(p) \/ Crash(p)
    PROVE  QuarInv'
<1>0. /\ gens \in Seq(Generations) /\ gens' \in Seq(Generations) /\ Latest = Len(gens) /\ Latest \in Nat
      /\ DOMAIN gens = 1..Latest /\ DOMAIN gens' = 1..Latest' /\ UNCHANGED load /\ Memory' = Memory
  BY CmdSteps, PlansSame DEF BaseInv, TypeInv, Latest
<1>1. CASE UNCHANGED gens
  BY <1>0, <1>1 DEF QuarInv
<1>2. CASE GenAdded
  BY <1>0, <1>2, NoFilesType DEF GenAdded, QuarInv
<1>3. CASE /\ GenChanged /\ cmd[p].gen = Latest
           /\ \/ StashPreimage(p) \/ QuarantineReuse(p) \/ Relocate(p) \/ WriteManifest(p)
              \/ Reverse(p) \/ WriteUndone(p)
  <2>1. gens[Latest] \in Generations /\ Latest \in 1..Latest /\ Gen(p) = gens[Latest]
    BY <1>0, <1>3 DEF GenChanged, Gen
  <2>2. \A f \in Files \ Memory : gens'[Latest].quar[f] \in {gens[Latest].quar[f], None, gens[Latest].snap[f]}
    <3>1. CASE StashPreimage(p)
      <4>1. gens'[Latest].quar = gens[Latest].quar
        <5>1. gens' = gens \/ gens' = [gens EXCEPT ![Latest].pre[File(p)] = orig[File(p)]]
          BY <1>3, <3>1 DEF StashPreimage
        <5>. QED
          BY <1>0, <2>1, <5>1 DEF Generations
      <4>. QED
        BY <4>1
    <3>2. CASE QuarantineReuse(p)
      <4>1. Bytes(p) = Gen(p).snap[File(p)]
        BY <3>2, QuarantineBytes DEF QuarantineReuse, At
      <4>. QED
        BY <1>0, <1>3, <2>1, <3>2, <4>1 DEF QuarantineReuse, Generations, Directory
    <3>3. CASE Relocate(p)
      BY <1>0, <1>3, <2>1, <3>3 DEF Relocate, Generations
    <3>4. CASE WriteManifest(p) \/ WriteUndone(p)
      <4>1. gens'[Latest].quar = gens[Latest].quar
        <5>1. CASE WriteManifest(p)
          <6> DEFINE m == [f \in Files |-> IF cmd[p].plan[f] = None THEN "Noop" ELSE Reversal(p, f)]
          <6>1. gens' = gens \/ gens' = [gens EXCEPT ![Latest].manifest = m]
            BY <1>3, <5>1 DEF WriteManifest
          <6>. HIDE DEF m
          <6>. QED
            BY <1>0, <2>1, <6>1 DEF Generations
        <5>2. CASE WriteUndone(p)
          BY <1>0, <1>3, <2>1, <5>2 DEF WriteUndone, Generations
        <5>. QED
          BY <3>4, <5>1, <5>2
      <4>. QED
        BY <4>1
    <3>5. CASE Reverse(p)
      <4>1. PICK f \in Files : Reversed(p, f)
        BY <3>5, ReverseParts
      <4>2. CASE UNCHANGED gens
        BY <4>2
      <4>3. CASE gens' = [gens EXCEPT ![Latest].quar[f] = None]
        <5>1. gens'[Latest].quar = [gens[Latest].quar EXCEPT ![f] = None] /\ gens[Latest].quar \in Directory
          BY <1>0, <2>1, <4>3 DEF Generations
        <5>. QED
          BY <4>1, <5>1 DEF Directory
      <4>. QED
        BY <4>1, <4>2, <4>3 DEF Reversed
    <3>. QED
      BY <1>3, <3>1, <3>2, <3>3, <3>4, <3>5
  <2>3. \A f \in Files \ Memory : gens'[Latest].quar[f] \in {None, gens'[Latest].snap[f]}
    BY <1>0, <1>3, <2>1, <2>2 DEF GenChanged, QuarInv
  <2>4. \A g \in 1..Latest : g # Latest => gens'[g] = gens[g]
    BY <1>3 DEF GenChanged
  <2>. QED
    BY <1>0, <1>3, <2>3, <2>4 DEF GenChanged, QuarInv
<1>. QED
  BY <1>1, <1>2, <1>3, GenSteps

\* No copy is lost by a step that takes nothing from any of them.
Grows ==
    /\ UNCHANGED load
    /\ \A f \in Files : /\ Text(orig[f]) \subseteq Text(orig[f])' /\ Text(live[f]) \subseteq Text(live[f])'
                        /\ Text(target[f]) \subseteq Text(target[f])' /\ beside[f] \subseteq beside'[f]
QuarGrows ==
    \A g \in DOMAIN gens : g \in DOMAIN gens' /\ \A f \in Files \ Memory : Text(gens[g].quar[f]) \subseteq Text(gens'[g].quar[f])

LEMMA KeptGrows ==
    ASSUME Grows, QuarGrows, NEW r, IsKept(r)
    PROVE  IsKept(r)'
<1>1. Memory' = Memory
  BY PlansSame DEF Grows
<1>2. CASE \E f \in Files : \/ r \in Text(orig[f]) \/ r \in Text(live[f]) \/ r \in Text(target[f])
                            \/ \E c \in beside[f] : r \in c
  <2>1. \E f \in Files : \/ r \in Text(orig[f])' \/ r \in Text(live[f])' \/ r \in Text(target[f])'
                         \/ \E c \in beside'[f] : r \in c
    BY <1>2 DEF Grows
  <2>. QED
    BY <2>1 DEF IsKept
<1>3. CASE \E g \in DOMAIN gens : \E f \in Files \ Memory : r \in Text(gens[g].quar[f])
  <2>1. \E g \in DOMAIN gens' : \E f \in Files \ Memory : r \in Text(gens'[g].quar[f])
    BY <1>3 DEF QuarGrows
  <2>2. \E g \in DOMAIN gens' : \E f \in Files \ Memory' : r \in Text(gens[g].quar[f])'
    BY <1>1, <2>1 DEF Text
  <2>. QED
    BY <2>2 DEF IsKept
<1>. QED
  BY <1>2, <1>3 DEF IsKept

\* Only a reversal takes from quarantine.
LEMMA QuarSteps ==
    ASSUME BaseInv, TypeInv', QuarInv, NEW p \in Procs, ReconcileSteps(p) \/ UndoSteps(p) \/ Crash(p), ~Reverse(p)
    PROVE  QuarGrows
<1>0. /\ gens \in Seq(Generations) /\ gens' \in Seq(Generations) /\ Latest = Len(gens) /\ Latest \in Nat
      /\ DOMAIN gens = 1..Latest /\ DOMAIN gens' = 1..Latest'
  BY DEF BaseInv, TypeInv, Latest
<1>1. CASE UNCHANGED gens
  BY <1>1 DEF QuarGrows
<1>2. CASE GenAdded
  BY <1>0, <1>2 DEF GenAdded, QuarGrows
<1>3. CASE /\ GenChanged /\ cmd[p].gen = Latest
           /\ \/ StashPreimage(p) \/ QuarantineReuse(p) \/ Relocate(p) \/ WriteManifest(p) \/ WriteUndone(p)
  <2>1. gens[Latest] \in Generations /\ Latest \in 1..Latest /\ Gen(p) = gens[Latest]
    BY <1>0, <1>3 DEF GenChanged, Gen
  <2>2. \A f \in Files \ Memory : Text(gens[Latest].quar[f]) \subseteq Text(gens'[Latest].quar[f])
    <3>1. CASE StashPreimage(p)
      <4>1. gens' = gens \/ gens' = [gens EXCEPT ![Latest].pre[File(p)] = orig[File(p)]]
        BY <1>3, <3>1 DEF StashPreimage
      <4>2. gens'[Latest].quar = gens[Latest].quar
        BY <1>0, <2>1, <4>1 DEF Generations
      <4>. QED
        BY <4>2
    <3>2. CASE QuarantineReuse(p)
      <4>0. Bytes(p) = gens[Latest].snap[File(p)]
        BY <2>1, <3>2, QuarantineBytes DEF QuarantineReuse, At
      <4>1. gens'[Latest].quar = [gens[Latest].quar EXCEPT ![File(p)] = gens[Latest].snap[File(p)]]
        BY <1>0, <1>3, <2>1, <3>2, <4>0 DEF QuarantineReuse, Generations
      <4>2. gens[Latest].quar \in Directory /\ \A f \in Files \ Memory : gens[Latest].quar[f] \in {None, gens[Latest].snap[f]}
        BY <1>0, <2>1 DEF QuarInv, Generations
      <4>. QED
        BY <4>1, <4>2 DEF Directory, Text
    <3>3. CASE Relocate(p)
      <4>1. \A f \in Files \ Memory : gens'[Latest].quar[f] = gens[Latest].quar[f]
        BY <1>0, <1>3, <2>1, <3>3 DEF Relocate, Generations
      <4>. QED
        BY <4>1
    <3>4. CASE WriteManifest(p)
      <4> DEFINE m == [f \in Files |-> IF cmd[p].plan[f] = None THEN "Noop" ELSE Reversal(p, f)]
      <4>1. gens' = gens \/ gens' = [gens EXCEPT ![Latest].manifest = m]
        BY <1>3, <3>4 DEF WriteManifest
      <4>. HIDE DEF m
      <4>2. gens'[Latest].quar = gens[Latest].quar
        BY <1>0, <2>1, <4>1 DEF Generations
      <4>. QED
        BY <4>2
    <3>5. CASE WriteUndone(p)
      <4>1. gens'[Latest].quar = gens[Latest].quar
        BY <1>0, <1>3, <2>1, <3>5 DEF WriteUndone, Generations
      <4>. QED
        BY <4>1
    <3>. QED
      BY <1>3, <3>1, <3>2, <3>3, <3>4, <3>5
  <2>. QED
    BY <1>0, <1>3, <2>2 DEF GenChanged, QuarGrows
<1>. QED
  BY <1>1, <1>2, <1>3, GenSteps

\* A merge covers what orig had.
LEMMA MergeCovers ==
    ASSUME BaseInv, NEW p \in Procs, WriteOrig(p)
    PROVE  \A f \in Files : Text(orig[f]) \subseteq Text(orig'[f])
<1>0. /\ orig \in Directory /\ cmd[p].pc = "merge" /\ PlanFits(p) /\ StillThere(p)
      /\ orig' = [orig EXCEPT ![File(p)] = MergedFile(p)]
  BY HandFacts DEF WriteOrig, At
<1>1. /\ cmd[p].plan[File(p)] \in {"Union", "New"} /\ Gen(p).snap[File(p)] # None /\ File(p) \in Files
      /\ cmd[p].plan[File(p)] \in Plans(File(p), orig[File(p)], Gen(p).snap[File(p)])
  BY <1>0 DEF PlanFits, StillThere, StepPlans, InHand, Present
<1>2. cmd[p].plan[File(p)] = "New" => orig[File(p)] = None
  BY <1>1 DEF Plans, ByContent, Recommend
<1>3. Text(orig[File(p)]) \subseteq Text(MergedFile(p))
  <2>1. CASE orig[File(p)] = None
    BY <2>1 DEF Text
  <2>2. CASE orig[File(p)] # None
    <3>1. MergedFile(p) = orig[File(p)] \cup Bytes(p)
      BY <1>2, <2>2 DEF MergedFile, Merged, SessionMerge
    <3>2. MergedFile(p) # None
      <4>1. orig[File(p)] \subseteq Records /\ Bytes(p) \subseteq Records
        <5>1. InRun(p)
          BY <1>0 DEF InRun, Running
        <5>. QED
          BY <1>0, <1>1, <2>2, <5>1, HandFacts DEF Directory, Contents, Bytes
      <4>. QED
        BY <3>1, <4>1, NoneAssumption
    <3>. QED
      BY <2>2, <3>1, <3>2 DEF Text
  <2>. QED
    BY <2>1, <2>2
<1>. QED
  BY <1>0, <1>1, <1>3 DEF Directory

\* What another file of the run has it in the snapshot, or is untouched.
LEMMA TakenKept ==
    ASSUME BaseInv, MountInv, BaseInv', NoRaces,
           NEW p \in Procs, ReconcileSteps(p) \/ UndoSteps(p) \/ Crash(p), ~RestoreUnderlay(p),
           NEW r, IsTaken(r)
    PROVE  IsTaken(r)'
<1>1. PICK q \in Procs : /\ cmd[q].pc \in {"reverse", "rebuild"}
                         /\ \E f \in Files : r \in Text(Gen(q).snap[f])
  BY DEF IsTaken
<1>2. InUndo(q)
  BY <1>1 DEF InUndo, Undoing
<1>3. CASE q # p
  <2>1. cmd'[q] = cmd[q] /\ UNCHANGED gens
    BY <1>2, <1>3, CmdSteps, OutsideSteps DEF BaseInv
  <2>2. Gen(q)' = Gen(q)
    BY <2>1 DEF Gen
  <2>. QED
    BY <1>1, <2>1, <2>2 DEF IsTaken, Text
<1>4. CASE q = p
  <2>0. /\ cmd \in [Procs -> Cmds] /\ cmd[p] \in Cmds /\ Gen(p) = gens[Latest] /\ cmd[p].gen = Latest
        /\ cmd[p].kind = "undo" /\ "undo" \notin load.crash
    BY <1>2, <1>4, HandFacts DEF BaseInv, TypeInv, RunInv, KindFits, NoRaces, InUndo, Undoing
  <2>1. ~Crash(p)
    BY <2>0 DEF Crash
  <2>2. Latest' = Latest /\ gens'[Latest].snap = gens[Latest].snap
    BY <1>2, <1>4, <2>1, SnapKept
  <2>3. Reverse(p) \/ ReingestOneFile(p, "rebuild", "reverse")
    <3>1. ~ReconcileSteps(p)
      <4>1. ~Begin(p, "reconcile") /\ ~Begin(p, "preview")
        BY <1>1, <1>4 DEF Begin, Idle
      <4>2. /\ ~CheckPreconditions(p) /\ ~SnapshotUnderlay(p) /\ ~Preview(p) /\ ~PlanEntries(p) /\ ~Entry(p)
            /\ ~SetReconciling(p, "mark", TRUE, "plan") /\ ~SetReconciling(p, "clear", FALSE, "idle")
            /\ ~StashPreimage(p) /\ ~WriteOrig(p) /\ ~ReingestOneFile(p, "reingest", "gate")
        BY <1>1, <1>4 DEF CheckPreconditions, SnapshotUnderlay, Preview, SetReconciling,
             ReingestOneFile, PlanEntries, Entry, StashPreimage, WriteOrig, At
      <4>3. /\ ~QuarantineReuse(p) /\ ~FinishDelete(p) /\ ~RestoreMemory(p) /\ ~PlaceRead(p) /\ ~PlaceWrite(p)
            /\ ~Relocate(p) /\ ~Prune(p) /\ ~WriteManifest(p)
        BY <1>1, <1>4 DEF QuarantineReuse, FinishDelete, RestoreMemory, PlaceRead, PlaceWrite, Relocate, Prune,
                    WriteManifest, At
      <4>. QED
        BY <4>1, <4>2, <4>3 DEF ReconcileSteps
    <3>2. ~Begin(p, "undo") /\ ~UndoCheck(p)
      BY <1>1, <1>4 DEF Begin, Idle, UndoCheck, At
    <3>3. /\ ~SetReconciling(p, "set", TRUE, "recheck") /\ ~SetReconciling(p, "unset", FALSE, "done")
          /\ ~AbortIfMounted(p) /\ ~WriteUndone(p)
      BY <1>1, <1>4 DEF SetReconciling, AbortIfMounted, WriteUndone, At
    <3>. QED
      BY <2>1, <3>1, <3>2, <3>3 DEF UndoSteps
  <2>4. cmd'[p].pc \in {"reverse", "rebuild"} /\ cmd'[p].gen = cmd[p].gen
    <3>1. CASE Reverse(p)
      <4>1. PICK f \in Files : Reversed(p, f)
        BY <3>1, ReverseParts
      <4>. QED
        BY <4>1 DEF Reversed
    <3>2. CASE ReingestOneFile(p, "rebuild", "reverse")
      <4>1. ~mounted
        BY <3>2 DEF ReingestOneFile, At, MountInv
      <4>. QED
        BY <2>0, <3>2, <4>1 DEF ReingestOneFile, Goto, Cmds
    <3>. QED
      BY <2>3, <3>1, <3>2
  <2>5. Gen(p)'.snap = Gen(p).snap
    BY <2>0, <2>2, <2>4 DEF Gen
  <2>. QED
    BY <1>1, <1>4, <2>4, <2>5 DEF IsTaken, Text
<1>. QED
  BY <1>3, <1>4

\* Each step that takes a copy leaves another.
LEMMA CopiesKept ==
    ASSUME BaseInv, MountInv, BaseInv', SettledInv, UndoInv', LossInv, NoRaces, NoLargeSubagent,
           NEW p \in Procs, ReconcileSteps(p) \/ UndoSteps(p) \/ Crash(p),
           NEW r, IsKept(r) \/ IsTaken(r)
    PROVE  IsKept(r)' \/ IsTaken(r)'
<1>0. /\ cmd \in [Procs -> Cmds] /\ cmd[p] \in Cmds /\ live \in Directory /\ target \in Directory /\ orig \in Directory
      /\ beside \in [Files -> SUBSET Contents] /\ StillThere(p) /\ PlacedKept(p)
      /\ gens \in Seq(Generations) /\ Latest = Len(gens) /\ UNCHANGED load /\ Memory' = Memory
      /\ TypeInv' /\ QuarInv
  BY HandFacts, CmdSteps, PlansSame DEF BaseInv, TypeInv, Latest, LossInv, PlacedInv
<1>q. ~Reverse(p) => QuarGrows
  BY <1>0, QuarSteps
<1>t. ~RestoreUnderlay(p) /\ IsTaken(r) => IsTaken(r)'
  BY TakenKept
<1>1. CASE UNCHANGED <<orig, live, target, beside>> /\ ~Reverse(p) /\ ~RestoreUnderlay(p)
  <2>1. Grows
    BY <1>0, <1>1 DEF Grows, Text
  <2>. QED
    BY <1>1, <1>q, <1>t, <2>1, KeptGrows
<1>2. CASE WriteOrig(p)
  <2>1. ~Reverse(p) /\ ~RestoreUnderlay(p) /\ UNCHANGED <<live, target, beside>>
    BY <1>2 DEF WriteOrig, Reverse, RestoreUnderlay, At, aside
  <2>2. Grows
    BY <1>0, <1>2, <2>1, MergeCovers DEF Grows, Text
  <2>. QED
    BY <1>q, <1>t, <2>1, <2>2, KeptGrows
<1>3. CASE FinishDelete(p)
  <2>1. /\ ~Reverse(p) /\ ~RestoreUnderlay(p) /\ UNCHANGED <<orig, target, beside, gens>>
        /\ cmd[p].pc \in {"gate", "unlink"}
    BY <1>3 DEF FinishDelete, Reverse, RestoreUnderlay, At
  <2>2. CASE cmd[p].pc = "gate"
    <3>1. Grows
      BY <1>0, <1>3, <2>1, <2>2 DEF FinishDelete, At, Grows, Text
    <3>. QED
      BY <1>q, <1>t, <2>1, <3>1, KeptGrows
  <2>3. CASE cmd[p].pc = "unlink"
    <3>1. /\ DurableSupersetOk(p) /\ live[File(p)] \in {None, Gen(p).snap[File(p)]}
          /\ File(p) \in Files \ Memory /\ InRun(p)
      BY <1>0, <2>3 DEF PlacedKept, StillThere, InHand, Present, InRun, Running
    <3>2. live' = [live EXCEPT ![File(p)] = None] \/ UNCHANGED live
      BY <1>3, <2>3 DEF FinishDelete, At
    <3>3. \/ Text(live[File(p)]) \subseteq Text(orig[File(p)])
          \/ Text(live[File(p)]) \subseteq Text(Gen(p).quar[File(p)])
      <4>1. Bytes(p) = Gen(p).snap[File(p)]
        BY <2>3, HandBytes DEF InHand
      <4>. QED
        BY <3>1, <4>1 DEF DurableSupersetOk, Text
    <3>4. Gen(p) = gens[Latest] /\ Latest \in DOMAIN gens
      BY <1>0, <3>1, HandFacts
    <3>5. \A f \in Files : f # File(p) => live'[f] = live[f]
      BY <1>0, <3>2 DEF Directory
    <3>6. IsKept(r) => IsKept(r)'
      <4>1. CASE r \in Text(live[File(p)])
        <5>1. PICK f \in Files \ Memory : f = File(p)
          BY <3>1
        <5>2. r \in Text(orig[f]) \/ r \in Text(gens[Latest].quar[f])
          BY <3>3, <3>4, <4>1, <5>1
        <5>3. Latest \in DOMAIN gens' /\ f \in Files \ Memory' /\ gens'[Latest].quar = gens[Latest].quar
          BY <1>0, <2>1, <3>4
        <5>4. CASE r \in Text(orig[f])
          BY <2>1, <5>4 DEF IsKept, Text
        <5>5. CASE r \in Text(gens[Latest].quar[f])
          <6>1. r \in Text(gens'[Latest].quar[f])
            BY <5>3, <5>5
          <6>. QED
            BY <5>3, <6>1 DEF IsKept, Text
        <5>. QED
          BY <5>2, <5>4, <5>5
      <4>2. CASE r \notin Text(live[File(p)])
        BY <1>0, <2>1, <3>5, <4>2 DEF IsKept, Text
      <4>. QED
        BY <4>1, <4>2
    <3>. QED
      BY <1>t, <2>1, <3>6
  <2>. QED
    BY <2>1, <2>2, <2>3
<1>4. CASE PlaceWrite(p)
  <2>1. ~Reverse(p) /\ ~RestoreUnderlay(p) /\ UNCHANGED <<orig, live>> /\ cmd[p].pc \in {"put", "putbeside"}
    BY <1>4 DEF PlaceWrite, Reverse, RestoreUnderlay, At
  <2>2. Grows
    <3>1. cmd[p].pc = "put" => target[File(p)] = None
      BY <1>0 DEF PlacedKept
    <3>2. \/ cmd[p].pc = "put" /\ target' = [target EXCEPT ![File(p)] = cmd[p].text] /\ UNCHANGED beside
          \/ cmd[p].pc = "putbeside" /\ beside' = [beside EXCEPT ![File(p)] = @ \cup {cmd[p].text}] /\ UNCHANGED target
      BY <1>4 DEF PlaceWrite, At
    <3>3. \A f \in Files : Text(target[f]) \subseteq Text(target'[f]) /\ beside[f] \subseteq beside'[f]
      BY <1>0, <3>1, <3>2 DEF Text, Directory
    <3>. QED
      BY <1>0, <2>1, <3>3 DEF Grows, Text
  <2>. QED
    BY <1>q, <1>t, <2>1, <2>2, KeptGrows
<1>5. CASE Relocate(p)
  <2>1. ~Reverse(p) /\ ~RestoreUnderlay(p) /\ UNCHANGED <<orig, target, beside>> /\ cmd[p].pc = "place" /\ cmd[p].left = {}
    BY <1>5 DEF Relocate, Reverse, RestoreUnderlay, At, aside
  <2>2. \A f \in Memory : live[f] # None => live[f] \subseteq Text(target[f]) \/ live[f] \in beside[f]
    BY <1>0, <2>1 DEF PlacedKept, Placing, Present, Memory, Of
  <2>3. \A f \in Files : live'[f] = IF f \in Memory THEN None ELSE live[f]
    BY <1>5 DEF Relocate
  <2>4. QuarGrows
    BY <1>q, <2>1
  <2>5. IsKept(r) => IsKept(r)'
    <3>1. CASE \E f \in Memory : live[f] # None /\ r \in live[f]
      <4>1. PICK f \in Memory : live[f] # None /\ r \in live[f]
        BY <3>1
      <4>2. f \in Files /\ (r \in Text(target'[f]) \/ \E c \in beside'[f] : r \in c)
        BY <2>1, <2>2, <4>1 DEF Memory, Of
      <4>. QED
        BY <4>2 DEF IsKept, Text
    <3>2. CASE ~ \E f \in Memory : live[f] # None /\ r \in live[f]
      <4>1. CASE \E f \in Files : \/ r \in Text(orig[f]) \/ r \in Text(live[f]) \/ r \in Text(target[f])
                                  \/ \E c \in beside[f] : r \in c
        BY <2>1, <2>3, <3>2, <4>1 DEF IsKept, Text
      <4>2. CASE \E g \in DOMAIN gens : \E f \in Files \ Memory : r \in Text(gens[g].quar[f])
        BY <1>0, <2>4, <4>2 DEF IsKept, QuarGrows, Text
      <4>. QED
        BY <4>1, <4>2 DEF IsKept
    <3>. QED
      BY <3>1, <3>2
  <2>. QED
    BY <1>t, <2>1, <2>5
<1>6. CASE Reverse(p)
  <2>1. PICK f \in Files : Reversed(p, f)
    BY <1>6, ReverseParts
  <2>2. Gen(p) = gens[Latest] /\ Latest \in 1..Latest /\ gens[Latest] \in Generations /\ cmd[p].gen = Latest
    BY <2>1, HandFacts DEF Reversed
  <2>3. ManifestRight(gens[Latest]) /\ gens[Latest].manifest # None
    BY <1>0, <2>1, <2>2 DEF SettledInv, BaseInv, HandInv, MemoryKept, Reversed
  <2>4. Settled(orig[f], gens[Latest].before[f], gens[Latest].pre[f], gens[Latest].snap[f], gens[Latest].manifest[f])
    BY <2>3 DEF ManifestRight
  <2>5. gens'[Latest].snap = gens[Latest].snap /\ DOMAIN gens' = DOMAIN gens
        /\ \A g \in DOMAIN gens : \A h \in Files : <<g, h>> # <<Latest, f>> => gens'[g].quar[h] = gens[g].quar[h]
    <3>1. CASE UNCHANGED gens
      BY <3>1
    <3>2. CASE gens' = [gens EXCEPT ![Latest].quar[f] = None]
      BY <1>0, <2>2, <3>2 DEF Generations, Directory
    <3>. QED
      BY <2>1, <3>1, <3>2 DEF Reversed
  <2>6. Gen(p)'.snap = gens[Latest].snap /\ cmd'[p].pc \in {"reverse", "rebuild"}
    BY <2>1, <2>2, <2>5 DEF Reversed, Gen
  <2>7. r \in Text(gens[Latest].snap[f]) => IsTaken(r)'
    BY <2>6 DEF IsTaken, Text
  <2>8. Text(orig[f]) \subseteq Text(orig'[f]) \cup Text(gens[Latest].snap[f])
    BY <1>0, <2>1, <2>2, <2>4 DEF Reversed, Settled, Text, Directory
  <2>9. f \notin Memory => Text(gens[Latest].quar[f]) \subseteq Text(gens[Latest].snap[f])
    BY <1>0, <2>2 DEF QuarInv, Text
  <2>10. UNCHANGED <<live, target, beside>> /\ \A h \in Files : h # f => orig'[h] = orig[h]
    BY <1>0, <2>1 DEF Reversed, Directory
  <2>11. IsKept(r) => IsKept(r)' \/ IsTaken(r)'
    <3>1. CASE r \in Text(gens[Latest].snap[f])
      BY <2>7, <3>1
    <3>2. CASE r \notin Text(gens[Latest].snap[f])
      <4>1. CASE \E h \in Files : \/ r \in Text(orig[h]) \/ r \in Text(live[h]) \/ r \in Text(target[h])
                                  \/ \E c \in beside[h] : r \in c
        BY <2>8, <2>10, <3>2, <4>1 DEF IsKept, Text
      <4>2. CASE \E g \in DOMAIN gens : \E h \in Files \ Memory : r \in Text(gens[g].quar[h])
        <5>1. PICK g \in DOMAIN gens : \E h \in Files \ Memory : r \in Text(gens[g].quar[h])
          BY <4>2
        <5>2. PICK h \in Files \ Memory : r \in Text(gens[g].quar[h])
          BY <5>1
        <5>3. <<g, h>> # <<Latest, f>>
          BY <2>9, <3>2, <5>2
        <5>4. r \in Text(gens'[g].quar[h]) /\ g \in DOMAIN gens' /\ h \in Files \ Memory'
          BY <1>0, <2>5, <5>2, <5>3
        <5>. QED
          BY <5>4 DEF IsKept, Text
      <4>. QED
        BY <4>1, <4>2 DEF IsKept
    <3>. QED
      BY <3>1, <3>2
  <2>. QED
    <3>1. ~RestoreUnderlay(p)
      BY <2>1, <1>0, <1>6 DEF Reverse, RestoreUnderlay, Goto, Cmds, Reversed
    <3>. QED
      BY <1>t, <2>11, <3>1
<1>7. CASE RestoreUnderlay(p) /\ ~Reverse(p)
  <2>1. /\ cmd[p].pc = "reverse" /\ cmd'[p].pc = "unset" /\ cmd'[p].gen = cmd[p].gen /\ UNCHANGED <<orig, beside, gens>>
        /\ InUndo(p) /\ InUndo(p)'
    BY <1>0, <1>7 DEF RestoreUnderlay, Goto, At, Cmds, InUndo, Undoing
  <2>2. \A f \in Files : Text(live[f]) \subseteq Text(live'[f]) /\ Text(target[f]) \subseteq Text(target'[f])
    <3>1. ~mounted
      BY <2>1 DEF MountInv
    <3>. QED
      BY <1>7, <3>1 DEF RestoreUnderlay, LiveText, Underlay, Text
  <2>3. Grows
    BY <1>0, <2>1, <2>2 DEF Grows, Text
  <2>4. IsKept(r) => IsKept(r)'
    BY <1>7, <1>q, <2>3, KeptGrows
  <2>5. IsTaken(r) => IsKept(r)'
    <3>1. SUFFICES ASSUME IsTaken(r) PROVE IsKept(r)'
      OBVIOUS
    <3>2. PICK q \in Procs : cmd[q].pc \in {"reverse", "rebuild"} /\ \E f \in Files : r \in Text(Gen(q).snap[f])
      BY <3>1 DEF IsTaken
    <3>3. q = p
      BY <2>1, <3>2, NoRacesFacts, UndoIsAlone DEF Idle
    <3>4. PICK f \in Files : r \in Text(Gen(p).snap[f])
      BY <3>2, <3>3
    <3>5. Gen(p)' = Gen(p)
      BY <2>1 DEF Gen
    <3>6. Underlay(f)' = Gen(p).snap[f] /\ Gen(p).snap[f] # None
      BY <2>1, <3>4, <3>5 DEF UndoInv, UndoKept, Present, Text
    <3>7. r \in Text(live'[f]) \/ r \in Text(target'[f])
      BY <3>4, <3>6 DEF Underlay, Text
    <3>. QED
      BY <3>7 DEF IsKept, Text
  <2>. QED
    BY <2>4, <2>5
<1>. QED
  BY <1>1, <1>2, <1>3, <1>4, <1>5, <1>6, <1>7, FileSteps

\* A record written is in the file it was written to, with what was there.
LEMMA AddedTo ==
    \A d, e \in Directory : \A f \in Files, text \in SUBSET Records, n \in Records :
        e = [d EXCEPT ![f] = text \cup {n}] /\ Text(d[f]) \subseteq text =>
            n \in Text(e[f]) /\ \A h \in Files : Text(d[h]) \subseteq Text(e[h])
<1>. SUFFICES ASSUME NEW d \in Directory, NEW e \in Directory, NEW f \in Files, NEW text \in SUBSET Records,
                     NEW n \in Records, e = [d EXCEPT ![f] = text \cup {n}], Text(d[f]) \subseteq text
              PROVE  n \in Text(e[f]) /\ \A h \in Files : Text(d[h]) \subseteq Text(e[h])
  OBVIOUS
<1>1. e[f] = text \cup {n} /\ \A h \in Files \ {f} : e[h] = d[h]
  BY DEF Directory
<1>2. text \cup {n} # None
  <2>1. text \cup {n} \in SUBSET Records
    OBVIOUS
  <2>. QED
    BY <2>1, NoneAssumption
<1>. QED
  BY <1>1, <1>2 DEF Text

LEMMA WriteGrows ==
    ASSUME BaseInv, TypeInv', NEW f \in Files, Write(f)
    PROVE  Grows /\ \A r \in fell' : r \in fell \/ IsKept(r)'
<1>0. /\ live \in Directory /\ target \in Directory /\ live' \in Directory /\ target' \in Directory
      /\ UNCHANGED <<load, orig>> /\ written' \in Records
      /\ orig[f] \in Contents /\ live[f] \in Contents /\ target[f] \in Contents
  BY DEF BaseInv, TypeInv, Write, Directory
<1>1. PICK n \in Records : n = written'
  BY <1>0
<1>2. CASE UNCHANGED <<live, target, beside, fell>>
  BY <1>0, <1>2 DEF Grows, Text
<1>3. CASE /\ \E text \in IF live[f] # None THEN {live[f]}
                         ELSE {{}} \cup ({orig[f], target[f]} \ {None}) :
                live' = [live EXCEPT ![f] = text \cup {written'}]
           /\ fell' = fell \cup {written'}
           /\ UNCHANGED <<target, beside>>
  <2>1. PICK text \in SUBSET Records : Text(live[f]) \subseteq text /\ live' = [live EXCEPT ![f] = text \cup {n}]
    <3>1. PICK text \in IF live[f] # None THEN {live[f]} ELSE {{}} \cup ({orig[f], target[f]} \ {None}) :
                  live' = [live EXCEPT ![f] = text \cup {written'}]
      BY <1>3
    <3>2. text \in SUBSET Records /\ Text(live[f]) \subseteq text
      BY <1>0, <3>1 DEF Contents, Text
    <3>. QED
      BY <1>1, <3>1, <3>2
  <2>3. n \in Text(live'[f]) /\ \A h \in Files : Text(live[h]) \subseteq Text(live'[h])
    <3>2. PICK d \in Directory, e \in Directory : d = live /\ e = live'
      BY <1>0
    <3>3. e = [d EXCEPT ![f] = text \cup {n}] /\ Text(d[f]) \subseteq text
      BY <2>1, <3>2
    <3>4. n \in Text(e[f]) /\ \A h \in Files : Text(d[h]) \subseteq Text(e[h])
      BY <3>2, <3>3, AddedTo
    <3>. QED
      BY <3>2, <3>4
  <2>4. IsKept(n)'
    BY <2>3 DEF IsKept, Text
  <2>. QED
    BY <1>0, <1>1, <1>3, <2>3, <2>4 DEF Grows, Text
<1>4. CASE /\ target' = [target EXCEPT ![f] = (IF @ = None THEN {} ELSE @) \cup {written'}]
           /\ fell' = fell \cup {written'}
           /\ UNCHANGED <<live, beside>>
  <2>1. PICK text \in SUBSET Records : Text(target[f]) \subseteq text /\ target' = [target EXCEPT ![f] = text \cup {n}]
    <3>1. CASE target[f] = None
      <4>1. target' = [target EXCEPT ![f] = {} \cup {n}]
        BY <1>0, <1>1, <1>4, <3>1 DEF Directory
      <4>. QED
        BY <3>1, <4>1 DEF Text
    <3>2. CASE target[f] # None
      <4>1. target' = [target EXCEPT ![f] = target[f] \cup {n}]
        BY <1>0, <1>1, <1>4, <3>2 DEF Directory
      <4>. QED
        BY <1>0, <3>2, <4>1 DEF Text, Contents
    <3>. QED
      BY <3>1, <3>2
  <2>3. n \in Text(target'[f]) /\ \A h \in Files : Text(target[h]) \subseteq Text(target'[h])
    <3>2. PICK d \in Directory, e \in Directory : d = target /\ e = target'
      BY <1>0
    <3>3. e = [d EXCEPT ![f] = text \cup {n}] /\ Text(d[f]) \subseteq text
      BY <2>1, <3>2
    <3>4. n \in Text(e[f]) /\ \A h \in Files : Text(d[h]) \subseteq Text(e[h])
      BY <2>1, <3>2, <3>3, AddedTo
    <3>. QED
      BY <3>2, <3>4
  <2>4. IsKept(n)'
    BY <2>3 DEF IsKept, Text
  <2>. QED
    BY <1>0, <1>1, <1>4, <2>3, <2>4 DEF Grows, Text
<1>. QED
  BY <1>2, <1>3, <1>4 DEF Write, aside

LEMMA OutsideLoss ==
    ASSUME BaseInv, MountInv, TypeInv', LossInv, NoRaces,
           \/ Mount \/ Unmount \/ \E f \in Files : Write(f) \/ Link(f)
    PROVE  LossInv'
<1>0. UNCHANGED <<load, orig, gens, cmd>> /\ Memory' = Memory /\ load \in Workloads
  BY OutsideHand, PlansSame DEF BaseInv, TypeInv
<1>1. QuarInv'
  BY <1>0 DEF LossInv, QuarInv
<1>2. PlacedInv'
  <2>1. SUFFICES ASSUME NEW p \in Procs, cmd[p].pc \in Placing \cup {"unlink"} PROVE PlacedKept(p)'
    BY <1>0 DEF PlacedInv, PlacedKept, Placing
  <2>2. cmd[p].pc # "unlink" => ~mounted
    BY <2>1 DEF BaseInv, HandInv, StillThere, MountInv, Fallthrough, Placing
  <2>3. ~InReach /\ "shared" \notin load.writes
    <3>1. CASE cmd[p].pc = "place" \/ cmd[p].pc \in {"put", "putbeside", "unlink"}
      BY <1>0, <3>1 DEF InReach, Deleting, NoRaces
    <3>. QED
      BY <2>1, <3>1 DEF Placing
  <2>4. UNCHANGED live /\ (cmd[p].pc # "unlink" => UNCHANGED <<target, beside>>)
    BY <2>2, <2>3 DEF Mount, Unmount, Write, Link, disk, aside
  <2>5. CASE cmd[p].pc # "unlink"
    BY <1>0, <2>4, <2>5, PlacedSame DEF LossInv, PlacedInv
  <2>6. CASE cmd[p].pc = "unlink"
    <3>1. Gen(p)' = Gen(p) /\ File(p)' = File(p)
      BY <1>0 DEF Gen, File
    <3>2. DurableSupersetOk(p)' <=> DurableSupersetOk(p)
      BY <1>0, <3>1 DEF DurableSupersetOk, Bytes
    <3>. QED
      BY <1>0, <2>4, <2>6, <3>1, <3>2 DEF LossInv, PlacedInv, PlacedKept, Placing
  <2>. QED
    BY <2>5, <2>6
<1>3. KeptInv'
  <2>1. Grows /\ \A r \in fell' : r \in fell \/ IsKept(r)'
    <3>1. CASE Mount \/ Unmount \/ \E f \in Files : Link(f)
      <4>1. UNCHANGED <<live, target, beside, fell>>
        BY <3>1 DEF Mount, Unmount, Link, disk, aside, ghosts
      <4>. QED
        BY <1>0, <4>1 DEF Grows, Text
    <3>. QED
      BY <3>1, WriteGrows
  <2>2. QuarGrows
    BY <1>0 DEF QuarGrows
  <2>3. \A r : IsTaken(r) => IsTaken(r)'
    <3>1. \A p \in Procs : Gen(p)' = Gen(p)
      BY <1>0 DEF Gen
    <3>. QED
      BY <1>0, <3>1 DEF IsTaken, Text
  <2>. QED
    BY <2>1, <2>2, <2>3, KeptGrows DEF LossInv, KeptInv
<1>. QED
  BY <1>1, <1>2, <1>3 DEF LossInv

LEMMA InitLoss == Init => LossInv
<1>. SUFFICES ASSUME Init PROVE LossInv
  OBVIOUS
<1>1. gens = <<>> /\ DOMAIN gens = {} /\ fell = {1} /\ \A p \in Procs : cmd[p].pc = "idle"
  BY DEF Init, Idle
<1>2. IsKept(1)
  <2>1. PICK f \in Files : LET first == [NoFiles EXCEPT ![f] = {1}]
                           IN /\ orig = IF f \in Memory THEN NoFiles ELSE first
                              /\ target = IF f \in Memory THEN first ELSE NoFiles
    BY DEF Init
  <2>2. orig[f] = {1} \/ target[f] = {1}
    BY <2>1 DEF NoFiles
  <2>3. {1} # None
    BY RecordsAssumption, NoneAssumption
  <2>. QED
    BY <2>2, <2>3 DEF IsKept, Text
<1>. QED
  BY <1>1, <1>2 DEF LossInv, KeptInv, QuarInv, PlacedInv, PlacedKept, Placing

LEMMA NextLoss ==
    ASSUME BaseInv, MountInv, BaseInv', SettledInv, UndoInv', LossInv, NoRaces, NoLargeSubagent, [Next]_vars
    PROVE  LossInv'
<1>0. TypeInv'
  BY DEF BaseInv
<1>1. CASE Mount \/ Unmount \/ \E f \in Files : Write(f) \/ Link(f)
  BY <1>0, <1>1, OutsideLoss
<1>2. ASSUME NEW p \in Procs, ReconcileSteps(p) \/ UndoSteps(p) \/ Crash(p)
      PROVE  LossInv'
  <2>1. QuarInv'
    BY <1>0, <1>2, QuarKept DEF LossInv
  <2>2. PlacedInv'
    <3>1. SUFFICES ASSUME NEW q \in Procs PROVE PlacedKept(q)'
      BY DEF PlacedInv
    <3>2. CASE q = p
      BY <1>0, <1>2, <3>2, PlacedStep DEF LossInv, PlacedInv
    <3>3. CASE q # p /\ (InRun(q) \/ InUndo(q))
      <4>1. cmd'[q] = cmd[q] /\ UNCHANGED <<load, orig, live, target, beside, gens>>
        BY <1>0, <1>2, <3>3, CmdSteps, OutsideSteps DEF aside
      <4>. QED
        BY <4>1, PlacedSame DEF LossInv, PlacedInv
    <3>4. CASE q # p /\ ~InRun(q) /\ ~InUndo(q)
      <4>1. cmd'[q] = cmd[q]
        BY <1>0, <1>2, <3>4, CmdSteps
      <4>. QED
        BY <3>4, <4>1 DEF PlacedKept, Placing, InRun, Running
    <3>. QED
      BY <3>2, <3>3, <3>4
  <2>3. KeptInv'
    <3>1. UNCHANGED fell
      <4>1. ASSUME \/ \E k \in Commands : Begin(p, k)
                   \/ CheckPreconditions(p) \/ SnapshotUnderlay(p) \/ Preview(p) \/ PlanEntries(p) \/ Entry(p)
                   \/ StashPreimage(p) \/ WriteOrig(p) \/ QuarantineReuse(p) \/ FinishDelete(p) \/ RestoreMemory(p)
                   \/ PlaceRead(p) \/ PlaceWrite(p) \/ Relocate(p) \/ Prune(p) \/ WriteManifest(p)
            PROVE  UNCHANGED fell
        BY <4>1 DEF Begin, CheckPreconditions, SnapshotUnderlay, Preview, PlanEntries, Entry, StashPreimage, WriteOrig,
                    QuarantineReuse, FinishDelete, RestoreMemory, PlaceRead, PlaceWrite, Relocate, Prune, WriteManifest, ghosts
      <4>2. ASSUME \/ UndoCheck(p) \/ AbortIfMounted(p) \/ Reverse(p) \/ RestoreUnderlay(p) \/ WriteUndone(p) \/ Crash(p)
                   \/ \E from, to \in Pcs, on \in BOOLEAN : SetReconciling(p, from, on, to)
                   \/ \E from, to \in Pcs : ReingestOneFile(p, from, to)
            PROVE  UNCHANGED fell
        BY <4>2 DEF UndoCheck, AbortIfMounted, Reverse, RestoreUnderlay, WriteUndone, Crash, CutShort, SetReconciling,
                    ReingestOneFile, ghosts
      <4>. QED
        BY <1>2, <4>1, <4>2, Steps
    <3>. QED
      BY <1>2, <3>1, CopiesKept DEF LossInv, KeptInv
  <2>. QED
    BY <2>1, <2>2, <2>3 DEF LossInv
<1>3. CASE UNCHANGED vars
  <2>1. UNCHANGED <<load, orig, live, target, beside, gens, cmd, fell>>
    BY <1>3 DEF vars, disk, aside, ghosts
  <2>2. Memory' = Memory /\ \A p \in Procs : Gen(p)' = Gen(p)
    BY <2>1, PlansSame DEF Gen
  <2>3. QuarInv' /\ PlacedInv'
    BY <2>1, <2>2, PlacedSame DEF LossInv, QuarInv, PlacedInv
  <2>4. Grows /\ QuarGrows /\ \A r : IsTaken(r) => IsTaken(r)'
    BY <2>1, <2>2 DEF Grows, QuarGrows, IsTaken, Text
  <2>. QED
    BY <2>1, <2>3, <2>4, KeptGrows DEF LossInv, KeptInv
<1>. QED
  BY <1>1, <1>2, <1>3 DEF Next

\* Zero loss: whatever was written while the project was not mounted is in orig,
\* in the underlay, in quarantine, or in or beside the target of the memory
\* link; and if it is in the stash alone, undo has its marker set.  This also
\* where the project is mounted under a run of reconcile; but a subagent file
\* too large to be read must not exist, for the code deletes it unmerged.
THEOREM NothingLost ==
    ASSUME NoRaces, NoLargeSubagent PROVE Spec => []FallthroughKept
<1> DEFINE Inv == BaseInv /\ MountInv /\ SettledInv /\ UndoInv /\ LossInv
<1>u. UndoAlone /\ UndoUndisturbed
  BY NoRacesFacts
<1>1. Init => Inv
  BY InitBase, InitMount, InitSettled, InitUndo, InitLoss
<1>2. Inv /\ [Next]_vars => Inv'
  <2>. SUFFICES ASSUME BaseInv, MountInv, SettledInv, UndoInv, LossInv, [Next]_vars PROVE Inv'
    OBVIOUS
  <2>1. BaseInv' /\ MountInv'
    BY <1>u, NextBase, NextMount
  <2>2. SettledInv' /\ UndoInv'
    BY <1>u, <2>1, NextSettled, NextUndo DEF BaseInv
  <2>. QED
    BY <2>1, <2>2, NextLoss
<1>3. Inv => FallthroughKept
  <2>. SUFFICES ASSUME BaseInv, MountInv, LossInv, NEW r \in fell
                PROVE  r \in
         All(orig) \cup All(live) \cup InTarget \cup InQuarantine \cup (IF marker THEN InStash ELSE {})
    BY DEF FallthroughKept
  <2>1. CASE IsKept(r)
    <3>1. ASSUME NEW f \in Files, r \in Text(orig[f]) \/ r \in Text(live[f]) \/ r \in Text(target[f])
          PROVE  r \in All(orig) \cup All(live) \cup InTarget
      BY <3>1 DEF InTarget, All, Present, Text
    <3>2. ASSUME NEW f \in Files, NEW c \in beside[f], r \in c
          PROVE  r \in InTarget
      BY <3>2 DEF InTarget
    <3>3. ASSUME NEW g \in DOMAIN gens, NEW f \in Files \ Memory, r \in Text(gens[g].quar[f])
          PROVE  r \in InQuarantine
      <4>1. r \in UNION {gens[g].quar[h] : h \in Present(gens[g].quar) \ Memory}
        BY <3>3 DEF Present, Text
      <4>. QED
        BY <4>1 DEF InQuarantine
    <3>. QED
      BY <2>1, <3>1, <3>2, <3>3 DEF IsKept
  <2>2. CASE IsTaken(r)
    <3>1. PICK p \in Procs : cmd[p].pc \in {"reverse", "rebuild"} /\ \E f \in Files : r \in Text(Gen(p).snap[f])
      BY <2>2 DEF IsTaken
    <3>2. marker /\ InUndo(p)
      BY <3>1 DEF MountInv, InUndo, Undoing
    <3>3. Gen(p) = gens[Latest] /\ Latest \in DOMAIN gens
      BY <3>2, HandFacts DEF BaseInv, TypeInv, Latest
    <3>4. r \in All(gens[Latest].snap)
      BY <3>1, <3>3 DEF All, Present, Text
    <3>. QED
      BY <3>2, <3>3, <3>4 DEF InStash
  <2>. QED
    BY <2>1, <2>2 DEF LossInv, KeptInv
<1>. QED
  BY <1>1, <1>2, <1>3, PTL DEF Spec

-----------------------------------------------------------------------------
(* What a mount serves                                                      *)

\* What was merged into orig is still in the copy it was read from.
Copied(f, copy) ==
    /\ copy # None
    /\ f \notin Of("subagent") => orig[f] \cap copy # {}
    /\ f \notin Sessions => copy = orig[f]

\* Every file holds something, unless it may be a subagent's that is too large.
FullInv ==
    \A f \in Files \ Of("subagent") :
        /\ orig[f] # {} /\ backing[f] # {} /\ live[f] # {}
        /\ \A g \in DOMAIN gens : gens[g].snap[f] # {} /\ gens[g].pre[f] # {}

\* The files a run has still to ingest or to set aside.
Coming == {"stash", "merge", "reingest", "quarantine"}
Ahead(p) ==
    CASE cmd[p].pc \in {"mark", "plan"}  -> Present(Gen(p).snap) \ Memory
      [] cmd[p].pc \in Coming           -> (cmd[p].todo \ Memory) \cup {File(p)}
      [] cmd[p].pc \in Planned \ Coming -> cmd[p].todo \ Memory
      [] OTHER                          -> {}

\* Writers only add to them, and where commands may be cut short no more than
\* sessions; what was read through a mount is in the backing.
AheadKept(p) ==
    \A f \in Ahead(p) :
        IF Gen(p).through
        THEN backing[f] # None /\ Gen(p).snap[f] \subseteq backing[f]
        ELSE /\ Gen(p).snap[f] \subseteq live[f]
             /\ load.crash # {} /\ f \notin Sessions => live[f] = Gen(p).snap[f]

Served(f) == backing[f] # None /\ orig[f] \subseteq backing[f]

\* A run was cut short between orig and the archive: the underlay still has the
\* file, and a run that has found it there finds what it has to do again.
Limbo(f) ==
    /\ load.crash # {} /\ backing[f] = None /\ Copied(f, live[f])
    /\ \A p \in Procs : InRun(p) => Copied(f, Gen(p).snap[f])

\* What was read through a mount is served already.
Ingesting(p) == cmd[p].pc = "rebuild" \/ (cmd[p].pc = "reingest" /\ ~Gen(p).through)
InIngest(f)  == \E p \in Procs : Ingesting(p) /\ File(p) = f

\* What the archive is made of, and what is deleted once it is there.
IngestKept(p) ==
    /\ cmd[p].pc = "reingest" => orig[File(p)] # None /\ Copied(File(p), Gen(p).snap[File(p)])
    /\ cmd[p].pc \in {"gate", "unlink"} /\ File(p) \in Present(orig) \ halved => Served(File(p))

ServedInv ==
    /\ FullInv
    /\ \A p \in Procs : AheadKept(p) /\ IngestKept(p)
    /\ \A f \in Present(orig) \ halved : Served(f) \/ Limbo(f) \/ InIngest(f)

\* Where a run may be cut short, a file that is no session is not written again
\* before it is merged; and an undo runs alone and is not cut short.
CutShortOnly ==
    \A w \in Workloads : /\ w.crash # {} => "again" \notin w.writes
                         /\ "undo" \in w.commands => w.alone /\ "undo" \notin w.crash

LEMMA CutShortAlone == CutShortOnly => UndoAlone
  BY DEF CutShortOnly, UndoAlone

LEMMA InitServed == Init => ServedInv
<1>. SUFFICES ASSUME Init PROVE ServedInv
  OBVIOUS
<1>1. /\ gens = <<>> /\ DOMAIN gens = {} /\ backing = orig /\ live = NoFiles
      /\ \A p \in Procs : cmd[p].pc = "idle"
  BY DEF Init, Idle
<1>2. FullInv
  <2>1. {} # None
    BY NoneAssumption
  <2>2. PICK f \in Files : orig \in {NoFiles, [NoFiles EXCEPT ![f] = {1}]}
    BY DEF Init
  <2>3. \A h \in Files : orig[h] # {}
    BY <2>1, <2>2 DEF NoFiles
  <2>. QED
    BY <1>1, <2>1, <2>3, NoFilesType DEF FullInv
<1>3. \A p \in Procs : AheadKept(p) /\ IngestKept(p)
  BY <1>1 DEF AheadKept, IngestKept, Ahead, Coming, InHand, Planned, Running
<1>4. \A f \in Present(orig) : Served(f)
  BY <1>1 DEF Served, Present
<1>. QED
  BY <1>2, <1>3, <1>4 DEF ServedInv

\* The steps that change the archive.
LEMMA BackingSteps ==
    ASSUME NEW p \in Procs, ReconcileSteps(p) \/ UndoSteps(p) \/ Crash(p)
    PROVE  \/ UNCHANGED backing
           \/ ReingestOneFile(p, "reingest", "gate") \/ ReingestOneFile(p, "rebuild", "reverse")
           \/ FinishDelete(p) \/ RestoreUnderlay(p)
<1>1. ASSUME \/ \E k \in Commands : Begin(p, k)
             \/ CheckPreconditions(p) \/ SnapshotUnderlay(p) \/ Preview(p) \/ PlanEntries(p) \/ Entry(p)
             \/ StashPreimage(p) \/ WriteOrig(p) \/ QuarantineReuse(p) \/ RestoreMemory(p)
             \/ PlaceRead(p) \/ PlaceWrite(p) \/ Relocate(p) \/ Prune(p) \/ WriteManifest(p)
      PROVE  UNCHANGED backing
  BY <1>1 DEF Begin, CheckPreconditions, SnapshotUnderlay, Preview, PlanEntries, Entry, StashPreimage, WriteOrig,
              QuarantineReuse, RestoreMemory, PlaceRead, PlaceWrite, Relocate, Prune, WriteManifest, disk
<1>2. ASSUME \/ UndoCheck(p) \/ AbortIfMounted(p) \/ Reverse(p) \/ WriteUndone(p) \/ Crash(p)
             \/ \E from, to \in Pcs, on \in BOOLEAN : SetReconciling(p, from, on, to)
      PROVE  UNCHANGED backing
  BY <1>2 DEF UndoCheck, AbortIfMounted, Reverse, WriteUndone, Crash, CutShort, SetReconciling, disk
<1>. QED
  BY <1>1, <1>2, PcValues DEF ReconcileSteps, UndoSteps, Commands

\* No file, snapshot or preimage is ever empty.
LEMMA FullKept ==
    ASSUME BaseInv, TypeInv', FullInv, NEW p \in Procs, ReconcileSteps(p) \/ UndoSteps(p) \/ Crash(p)
    PROVE  FullInv'
<1>0. /\ gens \in Seq(Generations) /\ gens' \in Seq(Generations) /\ Latest = Len(gens) /\ Latest \in Nat
      /\ DOMAIN gens = 1..Latest /\ DOMAIN gens' = 1..Latest'
      /\ live \in Directory /\ orig \in Directory /\ backing \in Directory
      /\ {} # None /\ UNCHANGED load /\ Of("subagent")' = Of("subagent")
  BY NoneAssumption, CmdSteps DEF BaseInv, TypeInv, Latest, Of
<1>. SUFFICES ASSUME NEW f \in Files \ Of("subagent")
              PROVE  /\ orig'[f] # {} /\ backing'[f] # {} /\ live'[f] # {}
                     /\ \A g \in DOMAIN gens' : gens'[g].snap[f] # {} /\ gens'[g].pre[f] # {}
  BY <1>0 DEF FullInv
<1>f. /\ orig[f] # {} /\ backing[f] # {} /\ live[f] # {}
      /\ \A g \in DOMAIN gens : gens[g].snap[f] # {} /\ gens[g].pre[f] # {}
  BY DEF FullInv
<1>g. InRun(p) \/ InUndo(p) => Gen(p).snap[f] # {} /\ Gen(p).pre[f] # {}
  BY <1>0, <1>f, HandFacts
<1>1. \A g \in DOMAIN gens' : gens'[g].snap[f] # {} /\ gens'[g].pre[f] # {}
  <2>1. CASE UNCHANGED gens
    BY <1>f, <2>1
  <2>2. CASE GenAdded
    BY <1>0, <1>f, <2>2 DEF GenAdded, Mountpoint, NoFiles
  <2>3. CASE /\ GenChanged /\ cmd[p].gen = Latest
             /\ \/ StashPreimage(p) \/ QuarantineReuse(p) \/ Relocate(p) \/ WriteManifest(p)
                \/ Reverse(p) \/ WriteUndone(p)
    <3>1. Latest \in 1..Latest /\ gens[Latest] \in Generations
      BY <1>0, <2>3 DEF GenChanged
    <3>2. gens'[Latest].pre[f] \in {gens[Latest].pre[f], orig[f]}
      <4>1. CASE StashPreimage(p)
        <5>1. gens' = gens \/ gens' = [gens EXCEPT ![Latest].pre[File(p)] = orig[File(p)]]
          BY <2>3, <4>1 DEF StashPreimage
        <5>2. gens'[Latest].pre \in {gens[Latest].pre, [gens[Latest].pre EXCEPT ![File(p)] = orig[File(p)]]}
          BY <1>0, <3>1, <5>1 DEF Generations
        <5>3. gens[Latest].pre \in Directory
          BY <3>1 DEF Generations
        <5>. QED
          BY <5>2, <5>3 DEF Directory
      <4>2. CASE QuarantineReuse(p)
        BY <1>0, <2>3, <3>1, <4>2 DEF QuarantineReuse, Generations
      <4>3. CASE Relocate(p)
        BY <1>0, <2>3, <3>1, <4>3 DEF Relocate, Generations
      <4>4. CASE WriteManifest(p)
        <5> DEFINE m == [h \in Files |-> IF cmd[p].plan[h] = None THEN "Noop" ELSE Reversal(p, h)]
        <5>1. gens' = gens \/ gens' = [gens EXCEPT ![Latest].manifest = m]
          BY <2>3, <4>4 DEF WriteManifest
        <5>. HIDE DEF m
        <5>. QED
          BY <1>0, <3>1, <5>1 DEF Generations
      <4>5. CASE WriteUndone(p)
        BY <1>0, <2>3, <3>1, <4>5 DEF WriteUndone, Generations
      <4>6. CASE Reverse(p)
        <5>1. PICK h \in Files : Reversed(p, h)
          BY <4>6, ReverseParts
        <5>2. UNCHANGED gens \/ gens' = [gens EXCEPT ![Latest].quar[h] = None]
          BY <5>1 DEF Reversed
        <5>. QED
          BY <1>0, <3>1, <5>2 DEF Generations
      <4>. QED
        BY <2>3, <4>1, <4>2, <4>3, <4>4, <4>5, <4>6
    <3>. QED
      BY <1>0, <1>f, <2>3, <3>1, <3>2 DEF GenChanged
  <2>. QED
    BY <2>1, <2>2, <2>3, GenSteps
<1>2. live'[f] # {}
  <2>1. CASE UNCHANGED live
    BY <1>f, <2>1
  <2>2. CASE FinishDelete(p)
    BY <1>0, <1>f, <2>2 DEF FinishDelete, Directory
  <2>3. CASE Relocate(p)
    BY <1>0, <1>f, <2>3 DEF Relocate
  <2>4. CASE RestoreUnderlay(p)
    <3>1. InUndo(p)
      BY <2>4 DEF RestoreUnderlay, At, InUndo, Undoing
    <3>2. live'[f] \in {live[f], Gen(p).snap[f]}
      BY <2>4 DEF RestoreUnderlay
    <3>. QED
      BY <1>f, <1>g, <3>1, <3>2
  <2>5. CASE WriteOrig(p) \/ PlaceWrite(p) \/ Reverse(p)
    BY <1>f, <2>5 DEF WriteOrig, PlaceWrite, Reverse
  <2>. QED
    BY <2>1, <2>2, <2>3, <2>4, <2>5, FileSteps
<1>3. orig'[f] # {}
  <2>1. CASE UNCHANGED orig
    BY <1>f, <2>1
  <2>2. CASE WriteOrig(p)
    <3>1. cmd[p].pc = "merge" /\ orig' = [orig EXCEPT ![File(p)] = MergedFile(p)] /\ InRun(p)
      BY <2>2 DEF WriteOrig, At, InRun, Running
    <3>2. CASE File(p) = f
      <4>1. File(p) \notin load.large
        BY <1>0, <3>1, <3>2, HandFacts DEF PlanFits, InHand
      <4>2. MergedFile(p) \in {Gen(p).snap[f], orig[f] \cup Gen(p).snap[f]}
        BY <3>2, <4>1 DEF MergedFile, Merged, SessionMerge, Bytes
      <4>3. Gen(p).snap[f] # {}
        BY <1>g, <3>1
      <4>4. orig'[f] = MergedFile(p)
        BY <1>0, <3>1, <3>2 DEF Directory
      <4>. QED
        BY <4>2, <4>3, <4>4
    <3>3. CASE File(p) # f
      BY <1>0, <1>f, <3>1, <3>3 DEF Directory
    <3>. QED
      BY <3>2, <3>3
  <2>3. CASE Reverse(p)
    <3>1. PICK h \in Files : Reversed(p, h)
      BY <2>3, ReverseParts
    <3>2. Gen(p).pre[f] # {}
      BY <1>g, <3>1 DEF Reversed, InUndo, Undoing
    <3>. QED
      BY <1>0, <1>f, <3>1, <3>2 DEF Reversed, Directory
  <2>4. CASE FinishDelete(p) \/ PlaceWrite(p) \/ Relocate(p) \/ RestoreUnderlay(p)
    BY <1>f, <2>4 DEF FinishDelete, PlaceWrite, Relocate, RestoreUnderlay
  <2>. QED
    BY <2>1, <2>2, <2>3, <2>4, FileSteps
<1>4. backing'[f] # {}
  <2>1. CASE UNCHANGED backing
    BY <1>f, <2>1
  <2>2. CASE \E from, to \in Pcs : ReingestOneFile(p, from, to)
    BY <1>0, <1>f, <2>2 DEF ReingestOneFile, Directory
  <2>3. CASE FinishDelete(p)
    BY <1>0, <1>f, <2>3 DEF FinishDelete, Directory
  <2>4. CASE RestoreUnderlay(p)
    <3>1. InUndo(p)
      BY <2>4 DEF RestoreUnderlay, At, InUndo, Undoing
    <3>2. backing'[f] \in {backing[f], Gen(p).snap[f]}
      BY <2>4 DEF RestoreUnderlay
    <3>. QED
      BY <1>f, <1>g, <3>1, <3>2
  <2>. QED
    BY <2>1, <2>2, <2>3, <2>4, BackingSteps, PcValues
<1>. QED
  BY <1>1, <1>2, <1>3, <1>4

\* What a run has ahead of it only shrinks.
LEMMA AheadShrinks ==
    ASSUME BaseInv, BaseInv', NEW p \in Procs, ReconcileSteps(p), InRun(p), InRun(p)'
    PROVE  Ahead(p)' \subseteq Ahead(p) /\ \A f \in Ahead(p)' : live'[f] = live[f] /\ backing'[f] = backing[f]
<1>0. /\ cmd \in [Procs -> Cmds] /\ cmd[p] \in Cmds /\ StillThere(p) /\ StillThere(p)'
      /\ live \in Directory /\ backing \in Directory
      /\ UNCHANGED load /\ Memory' = Memory /\ Gen(p)'.snap = Gen(p).snap
  <2>1. UNCHANGED load
    BY CmdSteps DEF BaseInv
  <2>2. StillThere(p)'
    BY DEF BaseInv, HandInv
  <2>3. cmd'[p].gen = cmd[p].gen
    BY CmdSteps, RunGen, NoneAssumption DEF BaseInv, GoesOn, Leaves, Starts, Enters, InRun, Running, Idle
  <2>. QED
    BY <2>1, <2>2, <2>3, HandFacts, HandBy, SnapKept, PlansSame DEF BaseInv, TypeInv
<1>1. CASE SetReconciling(p, "mark", TRUE, "plan")
  <2>1. cmd[p].pc = "mark" /\ cmd'[p].pc = "plan" /\ UNCHANGED <<live, backing>>
    BY <1>0, <1>1 DEF SetReconciling, Goto, At, Cmds
  <2>. QED
    BY <1>0, <2>1 DEF Ahead, Present, Coming, Planned, Running
<1>2. CASE PlanEntries(p)
  <2>1. cmd[p].pc = "plan" /\ cmd'[p].pc = "entry" /\ UNCHANGED <<live, backing>> /\ cmd'[p].todo = Present(Gen(p).snap)
    <3>1. PICK plan \in [Files -> EntryPlans \cup {None}] :
             cmd' = [cmd EXCEPT ![p].pc = "entry", ![p].todo = Present(Gen(p).snap), ![p].plan = plan]
      BY <1>2 DEF PlanEntries
    <3>. QED
      BY <1>0, <1>2, <3>1 DEF PlanEntries, At, Cmds, disk
  <2>. QED
    BY <1>0, <2>1 DEF Ahead, Coming, Planned, Running, Present
<1>3. CASE Entry(p)
  <2>1. PICK f \in cmd[p].todo : \E plan \in EntryPlans : EntryTaken(p, f, plan)
    BY <1>3, EntryParts DEF BaseInv
  <2>2. PICK plan \in EntryPlans : EntryTaken(p, f, plan)
    BY <2>1
  <2>3. /\ cmd[p].pc = "entry" /\ cmd'[p].todo = cmd[p].todo \ {f} /\ File(p)' = f /\ UNCHANGED <<live, backing>>
        /\ cmd'[p].pc \in {"entry", "stash", "quarantine", "memory", "gate", "reingest"}
    BY <1>0, <1>3, <2>2 DEF Entry, At, EntryTaken, File, Cmds, disk
  <2>4. cmd'[p].pc \in Coming => f \notin Memory
    BY <1>0, <2>3 DEF StillThere, InHand, Coming
  <2>. QED
    BY <1>0, <2>1, <2>3, <2>4 DEF Ahead, Coming, Planned, Running
<1>4. CASE StashPreimage(p) \/ WriteOrig(p) \/ ReingestOneFile(p, "reingest", "gate") \/ QuarantineReuse(p)
           \/ FinishDelete(p)
  <2>1. /\ cmd[p].pc \in InHand /\ cmd'[p].todo = cmd[p].todo /\ File(p)' = File(p)
        /\ cmd'[p].pc \in {"merge", "reingest", "gate", "unlink", "entry"}
        /\ cmd'[p].pc \in Coming => cmd[p].pc \in Coming
        /\ \A f \in Files : (cmd'[p].pc \in Coming \/ f # File(p)) => live'[f] = live[f] /\ backing'[f] = backing[f]
    <3>1. CASE StashPreimage(p)
      BY <1>0, <3>1 DEF StashPreimage, Goto, At, Cmds, File, InHand, Coming
    <3>2. CASE WriteOrig(p) \/ ReingestOneFile(p, "reingest", "gate") \/ QuarantineReuse(p)
      BY <1>0, <3>2 DEF WriteOrig, ReingestOneFile, CutShort, Leave, Idle, QuarantineReuse, Goto, At, Cmds, File,
                        InHand, InRun, Running, Coming, Directory
    <3>3. CASE FinishDelete(p)
      BY <1>0, <3>3 DEF FinishDelete, Goto, At, Cmds, File, InHand, Coming, Directory
    <3>. QED
      BY <1>4, <3>1, <3>2, <3>3
  <2>2. File(p) \notin cmd[p].todo /\ cmd[p].todo \subseteq Files /\ File(p) \in Files
    BY <1>0, <2>1 DEF StillThere, Cmds, Present
  <2>3. CASE cmd'[p].pc \in Coming
    BY <1>0, <2>1, <2>2, <2>3 DEF Ahead, Coming
  <2>4. CASE cmd'[p].pc \notin Coming
    <3>1. Ahead(p)' = cmd[p].todo \ Memory
      BY <1>0, <2>1, <2>4 DEF Ahead, Coming, Planned, Running
    <3>2. cmd[p].todo \ Memory \subseteq Ahead(p)
      BY <2>1 DEF Ahead, Coming, Planned, Running, InHand
    <3>. QED
      BY <2>1, <2>2, <3>1, <3>2
  <2>. QED
    BY <2>3, <2>4
<1>5. CASE RestoreMemory(p) \/ PlaceRead(p) \/ PlaceWrite(p) \/ Relocate(p) \/ Prune(p) \/ WriteManifest(p)
  <2>1. /\ cmd[p].pc \in Planned \ Coming /\ cmd'[p].pc \in Planned \ Coming /\ cmd'[p].todo = cmd[p].todo
        /\ UNCHANGED backing /\ \A f \in Files \ Memory : live'[f] = live[f]
    <3>1. CASE PlaceRead(p)
      <4>1. PICK f \in cmd[p].left : PlaceTaken(p, f)
        BY <3>1, PlaceParts DEF BaseInv
      <4>. QED
        BY <3>1, <4>1 DEF PlaceTaken, PlaceRead, Planned, Running, Coming, disk
    <3>2. CASE RestoreMemory(p) \/ PlaceWrite(p)
      BY <1>0, <3>2 DEF RestoreMemory, PlaceWrite, Goto, At, Cmds, Planned, Running, Coming, disk
    <3>3. CASE Relocate(p) \/ Prune(p) \/ WriteManifest(p)
      BY <1>0, <3>3 DEF Relocate, Prune, WriteManifest, Goto, At, Cmds, Planned, Running, Coming
    <3>. QED
      BY <1>5, <3>1, <3>2, <3>3
  <2>2. cmd[p].todo \subseteq Files
    BY <1>0 DEF Cmds
  <2>. QED
    BY <1>0, <2>1, <2>2 DEF Ahead, Coming, Planned, Running
<1>6. ASSUME \/ Begin(p, "reconcile") \/ Begin(p, "preview") \/ CheckPreconditions(p) \/ SnapshotUnderlay(p)
             \/ Preview(p) \/ SetReconciling(p, "clear", FALSE, "idle")
      PROVE  FALSE
  BY <1>0, <1>6 DEF Begin, CheckPreconditions, SnapshotUnderlay, Preview, SetReconciling, Leave, At, InRun, Running,
                    Idle, Cmds
<1>. QED
  BY <1>1, <1>2, <1>3, <1>4, <1>5, <1>6 DEF ReconcileSteps

\* A run begins with the snapshot.
LEMMA RunBegins ==
    ASSUME BaseInv, TypeInv', NEW p \in Procs, ReconcileSteps(p) \/ UndoSteps(p) \/ Crash(p), InRun(p)', ~InRun(p)
    PROVE  /\ SnapshotUnderlay(p) /\ lock = None /\ Latest' = Latest + 1 /\ cmd'[p].gen = Latest'
           /\ cmd'[p].pc \in {"preview", "mark"} /\ UNCHANGED <<live, backing>>
           /\ Gen(p)'.snap = Mountpoint /\ Gen(p)'.through = mounted
<1>0. cmd \in [Procs -> Cmds] /\ cmd[p] \in Cmds /\ cmd[p].pc \notin Running
  BY HandFacts DEF InRun
<1>1. Enters(p)
  BY <1>0, CmdSteps DEF GoesOn, Stays, Leaves, Starts, InRun, Running, Undoing, Idle
<1>2. ~UndoCheck(p)
  <2>. SUFFICES ASSUME UndoCheck(p) PROVE FALSE
    OBVIOUS
  <2>1. cmd'[p].pc = "set" \/ cmd'[p] = Idle
    BY <1>0 DEF UndoCheck, Leave, Cmds
  <2>. QED
    BY <2>1 DEF InRun, Running, Idle
<1>3. SnapshotUnderlay(p)
  BY <1>1, <1>2, EnterSteps DEF Enters
<1>4. lock = None /\ UNCHANGED <<live, backing>> /\ cmd'[p].pc \in {"preview", "mark"}
  BY <1>0, <1>1, <1>3 DEF SnapshotUnderlay, Enters, Leave, Cmds, Idle, InRun, Running
<1>5. GenAdded
  <2>1. Latest' # Latest
    BY <1>0, <1>3 DEF SnapshotUnderlay, Leave, Idle, InRun, Running, Latest, BaseInv, TypeInv
  <2>. QED
    BY <1>3, <2>1, GenSteps DEF GenChanged, Latest
<1>. QED
  BY <1>1, <1>3, <1>4, <1>5 DEF Enters, GenAdded, Gen

LEMMA AheadStep ==
    ASSUME BaseInv, BaseInv', NEW p \in Procs, ReconcileSteps(p) \/ UndoSteps(p) \/ Crash(p), AheadKept(p)
    PROVE  AheadKept(p)'
<1>0. cmd \in [Procs -> Cmds] /\ cmd[p] \in Cmds /\ UNCHANGED load /\ Sessions' = Sessions /\ TypeInv'
  BY HandFacts, CmdSteps, PlansSame DEF BaseInv
<1>1. CASE ~InRun(p)'
  BY <1>1 DEF AheadKept, Ahead, InRun, Coming, Planned, Running
<1>2. CASE ~InRun(p) /\ InRun(p)'
  <2>1. /\ Gen(p)'.snap = Mountpoint /\ Gen(p)'.through = mounted /\ UNCHANGED <<live, backing>>
        /\ cmd'[p].pc \in {"preview", "mark"}
    BY <1>0, <1>2, RunBegins
  <2>2. Ahead(p)' \subseteq Present(Mountpoint)
    BY <2>1 DEF Ahead, Present, Coming, Planned, Running
  <2>. QED
    BY <2>1, <2>2 DEF AheadKept, Mountpoint, Present
<1>3. CASE InRun(p) /\ InRun(p)'
  <2>1. ReconcileSteps(p)
    <3>1. ~Crash(p)
      BY <1>0, <1>3 DEF Crash, CutShort, Leave, InRun, Running, Idle
    <3>2. ~UndoSteps(p)
      BY <1>0, <1>3 DEF UndoSteps, Begin, UndoCheck, SetReconciling, AbortIfMounted, Reverse, ReingestOneFile,
                        RestoreUnderlay, WriteUndone, At, InRun, Running, Idle
    <3>. QED
      BY <3>1, <3>2
  <2>2. Gen(p)'.snap = Gen(p).snap /\ Gen(p)'.through = Gen(p).through
    <3>1. cmd'[p].gen = cmd[p].gen
      BY <1>0, <1>3, CmdSteps, RunGen, NoneAssumption DEF GoesOn, Leaves, Starts, Enters, InRun, Running, Idle
    <3>. QED
      BY <1>0, <1>3, <2>1, <3>1, SnapKept, HandBy
  <2>. QED
    BY <1>0, <1>3, <2>1, <2>2, AheadShrinks DEF AheadKept
<1>. QED
  BY <1>1, <1>2, <1>3

\* Whatever step reaches them, what is ingested is the merge of the snapshot, and
\* what is deleted is served.
LEMMA IngestSteps ==
    ASSUME BaseInv, TypeInv', NEW p \in Procs, ReconcileSteps(p) \/ UndoSteps(p) \/ Crash(p),
           cmd'[p].pc \in {"reingest", "gate", "unlink"}
    PROVE  /\ Entry(p) \/ WriteOrig(p) \/ QuarantineReuse(p) \/ FinishDelete(p)
              \/ ReingestOneFile(p, "reingest", "gate")
           /\ Gen(p)'.snap = Gen(p).snap /\ Gen(p)'.through = Gen(p).through
           /\ ~ReingestOneFile(p, "reingest", "gate") => halved' = halved
<1>0. cmd \in [Procs -> Cmds] /\ cmd[p] \in Cmds
  BY HandFacts
<1>1. ASSUME \/ \E k \in Commands : Begin(p, k)
             \/ CheckPreconditions(p) \/ SnapshotUnderlay(p) \/ Preview(p) \/ StashPreimage(p)
             \/ RestoreMemory(p) \/ PlaceWrite(p) \/ Relocate(p) \/ Prune(p) \/ WriteManifest(p)
      PROVE  FALSE
  <2>1. CASE \E k \in Commands : Begin(p, k)
    BY <1>0, <2>1 DEF Begin, Cmds
  <2>2. CASE CheckPreconditions(p) \/ SnapshotUnderlay(p) \/ Preview(p)
    BY <1>0, <2>2 DEF CheckPreconditions, SnapshotUnderlay, Preview, Leave, Goto, Idle, Cmds
  <2>3. CASE StashPreimage(p) \/ RestoreMemory(p) \/ PlaceWrite(p)
    BY <1>0, <2>3 DEF StashPreimage, RestoreMemory, PlaceWrite, Goto, Cmds
  <2>4. CASE Relocate(p) \/ Prune(p) \/ WriteManifest(p)
    BY <1>0, <2>4 DEF Relocate, Prune, WriteManifest, Goto, Cmds
  <2>. QED
    BY <1>1, <2>1, <2>2, <2>3, <2>4
<1>2. ~PlaceRead(p)
  <2>. SUFFICES ASSUME PlaceRead(p) PROVE FALSE
    OBVIOUS
  <2>1. PICK f \in cmd[p].left : PlaceTaken(p, f)
    BY PlaceParts
  <2>. QED
    BY <2>1 DEF PlaceTaken
<1>3. ~PlanEntries(p)
  <2>. SUFFICES ASSUME PlanEntries(p) PROVE FALSE
    OBVIOUS
  <2>1. PICK plan \in [Files -> EntryPlans \cup {None}] :
           cmd' = [cmd EXCEPT ![p].pc = "entry", ![p].todo = Present(Gen(p).snap), ![p].plan = plan]
    BY DEF PlanEntries
  <2>. QED
    BY <1>0, <2>1 DEF Cmds
<1>4. ASSUME UndoCheck(p) \/ AbortIfMounted(p) \/ WriteUndone(p) \/ Crash(p) \/ Reverse(p) \/ RestoreUnderlay(p)
      PROVE  FALSE
  <2>1. CASE UndoCheck(p) \/ AbortIfMounted(p) \/ WriteUndone(p) \/ Crash(p) \/ RestoreUnderlay(p)
    BY <1>0, <2>1 DEF UndoCheck, AbortIfMounted, WriteUndone, Crash, CutShort, RestoreUnderlay, Leave, Goto, Idle, Cmds
  <2>2. CASE Reverse(p)
    <3>1. PICK f \in Files : Reversed(p, f)
      BY <2>2, ReverseParts
    <3>. QED
      BY <3>1 DEF Reversed
  <2>. QED
    BY <1>4, <2>1, <2>2
<1>5. ASSUME NEW from \in Pcs, NEW to \in {"plan", "idle", "recheck", "done"}, NEW on \in BOOLEAN, SetReconciling(p, from, on, to)
      PROVE  FALSE
  BY <1>0, <1>5 DEF SetReconciling, Leave, Goto, Idle, Cmds
<1>6. ~ReingestOneFile(p, "rebuild", "reverse")
  BY <1>0 DEF ReingestOneFile, CutShort, Leave, Goto, Idle, Cmds
<1>7. Entry(p) \/ WriteOrig(p) \/ QuarantineReuse(p) \/ FinishDelete(p) \/ ReingestOneFile(p, "reingest", "gate")
  BY <1>1, <1>2, <1>3, <1>4, <1>5, <1>6, PcValues DEF ReconcileSteps, UndoSteps, Commands
<1>8. InRun(p) /\ InRun(p)' /\ ReconcileSteps(p)
  BY <1>7 DEF Entry, WriteOrig, QuarantineReuse, FinishDelete, ReingestOneFile, At, InRun, Running, ReconcileSteps
<1>h. ~ReingestOneFile(p, "reingest", "gate") => halved' = halved
  <2>1. CASE FinishDelete(p)
    BY <1>0, <2>1 DEF FinishDelete, Goto, Cmds
  <2>. QED
    BY <1>7, <2>1 DEF Entry, WriteOrig, QuarantineReuse, ghosts
<1>9. cmd'[p].gen = cmd[p].gen
  BY <1>8, CmdSteps, RunGen, NoneAssumption DEF GoesOn, Leaves, Starts, Enters, InRun, Running, Idle
<1>. QED
  BY <1>7, <1>8, <1>9, <1>h, CmdSteps, SnapKept, HandBy

\* A file that waits to be served is not one to set aside.
LEMMA LimboPlans ==
    ASSUME BaseInv, NEW p \in Procs, NEW f \in Files \ Memory, InRun(p), orig[f] # None,
           Limbo(f), NEW plan \in Plans(f, orig[f], Gen(p).snap[f])
    PROVE  plan # "KeepSeparate" /\ backing[f] = None
<1>1. Copied(f, Gen(p).snap[f])
  BY DEF Limbo
<1>. QED
  BY <1>1 DEF Limbo, Copied, Plans, ByContent, Recommend, Sessions, Of

\* No other process is ingesting.
LEMMA OneIngest ==
    ASSUME BaseInv, NEW p \in Procs, InRun(p) \/ InUndo(p), cmd[p].pc \notin {"reingest", "rebuild"}, NEW f
    PROVE  ~InIngest(f)
<1>. SUFFICES ASSUME NEW q \in Procs, cmd[q].pc \in {"reingest", "rebuild"} PROVE FALSE
  BY DEF InIngest, Ingesting
<1>1. InRun(q) \/ InUndo(q)
  BY DEF InRun, InUndo, Running, Undoing
<1>. QED
  BY <1>1, RunGen

LEMMA IngestStep ==
    ASSUME BaseInv, BaseInv', ServedInv, NEW p \in Procs, ReconcileSteps(p) \/ UndoSteps(p) \/ Crash(p)
    PROVE  IngestKept(p)'
<1>. SUFFICES ASSUME cmd'[p].pc \in {"reingest", "gate", "unlink"} PROVE IngestKept(p)'
  BY DEF IngestKept
<1>0. /\ cmd \in [Procs -> Cmds] /\ cmd[p] \in Cmds /\ StillThere(p) /\ PlanFits(p) /\ StillThere(p)'
      /\ UNCHANGED load /\ Sessions' = Sessions /\ Memory' = Memory /\ TypeInv'
      /\ orig \in Directory /\ orig' \in Directory /\ backing \in Directory /\ None \notin EntryPlans
  BY HandFacts, CmdSteps, PlansSame, NoneAssumption DEF BaseInv, HandInv, TypeInv
<1>1. /\ Entry(p) \/ WriteOrig(p) \/ QuarantineReuse(p) \/ FinishDelete(p) \/ ReingestOneFile(p, "reingest", "gate")
      /\ Gen(p)'.snap = Gen(p).snap
      /\ ~ReingestOneFile(p, "reingest", "gate") => halved' = halved
  BY <1>0, IngestSteps
<1>2. InRun(p) /\ Gen(p) \in Generations /\ Gen(p).snap \in Directory /\ Gen(p) = gens[Latest] /\ Latest \in DOMAIN gens
  <2>1. InRun(p)
    BY <1>1 DEF Entry, WriteOrig, QuarantineReuse, FinishDelete, ReingestOneFile, At, InRun, Running
  <2>. QED
    BY <2>1, HandFacts DEF BaseInv, TypeInv, Latest
<1>3. CASE WriteOrig(p)
  <2>1. /\ cmd[p].pc = "merge" /\ cmd'[p].pc = "reingest" /\ File(p)' = File(p)
        /\ orig' = [orig EXCEPT ![File(p)] = MergedFile(p)]
    BY <1>0, <1>3 DEF WriteOrig, Goto, At, Cmds, File
  <2> DEFINE f == File(p)
             snap == Gen(p).snap[f]
  <2>2. f \in Files \ Memory /\ snap # None /\ cmd[p].plan[f] \in Plans(f, orig[f], snap)
        /\ cmd[p].plan[f] \in {"Union", "New"}
    BY <1>0, <2>1 DEF StillThere, PlanFits, InHand, StepPlans, Present, Planned, Running
  <2>3. /\ orig'[f] = MergedFile(p) /\ orig[f] \in Contents /\ snap \in SUBSET Records
        /\ Bytes(p) \subseteq snap /\ Of("subagent")' = Of("subagent")
        /\ f \notin Of("subagent") => snap # {} /\ Bytes(p) = snap
    BY <1>0, <1>2, <2>1, <2>2 DEF Directory, Contents, ServedInv, FullInv, Bytes, PlanFits, InHand, Of
  <2>4. CASE f \in Sessions
    <3>1. MergedFile(p) \in SUBSET Records /\ Bytes(p) \subseteq MergedFile(p)
      BY <2>3 DEF MergedFile, Merged, SessionMerge, Contents
    <3>. QED
      BY <1>0, <1>1, <2>1, <2>2, <2>3, <2>4, <3>1, NoneAssumption DEF IngestKept, Copied
  <2>5. CASE f \notin Sessions
    <3>1. cmd[p].plan[f] = "New"
      BY <2>2, <2>5 DEF Plans, ByContent, Sessions, Of
    <3>2. MergedFile(p) = snap
      BY <2>3, <2>5, <3>1 DEF MergedFile, Merged, Sessions
    <3>. QED
      BY <1>0, <1>1, <2>1, <2>2, <2>3, <2>5, <3>2 DEF IngestKept, Copied, Sessions
  <2>. QED
    BY <2>4, <2>5
<1>4. CASE Entry(p)
  <2>1. PICK f \in cmd[p].todo : \E plan \in EntryPlans : EntryTaken(p, f, plan)
    BY <1>4, EntryParts
  <2>2. PICK plan \in EntryPlans : EntryTaken(p, f, plan)
    BY <2>1
  <2>3. /\ cmd[p].pc = "entry" /\ cmd'[p].pc = FirstStep(p, f, plan) /\ File(p)' = f
        /\ UNCHANGED <<orig, backing>> /\ f \in Files
    BY <1>0, <1>4, <2>2 DEF Entry, At, EntryTaken, File, Cmds, disk
  <2>4. plan = "Identical" /\ plan \in Plans(f, orig[f], Gen(p).snap[f])
        /\ cmd'[p].pc = IF backing[f] # None THEN "gate" ELSE "reingest"
    BY <2>2, <2>3 DEF EntryTaken, FirstStep, StartStep, EntryPlans
  <2>5. f \notin Memory /\ Gen(p).snap[f] # None
    BY <1>0, <1>1, <2>3 DEF StillThere, InHand, Present
  <2>6. orig[f] # None /\ orig[f] = Gen(p).snap[f] /\ f \notin Of("subagent")
    BY <2>4, <2>5 DEF Plans, ByContent, Recommend
  <2>7. Gen(p).snap[f] \in SUBSET Records /\ Gen(p).snap[f] # {}
    BY <1>2, <2>3, <2>5, <2>6 DEF ServedInv, FullInv, Directory, Contents
  <2>8. CASE backing[f] = None
    BY <1>0, <1>1, <2>3, <2>4, <2>5, <2>6, <2>7, <2>8 DEF IngestKept, Copied
  <2>9. CASE backing[f] # None
    <3>1. ~InIngest(f) /\ ~Limbo(f)
      BY <1>2, <2>3, <2>9, OneIngest DEF Limbo
    <3>2. f \in Present(orig) \ halved => Served(f)
      BY <3>1 DEF ServedInv
    <3>3. halved' = halved
      BY <1>1, <2>3 DEF ReingestOneFile, At
    <3>. QED
      BY <2>3, <2>4, <2>9, <3>2, <3>3 DEF IngestKept, Served, Present
  <2>. QED
    BY <2>8, <2>9
<1>5. CASE QuarantineReuse(p)
  <2>1. cmd[p].pc = "quarantine" /\ cmd'[p].pc = "gate" /\ File(p)' = File(p) /\ UNCHANGED <<orig, backing>>
    BY <1>0, <1>5 DEF QuarantineReuse, Goto, At, Cmds, File
  <2> DEFINE f == File(p)
  <2>2. f \in Files \ Memory /\ cmd[p].plan[f] = "KeepSeparate" /\ cmd[p].plan[f] \in Plans(f, orig[f], Gen(p).snap[f])
    BY <1>0, <2>1 DEF StillThere, PlanFits, InHand, StepPlans, Present
  <2>3. ~InIngest(f)
    BY <1>2, <2>1, OneIngest
  <2>4. orig[f] # None => ~Limbo(f)
    BY <1>2, <2>2, LimboPlans
  <2>5. f \in Present(orig) \ halved => Served(f)
    BY <2>3, <2>4 DEF ServedInv, Present
  <2>6. halved' = halved
    BY <1>1, <2>1 DEF ReingestOneFile, At
  <2>. QED
    BY <2>1, <2>5, <2>6 DEF IngestKept, Served, Present
<1>6. CASE ReingestOneFile(p, "reingest", "gate")
  <2>1. /\ cmd[p].pc = "reingest" /\ cmd'[p].pc = "gate" /\ File(p)' = File(p) /\ UNCHANGED orig
        /\ backing' = [backing EXCEPT ![File(p)] = orig[File(p)]]
    BY <1>0, <1>6 DEF ReingestOneFile, CutShort, Leave, Idle, Goto, At, Cmds, File
  <2>2. File(p) \in Files
    BY <2>1, InHandFile
  <2>. QED
    BY <1>0, <2>1, <2>2 DEF IngestKept, Served, Present, Directory
<1>7. CASE FinishDelete(p)
  <2>1. cmd[p].pc = "gate" /\ cmd'[p].pc = "unlink" /\ File(p)' = File(p) /\ UNCHANGED <<orig, backing, halved>>
    BY <1>0, <1>7 DEF FinishDelete, Goto, At, Cmds, File
  <2>. QED
    BY <2>1 DEF ServedInv, IngestKept, Served, Present
<1>. QED
  BY <1>1, <1>3, <1>4, <1>5, <1>6, <1>7

IsServed(f) == Served(f) \/ Limbo(f) \/ InIngest(f)

\* A step that leaves a file alone, in orig, archive and underlay.
LEMMA ServedSame ==
    ASSUME BaseInv, BaseInv', MountInv, NEW p \in Procs, ReconcileSteps(p) \/ UndoSteps(p) \/ Crash(p),
           NEW f \in Files, orig'[f] = orig[f], backing'[f] = backing[f], live'[f] = live[f],
           cmd[p].pc \in {"reingest", "rebuild"} => File(p) # f, IsServed(f)
    PROVE  IsServed(f)'
<1>0. /\ UNCHANGED load /\ Sessions' = Sessions /\ \A q \in Procs : q # p => cmd'[q] = cmd[q]
      /\ cmd \in [Procs -> Cmds] /\ TypeInv' /\ Of("subagent")' = Of("subagent")
  BY HandFacts, CmdSteps, PlansSame DEF BaseInv, Of
<1>1. CASE Served(f)
  BY <1>1 DEF IsServed, Served
<1>2. CASE InIngest(f)
  <2>1. PICK q \in Procs : q # p /\ Ingesting(q) /\ File(q) = f
    BY <1>2 DEF InIngest, Ingesting
  <2>2. cmd'[q] = cmd[q] /\ UNCHANGED gens
    BY <1>0, <2>1, OutsideSteps DEF Ingesting, InRun, InUndo, Running, Undoing
  <2>. QED
    BY <2>1, <2>2 DEF IsServed, InIngest, Ingesting, File, Gen
<1>3. CASE Limbo(f)
  <2>1. ASSUME NEW q \in Procs, InRun(q)' PROVE Copied(f, Gen(q).snap[f])'
    <3>1. CASE InRun(q) /\ q # p
      <4>1. cmd'[q] = cmd[q] /\ gens' = gens
        BY <1>0, <3>1, OutsideSteps
      <4>2. Gen(q)' = Gen(q)
        BY <4>1 DEF Gen
      <4>. QED
        BY <1>0, <1>3, <3>1, <4>2 DEF Limbo, Copied
    <3>2. CASE InRun(q) /\ q = p
      <4>1. ~Crash(p)
        BY <1>0, <2>1, <3>2 DEF Crash, CutShort, Leave, InRun, Running, Idle
      <4>2. cmd'[p].gen = cmd[p].gen
        BY <1>0, <2>1, <3>2, CmdSteps, RunGen, NoneAssumption DEF GoesOn, Leaves, Starts, Enters, InRun, Running, Idle
      <4>3. Gen(p)'.snap = Gen(p).snap
        BY <1>0, <3>2, <4>1, <4>2, SnapKept, HandBy
      <4>. QED
        BY <1>0, <1>3, <3>2, <4>3 DEF Limbo, Copied
    <3>3. CASE ~InRun(q)
      <4>1. q = p
        BY <1>0, <2>1, <3>3 DEF InRun
      <4>2. Gen(p)'.snap = live
        <5>1. ~mounted
          BY <1>3 DEF Limbo, Copied, MountInv, Fallthrough, Present
        <5>. QED
          BY <1>0, <2>1, <3>3, <4>1, <5>1, RunBegins DEF Mountpoint
      <4>. QED
        BY <1>0, <1>3, <4>1, <4>2 DEF Limbo, Copied
    <3>. QED
      BY <3>1, <3>2, <3>3
  <2>. QED
    BY <1>0, <1>3, <2>1 DEF IsServed, Limbo, Copied
<1>. QED
  BY <1>1, <1>2, <1>3 DEF IsServed

\* Only an archive that is replaced is no longer halved.
LEMMA HalvedSteps ==
    ASSUME NEW p \in Procs, ReconcileSteps(p) \/ UndoSteps(p) \/ Crash(p)
    PROVE  \/ halved \subseteq halved'
           \/ /\ ReingestOneFile(p, "reingest", "gate") \/ ReingestOneFile(p, "rebuild", "reverse")
              /\ ~mounted /\ halved' = halved \ {File(p)}
<1>1. ASSUME \/ \E k \in Commands : Begin(p, k)
             \/ CheckPreconditions(p) \/ SnapshotUnderlay(p) \/ Preview(p) \/ PlanEntries(p) \/ Entry(p)
             \/ StashPreimage(p) \/ WriteOrig(p) \/ QuarantineReuse(p) \/ FinishDelete(p) \/ RestoreMemory(p)
             \/ PlaceRead(p) \/ PlaceWrite(p) \/ Relocate(p) \/ Prune(p) \/ WriteManifest(p)
      PROVE  halved \subseteq halved'
  BY <1>1 DEF Begin, CheckPreconditions, SnapshotUnderlay, Preview, PlanEntries, Entry, StashPreimage, WriteOrig,
              QuarantineReuse, FinishDelete, RestoreMemory, PlaceRead, PlaceWrite, Relocate, Prune, WriteManifest, ghosts
<1>2. ASSUME \/ UndoCheck(p) \/ AbortIfMounted(p) \/ Reverse(p) \/ RestoreUnderlay(p) \/ WriteUndone(p) \/ Crash(p)
             \/ \E from, to \in Pcs, on \in BOOLEAN : SetReconciling(p, from, on, to)
      PROVE  halved \subseteq halved'
  BY <1>2 DEF UndoCheck, AbortIfMounted, Reverse, RestoreUnderlay, WriteUndone, Crash, CutShort, SetReconciling, ghosts
<1>3. ASSUME NEW from, NEW to, ReingestOneFile(p, from, to)
      PROVE  halved \subseteq halved' \/ (~mounted /\ halved' = halved \ {File(p)})
  BY <1>3 DEF ReingestOneFile, CutShort
<1>. QED
  BY <1>1, <1>2, <1>3, PcValues DEF ReconcileSteps, UndoSteps, Commands

\* What ends an ingest, unless it is cut short, is the archive.
LEMMA FromIngest ==
    ASSUME BaseInv, NEW p \in Procs, ReconcileSteps(p) \/ UndoSteps(p), cmd[p].pc \in {"reingest", "rebuild"}
    PROVE  ReingestOneFile(p, "reingest", "gate") \/ ReingestOneFile(p, "rebuild", "reverse")
<1>0. ~\E k \in Commands : Begin(p, k)
  <2>1. Idle.pc = "idle"
    BY DEF Idle
  <2>. QED
    BY <2>1 DEF Begin
<1>1. ASSUME \/ CheckPreconditions(p) \/ SnapshotUnderlay(p) \/ Preview(p) \/ PlanEntries(p) \/ Entry(p)
             \/ StashPreimage(p) \/ WriteOrig(p) \/ QuarantineReuse(p) \/ FinishDelete(p)
      PROVE  FALSE
  BY <1>1 DEF CheckPreconditions, SnapshotUnderlay, Preview, PlanEntries, Entry, StashPreimage, WriteOrig,
              QuarantineReuse, FinishDelete, At
<1>2. ASSUME \/ RestoreMemory(p) \/ PlaceRead(p) \/ PlaceWrite(p) \/ Relocate(p) \/ Prune(p) \/ WriteManifest(p)
             \/ UndoCheck(p) \/ AbortIfMounted(p) \/ Reverse(p) \/ RestoreUnderlay(p) \/ WriteUndone(p)
      PROVE  FALSE
  BY <1>2 DEF RestoreMemory, PlaceRead, PlaceWrite, Relocate, Prune, WriteManifest, UndoCheck, AbortIfMounted, Reverse,
              RestoreUnderlay, WriteUndone, At
<1>3. ASSUME NEW from \in {"mark", "clear", "set", "unset"}, NEW to \in Pcs, NEW on \in BOOLEAN, SetReconciling(p, from, on, to)
      PROVE  FALSE
  BY <1>3 DEF SetReconciling, At
<1>. QED
  BY <1>0, <1>1, <1>2, <1>3, PcValues DEF ReconcileSteps, UndoSteps, Commands

\* A run is cut short while it makes an archive there was none of.
LEMMA CutShortServed ==
    ASSUME BaseInv, BaseInv', MountInv, ServedInv, CutShortOnly, NEW p \in Procs,
           \/ Crash(p)
           \/ mounted /\ (ReingestOneFile(p, "reingest", "gate") \/ ReingestOneFile(p, "rebuild", "reverse")),
           NEW f \in Present(orig)' \ halved'
    PROVE  IsServed(f)'
<1>s. ReconcileSteps(p) \/ UndoSteps(p) \/ Crash(p)
  BY DEF ReconcileSteps, UndoSteps
<1>0. /\ cmd \in [Procs -> Cmds] /\ cmd[p] \in Cmds /\ UNCHANGED <<orig, backing, live, gens, load>>
      /\ CutShort(p) /\ cmd'[p] = Idle /\ halved \subseteq halved' /\ load \in Workloads /\ KindFits(p)
      /\ Sessions' = Sessions /\ live \in Directory /\ orig \in Directory /\ f \in Files
  <2>1. CutShort(p) /\ UNCHANGED <<orig, backing, live, gens, load>>
    BY DEF Crash, ReingestOneFile, disk, aside
  <2>. QED
    BY <2>1, HandFacts, PlansSame DEF CutShort, Leave, BaseInv, RunInv, Present
<1>1. f \in Present(orig) \ halved /\ IsServed(f)
  BY <1>0 DEF ServedInv, Present, IsServed
<1>2. cmd[p].pc # "rebuild"
  <2>1. CASE Crash(p)
    BY <1>0, <2>1 DEF KindFits, InUndo, Undoing, Crash, CutShortOnly
  <2>2. CASE mounted
    BY <2>2 DEF MountInv
  <2>. QED
    BY <2>1, <2>2
<1>3. CASE cmd[p].pc = "reingest" /\ File(p) = f
  <2>1. backing[f] = None
    BY <1>0, <1>3 DEF CutShort, At
  <2>2. InRun(p) /\ f \in Ahead(p) /\ Copied(f, Gen(p).snap[f])
    BY <1>0, <1>3 DEF InRun, Running, Ahead, Coming, ServedInv, IngestKept
  <2>t. ~Gen(p).through
    BY <2>1, <2>2 DEF ServedInv, AheadKept
  <2>l. f \in Present(live)
    BY <1>3, <2>t, HandFacts DEF StillThere, InHand
  <2>3. load.crash # {}
    <3>1. ~mounted
      BY <2>l DEF MountInv, Fallthrough
    <3>. QED
      BY <3>1 DEF Crash
  <2>4. Gen(p).snap[f] \subseteq live[f] /\ (f \notin Sessions => live[f] = Gen(p).snap[f])
    BY <2>2, <2>3, <2>t DEF ServedInv, AheadKept
  <2>5. Copied(f, live[f])
    BY <2>2, <2>4, <2>l DEF Copied, Present
  <2>6. \A q \in Procs : ~InRun(q)'
    <3>. TAKE q \in Procs
    <3>1. CASE q = p
      BY <1>0, <3>1 DEF InRun, Running, Idle
    <3>2. CASE q # p
      <4>1. ~InRun(q)
        BY <2>2, <3>2, RunGen
      <4>2. cmd'[q] = cmd[q]
        BY <1>s, <3>2, CmdSteps DEF BaseInv
      <4>. QED
        BY <4>1, <4>2 DEF InRun
    <3>. QED
      BY <3>1, <3>2
  <2>7. Copied(f, live[f])'
    BY <1>0, <2>5 DEF Copied, Of
  <2>. QED
    BY <1>0, <2>1, <2>3, <2>6, <2>7 DEF IsServed, Limbo
<1>. QED
  BY <1>s, <1>0, <1>1, <1>2, <1>3, ServedSame

LEMMA ServedStep ==
    ASSUME BaseInv, BaseInv', MountInv, ServedInv, CutShortOnly, NEW p \in Procs, ReconcileSteps(p) \/ UndoSteps(p) \/ Crash(p),
           NEW f \in Present(orig)' \ halved'
    PROVE  IsServed(f)'
<1>0. /\ cmd \in [Procs -> Cmds] /\ cmd[p] \in Cmds /\ UNCHANGED load /\ Memory' = Memory
      /\ live \in Directory /\ orig \in Directory /\ backing \in Directory /\ orig' \in Directory
      /\ Files' = Files /\ f \in Files /\ orig'[f] # None /\ f \notin Memory
  <2>1. UNCHANGED load /\ Memory' = Memory
    BY CmdSteps, PlansSame DEF BaseInv
  <2>2. f \in Files /\ orig'[f] # None
    BY DEF Present
  <2>. QED
    BY <2>1, <2>2, HandFacts DEF BaseInv, TypeInv, HandInv, MemoryKept
<1> DEFINE Reingest == ReingestOneFile(p, "reingest", "gate") \/ ReingestOneFile(p, "rebuild", "reverse")
<1>1. CASE Crash(p) \/ (mounted /\ Reingest)
  BY <1>1, CutShortServed
<1>r. CASE ~mounted /\ Reingest /\ File(p) = f
  <2>1. backing' = [backing EXCEPT ![File(p)] = orig[File(p)]] /\ UNCHANGED orig
    BY <1>r DEF ReingestOneFile
  <2>2. backing'[f] = orig[f]
    BY <1>0, <1>r, <2>1 DEF Directory
  <2>. QED
    BY <1>0, <2>1, <2>2 DEF IsServed, Served
<1>2. CASE ~Crash(p) /\ ~(mounted /\ Reingest) /\ ~(Reingest /\ File(p) = f)
  <2>0. f \notin halved
    BY <1>2, HalvedSteps
  <2>1. orig[f] # None => IsServed(f)
    BY <1>0, <2>0 DEF ServedInv, Present, IsServed
  <2>2. CASE Reingest
    <3>1. /\ backing' = [backing EXCEPT ![File(p)] = orig[File(p)]] /\ UNCHANGED <<orig, live>> /\ File(p) # f
      BY <1>2, <2>2 DEF ReingestOneFile, aside
    <3>. QED
      BY <1>0, <2>1, <3>1, ServedSame DEF Directory
  <2>3. CASE WriteOrig(p)
    <3>1. /\ cmd[p].pc = "merge" /\ cmd'[p].pc = "reingest" /\ File(p)' = File(p) /\ UNCHANGED <<live, backing>>
          /\ orig' = [orig EXCEPT ![File(p)] = MergedFile(p)]
      BY <1>0, <2>3 DEF WriteOrig, Goto, At, Cmds, File
    <3>g. UNCHANGED gens /\ cmd'[p].gen = cmd[p].gen
      BY <1>0, <2>3 DEF WriteOrig, Goto, Cmds
    <3>2. CASE File(p) = f /\ ~Gen(p).through
      BY <3>1, <3>2, <3>g DEF IsServed, InIngest, Ingesting, Gen
    <3>3. CASE File(p) # f
      BY <1>0, <2>1, <3>1, <3>3, ServedSame DEF Directory
    <3>4. CASE File(p) = f /\ Gen(p).through
      <4>1. InRun(p) /\ f \in Ahead(p)
        BY <3>1, <3>4 DEF Ahead, Coming, InRun, Running
      <4>2. backing[f] # None /\ Gen(p).snap[f] \subseteq backing[f]
        BY <3>4, <4>1 DEF ServedInv, AheadKept
      <4>3. orig[f] # None => orig[f] \subseteq backing[f]
        BY <2>1, <3>1, <4>1, <4>2, OneIngest DEF IsServed, Limbo, Served
      <4>4. Bytes(p) \subseteq backing[f]
        BY <3>4, <4>2 DEF Bytes
      <4>5. orig'[f] = MergedFile(p)
        BY <1>0, <3>1, <3>4 DEF Directory
      <4>6. cmd[p].plan[f] = "New" => orig[f] = None
        BY <1>0, <3>1, <3>4, HandFacts DEF PlanFits, Plans, ByContent, Recommend
      <4>7. MergedFile(p) \subseteq backing[f]
        BY <3>4, <4>3, <4>4, <4>6 DEF MergedFile, Merged, SessionMerge
      <4>. QED
        BY <3>1, <4>2, <4>5, <4>7 DEF IsServed, Served
    <3>. QED
      BY <3>2, <3>3, <3>4
  <2>4. CASE Reverse(p)
    <3>1. PICK h \in Files : Reversed(p, h)
      BY <2>4, ReverseParts
    <3>2. UNCHANGED <<live, backing>> /\ cmd[p].pc = "reverse" /\ File(p)' = h
      BY <3>1 DEF Reversed, File
    <3>3. CASE h = f /\ cmd'[p].pc = "rebuild"
      BY <3>2, <3>3 DEF IsServed, InIngest, Ingesting
    <3>4. CASE ~(h = f /\ cmd'[p].pc = "rebuild")
      <4>1. orig'[f] = orig[f]
        BY <1>0, <3>1, <3>4 DEF Reversed, Directory
      <4>. QED
        BY <1>0, <2>1, <3>2, <4>1, ServedSame
    <3>. QED
      BY <3>3, <3>4
  <2>5. CASE FinishDelete(p)
    <3>1. UNCHANGED orig /\ cmd[p].pc \in {"gate", "unlink"} /\ File(p) \in Files
      BY <2>5, InHandFile DEF FinishDelete, At
    <3>2. CASE cmd[p].pc = "unlink" /\ File(p) = f
      <4>1. Served(f)
        BY <1>0, <2>0, <3>1, <3>2 DEF ServedInv, IngestKept, Present
      <4>2. UNCHANGED backing
        BY <2>5, <3>2 DEF FinishDelete, At
      <4>. QED
        BY <3>1, <4>1, <4>2 DEF IsServed, Served
    <3>3. CASE ~(cmd[p].pc = "unlink" /\ File(p) = f)
      <4>1. live'[f] = live[f] /\ backing'[f] = backing[f]
        BY <1>0, <2>5, <3>1, <3>3 DEF FinishDelete, At, Directory
      <4>. QED
        BY <1>0, <2>1, <3>1, <4>1, ServedSame
    <3>. QED
      BY <3>2, <3>3
  <2>6. CASE Relocate(p)
    <3>1. UNCHANGED <<orig, backing>> /\ cmd[p].pc = "place" /\ live'[f] = live[f]
      BY <1>0, <2>6 DEF Relocate, At
    <3>. QED
      BY <1>0, <2>1, <3>1, ServedSame
  <2>7. CASE RestoreUnderlay(p)
    <3>0. cmd[p].pc = "reverse" /\ ~mounted /\ InUndo(p)
      BY <2>7 DEF RestoreUnderlay, At, MountInv, InUndo, Undoing
    <3>1. /\ UNCHANGED <<orig, backing>> /\ cmd[p].pc = "reverse" /\ InUndo(p)
          /\ live'[f] = live[f] \/ live[f] = None
      BY <1>0, <2>7, <3>0 DEF RestoreUnderlay, LiveText, Underlay
    <3>2. CASE live'[f] = live[f]
      BY <1>0, <2>1, <3>1, <3>2, ServedSame
    <3>3. CASE live[f] = None
      <4>1. Served(f)
        BY <1>0, <2>1, <3>1, <3>3, OneIngest DEF IsServed, Limbo, Copied
      <4>. QED
        BY <3>1, <4>1 DEF IsServed, Served
    <3>. QED
      BY <3>1, <3>2, <3>3
  <2>8. CASE PlaceWrite(p)
    <3>1. UNCHANGED <<orig, backing, live>> /\ cmd[p].pc \in {"put", "putbeside"}
      BY <2>8 DEF PlaceWrite, At
    <3>. QED
      BY <1>0, <2>1, <3>1, ServedSame
  <2>9. CASE UNCHANGED <<orig, backing, live>> /\ cmd[p].pc \notin {"reingest", "rebuild"}
    BY <1>0, <2>1, <2>9, ServedSame
  <2>10. CASE UNCHANGED <<orig, backing, live>> /\ cmd[p].pc \in {"reingest", "rebuild"}
    BY <1>0, <1>2, <2>2, <2>10, FromIngest
  <2>. QED
    BY <2>2, <2>3, <2>4, <2>5, <2>6, <2>7, <2>8, <2>9, <2>10, FileSteps, BackingSteps
<1>. QED
  BY <1>1, <1>2, <1>r

\* What a writer may do to a file of the underlay, or to one it is served.
LiveGrows(f) ==
    live'[f] # live[f] =>
        /\ live'[f] \in SUBSET Records /\ live'[f] # {} /\ live'[f] # None
        /\ live[f] # None => live[f] \subseteq live'[f] /\ (f \in Sessions \/ load.crash = {})
BackingGrows(f) ==
    backing'[f] # backing[f] =>
        /\ mounted /\ backing'[f] # None /\ backing'[f] # {}
        /\ backing[f] # None => backing[f] \subseteq backing'[f]

\* A writer leaves a file as it is, or adds to it; to one that is no session,
\* where commands may be cut short, only if it is not there.
LEMMA WriteAdds ==
    ASSUME BaseInv, TypeInv', CutShortOnly, \/ Mount \/ Unmount \/ \E f \in Files : Write(f) \/ Link(f)
    PROVE  \A f \in Files : LiveGrows(f) /\ BackingGrows(f)
<1>0. /\ live \in Directory /\ backing \in Directory /\ orig \in Directory /\ target \in Directory
      /\ load \in Workloads
  BY DEF BaseInv, TypeInv
<1>1. CASE Mount \/ Unmount \/ \E f \in Files : Link(f)
  BY <1>1 DEF Mount, Unmount, Link, disk, LiveGrows, BackingGrows
<1>2. ASSUME NEW h \in Files, Write(h), NEW f \in Files
      PROVE  LiveGrows(f) /\ BackingGrows(f)
  <2>0. written' \in Records /\ UNCHANGED load
    BY <1>2 DEF Write
  <2>1. CASE UNCHANGED <<live, backing>>
    BY <2>1 DEF LiveGrows, BackingGrows
  <2>2. CASE /\ mounted /\ UNCHANGED live
             /\ backing' = [backing EXCEPT ![h] = (IF @ = None THEN {} ELSE @) \cup {written'}]
    <3>1. CASE h # f
      BY <1>0, <2>2, <3>1 DEF Directory, LiveGrows, BackingGrows
    <3>2. CASE h = f
      <4>1. backing'[f] = (IF backing[f] = None THEN {} ELSE backing[f]) \cup {written'}
        BY <1>0, <2>2, <3>2 DEF Directory
      <4>2. (IF backing[f] = None THEN {} ELSE backing[f]) \in SUBSET Records
        BY <1>0 DEF Directory, Contents
      <4>3. backing'[f] \in SUBSET Records
        BY <2>0, <4>1, <4>2
      <4>4. backing'[f] # None
        BY <4>3, NoneAssumption
      <4>. QED
        BY <2>2, <4>1, <4>4 DEF LiveGrows, BackingGrows
    <3>. QED
      BY <3>1, <3>2
  <2>3. CASE /\ UNCHANGED backing
             /\ "again" \in load.writes \/ h \in Sessions \/ live[h] = None
             /\ \E text \in IF live[h] # None THEN {live[h]} ELSE {{}} \cup ({orig[h], target[h]} \ {None}) :
                   live' = [live EXCEPT ![h] = text \cup {written'}]
    <3>1. CASE h # f
      BY <1>0, <2>3, <3>1 DEF Directory, LiveGrows, BackingGrows
    <3>2. CASE h = f
      <4>1. PICK text \in IF live[f] # None THEN {live[f]} ELSE {{}} \cup ({orig[f], target[f]} \ {None}) :
               live' = [live EXCEPT ![f] = text \cup {written'}]
        BY <2>3, <3>2
      <4>2. text \in SUBSET Records
        BY <1>0, <4>1 DEF Directory, Contents
      <4>3. live'[f] = text \cup {written'} /\ text \cup {written'} \in SUBSET Records
        BY <1>0, <2>0, <4>1, <4>2 DEF Directory
      <4>4. live'[f] # None /\ live'[f] # {}
        BY <4>3, NoneAssumption
      <4>5. live[f] # None => f \in Sessions \/ load.crash = {}
        BY <1>0, <2>3, <3>2 DEF CutShortOnly
      <4>. QED
        BY <2>3, <4>1, <4>3, <4>4, <4>5 DEF LiveGrows, BackingGrows
    <3>. QED
      BY <3>1, <3>2
  <2>. QED
    BY <1>2, <2>1, <2>2, <2>3 DEF Write
<1>. QED
  BY <1>1, <1>2

LEMMA OutsideServed ==
    ASSUME BaseInv, BaseInv', MountInv, ServedInv, CutShortOnly,
           \/ Mount \/ Unmount \/ \E f \in Files : Write(f) \/ Link(f)
    PROVE  ServedInv'
<1>0. /\ UNCHANGED <<load, orig, gens, cmd, halved>> /\ Memory' = Memory /\ Sessions' = Sessions
      /\ TypeInv' /\ live \in Directory /\ orig \in Directory /\ backing \in Directory
      /\ \A p \in Procs : Gen(p)' = Gen(p) /\ File(p)' = File(p)
  <2>1. UNCHANGED <<load, orig, gens, cmd>>
    BY OutsideHand DEF BaseInv
  <2>2. UNCHANGED halved
    BY DEF Mount, Unmount, Write, Link, ghosts
  <2>. QED
    BY <2>1, <2>2, PlansSame DEF BaseInv, TypeInv, Gen, File
<1>1. \A f \in Files : LiveGrows(f) /\ BackingGrows(f)
  BY <1>0, WriteAdds
<1>2. FullInv'
  BY <1>0, <1>1 DEF ServedInv, FullInv, LiveGrows, BackingGrows, Of
<1>3. ASSUME NEW p \in Procs PROVE AheadKept(p)'
  <2>. SUFFICES ASSUME NEW f \in Ahead(p)
                PROVE  IF Gen(p).through
                       THEN backing'[f] # None /\ Gen(p).snap[f] \subseteq backing'[f]
                       ELSE /\ Gen(p).snap[f] \subseteq live'[f]
                            /\ load.crash # {} /\ f \notin Sessions => live'[f] = Gen(p).snap[f]
    <3>1. Ahead(p)' = Ahead(p)
      BY <1>0 DEF Ahead, Present
    <3>. QED
      BY <1>0, <3>1 DEF AheadKept
  <2>0. f \in Files
    BY HandFacts DEF StillThere, Ahead, Planned, Running, InHand, Coming, Present, Cmds
  <2>1. ~Gen(p).through => f \in Present(live)
    BY DEF BaseInv, HandInv, StillThere, Ahead, Planned, Running, InHand, Coming
  <2>2. IF Gen(p).through
        THEN backing[f] # None /\ Gen(p).snap[f] \subseteq backing[f]
        ELSE /\ Gen(p).snap[f] \subseteq live[f]
             /\ load.crash # {} /\ f \notin Sessions => live[f] = Gen(p).snap[f]
    BY DEF ServedInv, AheadKept
  <2>. QED
    BY <1>1, <2>0, <2>1, <2>2 DEF Present, LiveGrows, BackingGrows
<1>4. ASSUME NEW f \in Files, Served(f) PROVE Served(f)'
  BY <1>0, <1>1, <1>4 DEF Served, BackingGrows
<1>5. ASSUME NEW p \in Procs PROVE IngestKept(p)'
  <2>1. cmd[p].pc \in {"gate", "unlink"} => File(p) \in Files
    BY InHandFile
  <2>. QED
    BY <1>0, <1>4, <2>1 DEF ServedInv, IngestKept, Copied, Present, Of
<1>6. ASSUME NEW f \in Present(orig) \ halved PROVE (Served(f) \/ Limbo(f) \/ InIngest(f))'
  <2>0. f \in Files
    BY DEF Present
  <2>1. CASE Served(f)
    BY <1>4, <2>0, <2>1
  <2>2. CASE InIngest(f)
    BY <1>0, <2>2 DEF InIngest, Ingesting
  <2>3. CASE Limbo(f)
    <3>1. backing'[f] = None
      BY <1>1, <2>0, <2>3 DEF MountInv, Fallthrough, Limbo, Copied, Present, BackingGrows
    <3>2. Copied(f, live[f])'
      BY <1>0, <1>1, <2>0, <2>3 DEF Limbo, Copied, LiveGrows, Of
    <3>3. \A p \in Procs : InRun(p)' => Copied(f, Gen(p).snap[f])'
      BY <1>0, <2>3 DEF Limbo, Copied, InRun, Of
    <3>. QED
      BY <1>0, <2>3, <3>1, <3>2, <3>3 DEF Limbo
  <2>. QED
    BY <2>1, <2>2, <2>3 DEF ServedInv
<1>. QED
  BY <1>0, <1>2, <1>3, <1>5, <1>6 DEF ServedInv, Present

LEMMA NextServed ==
    ASSUME BaseInv, BaseInv', MountInv, ServedInv, CutShortOnly, [Next]_vars
    PROVE  ServedInv'
<1>1. CASE Mount \/ Unmount \/ \E f \in Files : Write(f) \/ Link(f)
  BY <1>1, OutsideServed
<1>2. ASSUME NEW p \in Procs, ReconcileSteps(p) \/ UndoSteps(p) \/ Crash(p)
      PROVE  ServedInv'
  <2>0. TypeInv'
    BY DEF BaseInv
  <2>1. FullInv'
    BY <1>2, <2>0, FullKept DEF ServedInv
  <2>2. ASSUME NEW q \in Procs PROVE AheadKept(q)' /\ IngestKept(q)'
    <3>1. CASE q = p
      BY <1>2, <3>1, AheadStep, IngestStep DEF ServedInv
    <3>2. CASE q # p /\ InRun(q)
      <4>1. cmd'[q] = cmd[q] /\ UNCHANGED <<load, orig, backing, live, gens>> /\ Sessions' = Sessions /\ Memory' = Memory
        BY <1>2, <2>0, <3>2, CmdSteps, OutsideSteps, PlansSame
      <4>2. Gen(q)' = Gen(q) /\ File(q)' = File(q) /\ halved \subseteq halved'
        <5>1. halved \subseteq halved'
          <6>1. cmd[p].pc \notin {"reingest", "rebuild"}
            BY <3>2, RunGen DEF InRun, InUndo, Running, Undoing
          <6>. QED
            BY <1>2, <6>1, HalvedSteps DEF ReingestOneFile, At
        <5>. QED
          BY <4>1, <5>1 DEF Gen, File
      <4>3. Ahead(q)' = Ahead(q)
        BY <4>1, <4>2 DEF Ahead, Present
      <4>4. AheadKept(q)'
        BY <4>1, <4>2, <4>3 DEF ServedInv, AheadKept
      <4>5. IngestKept(q)'
        BY <4>1, <4>2 DEF ServedInv, IngestKept, Copied, Served, Present, Of
      <4>. QED
        BY <4>4, <4>5
    <3>3. CASE q # p /\ ~InRun(q)
      <4>1. cmd'[q] = cmd[q]
        BY <1>2, <2>0, <3>3, CmdSteps
      <4>. QED
        BY <3>3, <4>1 DEF AheadKept, IngestKept, Ahead, InRun, Running, Planned, Coming
    <3>. QED
      BY <3>1, <3>2, <3>3
  <2>3. ASSUME NEW f \in Present(orig)' \ halved' PROVE (Served(f) \/ Limbo(f) \/ InIngest(f))'
    BY <1>2, ServedStep DEF IsServed
  <2>. QED
    BY <2>1, <2>2, <2>3 DEF ServedInv
<1>3. CASE UNCHANGED vars
  <2>1. UNCHANGED <<load, orig, backing, live, gens, cmd, halved>>
    BY <1>3 DEF vars, disk, ghosts
  <2>2. Memory' = Memory /\ Sessions' = Sessions /\ \A p \in Procs : Gen(p)' = Gen(p) /\ File(p)' = File(p)
    BY <2>1, PlansSame DEF Gen, File
  <2>3. \A p \in Procs : Ahead(p)' = Ahead(p)
    BY <2>1, <2>2 DEF Ahead, Present
  <2>4. FullInv' /\ \A p \in Procs : AheadKept(p)' /\ IngestKept(p)'
    BY <2>1, <2>2, <2>3 DEF ServedInv, FullInv, AheadKept, IngestKept, Copied, Served, Present, Of
  <2>5. \A f : IsServed(f) => IsServed(f)'
    BY <2>1, <2>2 DEF IsServed, Served, Limbo, InIngest, Ingesting, Copied, InRun, Of
  <2>. QED
    BY <2>1, <2>4, <2>5 DEF ServedInv, IsServed, Present
<1>. QED
  BY <1>1, <1>2, <1>3 DEF Next

\* A project that can be mounted serves all that orig has.  A run cut short
\* between orig and the archive leaves the file in the underlay, which keeps the
\* project unmounted, and the next run finds there what it has to do again; one
\* that has read a mount merges what is served already.
THEOREM MergesAreServed ==
    ASSUME CutShortOnly PROVE Spec => []MergedIsServed
<1>u. UndoAlone
  BY CutShortAlone
<1>1. Init => BaseInv /\ MountInv /\ ServedInv
  BY InitBase, InitMount, InitServed
<1>2. BaseInv /\ MountInv /\ ServedInv /\ [Next]_vars => BaseInv' /\ MountInv' /\ ServedInv'
  <2>. SUFFICES ASSUME BaseInv, MountInv, ServedInv, [Next]_vars PROVE BaseInv' /\ MountInv' /\ ServedInv'
    OBVIOUS
  <2>1. BaseInv' /\ MountInv'
    BY <1>u, NextBase, NextMount
  <2>. QED
    BY <2>1, NextServed
<1>3. BaseInv /\ MountInv /\ ServedInv => MergedIsServed
  <2>. SUFFICES ASSUME BaseInv, MountInv, ServedInv, EnsureMountable, NEW f \in Present(orig) \ halved
                PROVE  Served(f)
    BY DEF MergedIsServed, Served
  <2>1. Present(live) = {} /\ ~marker
    BY DEF EnsureMountable, Fallthrough
  <2>2. ~Limbo(f)
    BY <2>1 DEF Limbo, Copied, Present
  <2>3. ~InIngest(f)
    BY <2>1 DEF InIngest, Ingesting, BaseInv, HandInv, StillThere, InHand, MountInv
  <2>. QED
    BY <2>2, <2>3 DEF ServedInv
<1>. QED
  BY <1>1, <1>2, <1>3, PTL DEF Spec

====
