---------------------------- MODULE MCReconcile ----------------------------
EXTENDS Reconcile, TLC

Workload(kinds, large, commands, alone, runs, crash, writes) ==
    [kinds |-> kinds, large |-> large, commands |-> commands, alone |-> alone, runs |-> runs,
     crash |-> crash, writes |-> writes]
FileKinds(log, note) == [f \in Files |-> IF f = "log" THEN log ELSE note]

Plain   == FileKinds("session", "other")
Special == FileKinds("subagent", "memory")

\* Undo after runs cut short, with three runs, and with two and a mount at any
\* time; undo and writes through mounts; two processes; dry runs and a file too
\* large to merge; files that are routed by their path.
MCWorkloads ==
    {Workload(Plain, {}, {"reconcile", "undo"}, TRUE, 3, {"reconcile"}, {}),
     Workload(Plain, {}, {"reconcile", "undo"}, TRUE, 2, {"reconcile"}, {"race"}),
     Workload(Plain, {}, {"reconcile", "undo"}, TRUE, 2, {}, {"mount", "again", "race"}),
     Workload(Plain, {}, {"reconcile"}, FALSE, 2, {"reconcile"}, {"race"}),
     Workload(Plain, {"log"}, {"preview", "reconcile"}, TRUE, 2, {}, {"race"}),
     Workload(Special, {}, {"reconcile", "undo"}, TRUE, 2, {"reconcile"}, {"mount", "link"})}

\* A project that is written to while it is mounted, and then while it is not.
MountedWorkloads == {Workload(Plain, {}, {"reconcile"}, TRUE, 2, {}, {"mount"})}

\* A mount between reconcile's first look and its marker.
RacedWorkloads == {Workload(Plain, {}, {"reconcile"}, TRUE, 1, {}, {"race"})}

\* A subagent file that is too large to be read into memory.
LargeWorkloads == {Workload(FileKinds("subagent", "other"), {"log"}, {"reconcile"}, TRUE, 1, {}, {})}

\* The target of the memory link is written to from elsewhere.
SharedMemory == {Workload(Special, {}, {"reconcile"}, TRUE, 2, {}, {"shared"})}

MCSymmetry == Permutations(Procs)
=============================================================================
