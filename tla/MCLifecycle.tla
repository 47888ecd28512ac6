---------------------------- MODULE MCLifecycle ----------------------------
EXTENDS Lifecycle, TLC

All == {"apply", "restore", "remount", "purge", "compact", "reingest"}

Workload(cs, fs, sd, bs) == [commands |-> cs, faults |-> fs, systemd |-> sd, backends |-> bs]
Shadow == {"shadow"}

\* reingest is left out where a daemon may come back behind its back, and
\* purge where a power loss may undo it: see the README.
MCWorkloads ==
    {Workload({"apply", "restore", "purge"}, {"kill"}, FALSE, Shadow),
     Workload({"apply", "restore", "remount", "compact"}, {"kill", "die", "io"}, FALSE, Shadow),
     Workload(All \cup {"umount"}, {"die", "io"}, FALSE, Shadow),
     Workload(All \ {"reingest", "purge"}, {"power"}, FALSE, Shadow),
     Workload(All \ {"reingest", "purge"}, {"die", "power"}, TRUE, Shadow),
     Workload(All \ {"reingest"}, {"die"}, TRUE, Shadow),
     Workload(All, {}, TRUE, Shadow),
     Workload({"apply", "restore", "remount all", "purge", "seal", "offline"}, {}, FALSE, Backends),
     Workload({"apply", "restore", "remount all", "seal", "offline"}, {"io"}, FALSE, Backends),
     Workload({"apply", "restore", "remount"}, {"power"}, FALSE, {"container"}),
     Workload({"apply", "restore", "remount", "reingest"}, {"session"}, FALSE, Shadow),
     Workload({"apply", "restore", "remount", "purge", "umount", "autostart", "offline"},
              {"die"}, TRUE, Shadow)}

ASSUME WorkloadsSupported == Supported(MCWorkloads)

MCSymmetry == Permutations(Trees) \cup Permutations(Daemons)
=============================================================================
