---------------------------- MODULE DurableFile ----------------------------
(***************************************************************************)
(* What an archive promises its caller: a file whose versions are replaced *)
(* atomically.  A version is a sequence of sealed blocks and a sequence of *)
(* tail records.  The version readers see (volatile) may be one ahead of   *)
(* the one on stable storage (persistent), never more; a call that returns *)
(* Ok leaves the two equal; a crash returns to one of them.                *)
(***************************************************************************)
EXTENDS ArchiveVersion

VARIABLES
    volatile,     \* the version a reader that opens the file now sees
    persistent,   \* the version every crash preserves at least
    acked,        \* the last version whose call returned Ok
    request,      \* the call in progress
    phase         \* "idle", "begun" or "published"

vars == <<volatile, persistent, acked, request, phase>>

Version0 == [seq |-> 0, blocks |-> <<>>, tail |-> <<>>]

\* The version a call must produce from version v.
Applied(v, r) ==
    [seq    |-> v.seq + 1,
     blocks |-> CASE r.op = "append"  -> v.blocks
                  [] r.op = "seal"    -> Overlay(v.blocks, Len(v.blocks), r.dirty)
                  [] r.op = "session" -> Overlay(v.blocks, r.keep, r.dirty),
     tail   |-> CASE r.op = "append"  -> Append(v.tail, r.delta)
                  [] r.op = "seal"    -> <<>>
                  [] r.op = "session" -> v.tail]

Init == /\ volatile = Version0 /\ persistent = Version0 /\ acked = Version0
        /\ request = [op |-> "none"] /\ phase = "idle"

Start == /\ phase = "idle" /\ phase' = "begun"
         /\ request'.op \in {"append", "seal", "session"}
         /\ UNCHANGED <<volatile, persistent, acked>>

Publish == /\ phase = "begun" /\ phase' = "published"
           /\ volatile = persistent
           /\ volatile' = Applied(volatile, request)
           /\ UNCHANGED <<persistent, acked, request>>

Persist == /\ persistent' = volatile
           /\ UNCHANGED <<volatile, acked, request, phase>>

Stop == request' = [op |-> "none"] /\ phase' = "idle"

Ack == /\ phase = "published"
       /\ persistent' = volatile /\ acked' = volatile
       /\ Stop /\ UNCHANGED volatile

Flush == /\ phase = "idle"
         /\ persistent' = volatile /\ acked' = volatile
         /\ UNCHANGED <<volatile, request, phase>>

Fail == Stop /\ UNCHANGED <<volatile, persistent, acked>>

Crash == /\ volatile' \in {volatile, persistent}
         /\ persistent' = volatile'
         /\ Stop /\ UNCHANGED acked

Next == Start \/ Publish \/ Persist \/ Ack \/ Flush \/ Fail \/ Crash

Spec == Init /\ [][Next]_vars
=============================================================================
