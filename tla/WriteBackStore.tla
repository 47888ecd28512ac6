--------------------------- MODULE WriteBackStore ---------------------------
(***************************************************************************)
(* What a store promises its callers, whatever the locks and buffers inside *)
(* (store/container.rs, store/shadow.rs): changes are visible at once; they *)
(* become durable in batches, each of which is everything visible at one    *)
(* instant and lands as a whole or not at all; a batch that fails changes   *)
(* nothing a caller can see; a removed file never comes back.               *)
(***************************************************************************)
EXTENDS Integers

CONSTANTS Inos, Contents, Gone, NoBatch

VARIABLES
    view,     \* what a caller reads of each file, or Gone
    batch,    \* the instant being made durable, or NoBatch
    durable   \* what a restart finds

\* A new file is empty.
Fresh == <<>>

InBatch(i, c) == IF batch = NoBatch THEN NoBatch ELSE [batch EXCEPT ![i] = c]

Init == view = durable /\ batch = NoBatch /\ durable \in [Inos -> Contents \cup {Gone}]

Create(i) ==
    /\ view[i] = Gone /\ durable[i] = Gone
    /\ view' = [view EXCEPT ![i] = Fresh] /\ durable' = [durable EXCEPT ![i] = Fresh]
    /\ batch' = InBatch(i, Fresh)

Change(i) ==
    /\ view[i] # Gone
    /\ view'[i] \in Contents /\ view' = [view EXCEPT ![i] = view'[i]]
    /\ UNCHANGED <<batch, durable>>

Take == batch = NoBatch /\ batch' = view /\ UNCHANGED <<view, durable>>

Land ==
    /\ batch # NoBatch /\ batch' = NoBatch
    /\ durable' = [i \in Inos |-> IF batch[i] = Gone THEN durable[i] ELSE batch[i]]
    /\ UNCHANGED view

Drop == batch # NoBatch /\ batch' = NoBatch /\ UNCHANGED <<view, durable>>

\* A removal is visible, then durable.
Vanish(i) ==
    /\ view[i] # Gone /\ view' = [view EXCEPT ![i] = Gone]
    /\ batch' = InBatch(i, Gone) /\ UNCHANGED durable

Remove(i) ==
    /\ durable[i] # Gone
    /\ view' = [view EXCEPT ![i] = Gone] /\ durable' = [durable EXCEPT ![i] = Gone]
    /\ batch' = InBatch(i, Gone)

Crash == view' = durable /\ batch' = NoBatch /\ UNCHANGED durable

Next ==
    \/ \E i \in Inos : Create(i) \/ Change(i) \/ Vanish(i) \/ Remove(i)
    \/ Take \/ Land \/ Drop \/ Crash

Spec == Init /\ [][Next]_<<view, batch, durable>>
=============================================================================
