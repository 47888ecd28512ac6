-------------------------- MODULE LockTableProofs --------------------------
(***************************************************************************)
(* WriterAlone, NoStaleBlock and SyncedPagesFresh of LockTable, for any      *)
(* number of inodes, workers and locks.  LockInv is about the lock table;    *)
(* CacheInv needs it to tell readers and writers of a block apart; PageInv   *)
(* needs both for what a read brings to the kernel.                          *)
(***************************************************************************)
EXTENDS LockTable, FiniteSetTheorems, TLAPS

(***************************************************************************)
(* The lock table                                                           *)
(***************************************************************************)

Requests == [op : Shared \cup Exclusive, ino : Inos]

LockTypes ==
    /\ inodes \in [Inos -> Locks \cup {None}]
    /\ ref \in [Workers -> Locks \cup {None}]
    /\ held \in [Workers -> {"no", "read", "write"}]
    /\ pc \in [Workers -> Steps]
    /\ call \in [Workers -> Requests \cup {Idle}]
    /\ \A w \in Workers : pc[w] # "idle" => call[w] \in Requests

\* The steps at which a handler has its lock, and those before it has an Arc.
Inside == {"body", "load", "insert", "change", "unlock"}
Before == {"idle", "remove", "fetch"}

\* A guard is held inside, in the mode the request needs, and with an Arc.
Guards ==
    \A w \in Workers :
        /\ held[w] # "no" <=> pc[w] \in Inside
        /\ held[w] # "no" => ref[w] # None
        /\ held[w] = "write" => call[w].op \in Exclusive
        /\ held[w] = "read" => call[w].op \in Shared
        /\ pc[w] \in Before => ref[w] = None
        /\ pc[w] = "lock" => ref[w] # None
        /\ pc[w] \in {"load", "insert"} => call[w].op = "read"
        /\ pc[w] = "change" => call[w].op \in Exclusive
        /\ pc[w] = "evict" => call[w].op \in Evicting

\* An Arc that is in use is the one the table has: evict_lock takes no entry
\* away that a worker has fetched.
InTable == \A w \in Workers : ref[w] # None => inodes[Ino(w)] = ref[w]

\* A lock is held by one writer or by readers.
Excluded ==
    \A v, w \in Workers :
        v # w /\ ref[v] = ref[w] /\ held[v] = "write" => held[w] = "no"

LockInv == LockTypes /\ Guards /\ InTable /\ Excluded

LEMMA LockInit == Init => LockInv
  BY LocksAssumption DEF Init, Evicting, LockInv, LockTypes, Guards, InTable, Excluded, Idle, Steps, Inside, Before, Ino

LEMMA LockStep == LockInv /\ [Next]_vars => LockInv'
  <1> SUFFICES ASSUME LockInv, [Next]_vars PROVE LockInv' OBVIOUS
  <1> USE LocksAssumption, OpsAssumption
  <1>1. ASSUME NEW w \in Workers, NEW op \in Ops \ {"read"}, NEW i \in Inos, Send(w, op, i) PROVE LockInv'
    <2>1. [op |-> op, ino |-> i] \in Requests
      BY DEF Requests
    <2>2. /\ pc[w] = "idle"
          /\ call' = [call EXCEPT ![w] = [op |-> op, ino |-> i]]
          /\ \E step \in {"remove", "fetch"} : pc' = [pc EXCEPT ![w] = step]
          /\ UNCHANGED <<inodes, ref, held>>
      BY <1>1 DEF Send, Goto
    <2>3. LockTypes' /\ Guards'
      BY <2>1, <2>2 DEF LockInv, LockTypes, Guards, Inside, Before, Steps, Evicting
    <2>4. ref[w] = None
      BY <2>2 DEF LockInv, Guards, Before
    <2>5. InTable' /\ Excluded'
      BY <2>2, <2>4 DEF LockInv, LockTypes, InTable, Excluded, Ino
    <2> QED BY <2>3, <2>5 DEF LockInv
  <1>2. ASSUME NEW i \in Inos, Fault(i) PROVE LockInv'
    BY <1>2 DEF Fault, file, LockInv, Evicting, LockTypes, Guards, InTable,
      Excluded, Requests, Inside, Before, Ino, Shared, Exclusive, Steps, Idle
  <1>3. ASSUME NEW w \in Workers, NEW i \in Inos, Serve(w, i) PROVE LockInv'
    BY <1>3 DEF Serve, Goto, file, LockInv, Evicting, LockTypes, Guards,
      InTable, Excluded, Requests, Inside, Before, Ino, Shared, Exclusive,
      Steps, Idle
  <1>4. ASSUME NEW w \in Workers, Acquire(w) PROVE LockInv'
    BY <1>4 DEF Acquire, Goto, file, kernel, LockInv, Evicting, LockTypes,
      Guards, InTable, Excluded, Requests, Inside, Before, Ino, Shared,
      Exclusive, Steps, Idle
  <1>5. ASSUME NEW w \in Workers, ReplySync(w) PROVE LockInv'
    BY <1>5 DEF ReplySync, On, Answer, Goto, LockInv, Evicting, LockTypes,
      Guards, InTable, Excluded, Requests, Inside, Before, Ino, Shared,
      Exclusive, Steps, Idle
  <1>6. ASSUME NEW w \in Workers, Remove(w) PROVE LockInv'
    BY <1>6 DEF Remove, On, Goto, kernel, LockInv, Evicting, LockTypes,
      Guards, InTable, Excluded, Requests, Inside, Before, Ino, Shared,
      Exclusive, Steps, Idle
  <1>7. ASSUME NEW w \in Workers, LockFor(w) PROVE LockInv'
    BY <1>7 DEF LockFor, Goto, Free, file, kernel, LockInv, Evicting,
      LockTypes, Guards, InTable, Excluded, Requests, Inside, Before, Ino,
      Shared, Exclusive, Steps, Idle
  <1>8. ASSUME NEW w \in Workers, Unlock(w) PROVE LockInv'
    BY <1>8 DEF Unlock, Goto, Evicting, file, kernel, LockInv, Evicting,
      LockTypes, Guards, InTable, Excluded, Requests, Inside, Before, Ino,
      Shared, Exclusive, Steps, Idle
  <1>9. ASSUME NEW w \in Workers, Evict(w) PROVE LockInv'
    BY <1>9 DEF Evict, Goto, file, kernel, LockInv, Evicting, LockTypes,
      Guards, InTable, Excluded, Requests, Inside, Before, Ino, Shared,
      Exclusive, Steps, Idle
  <1>10. ASSUME NEW w \in Workers, ReadCache(w) PROVE LockInv'
    BY <1>10 DEF ReadCache, On, Goto, file, kernel, LockInv, Evicting,
      LockTypes, Guards, InTable, Excluded, Requests, Inside, Before, Ino,
      Shared, Exclusive, Steps, Idle
  <1>11. ASSUME NEW w \in Workers, ReadStore(w) PROVE LockInv'
    BY <1>11 DEF ReadStore, On, Goto, Hole, file, kernel, LockInv, Evicting,
      LockTypes, Guards, InTable, Excluded, Requests, Inside, Before, Ino,
      Shared, Exclusive, Steps, Idle
  <1>12. ASSUME NEW w \in Workers, Insert(w) PROVE LockInv'
    BY <1>12 DEF Insert, On, Goto, file, kernel, LockInv, Evicting, LockTypes,
      Guards, InTable, Excluded, Requests, Inside, Before, Ino, Shared,
      Exclusive, Steps, Idle
  <1>13. ASSUME NEW w \in Workers, Attributes(w) PROVE LockInv'
    BY <1>13 DEF Attributes, On, Goto, file, kernel, LockInv, Evicting,
      LockTypes, Guards, InTable, Excluded, Requests, Inside, Before, Ino,
      Shared, Exclusive, Steps, Idle
  <1>14. ASSUME NEW w \in Workers, Invalidate(w) PROVE LockInv'
    BY <1>14 DEF Invalidate, Goto, file, kernel, LockInv, Evicting, LockTypes,
      Guards, InTable, Excluded, Requests, Inside, Before, Ino, Shared,
      Exclusive, Steps, Idle
  <1>15. ASSUME NEW w \in Workers, Change(w) PROVE LockInv'
    BY <1>15 DEF Change, On, Goto, kernel, LockInv, Evicting, LockTypes,
      Guards, InTable, Excluded, Requests, Inside, Before, Ino, Shared,
      Exclusive, Steps, Idle
  <1>16. ASSUME NEW w \in Workers, Commit(w) PROVE LockInv'
    BY <1>16 DEF Commit, On, Goto, file, kernel, LockInv, Evicting, LockTypes,
      Guards, InTable, Excluded, Requests, Inside, Before, Ino, Shared,
      Exclusive, Steps, Idle
  <1>17. ASSUME NEW w \in Workers, DropTail(w) PROVE LockInv'
    BY <1>17 DEF DropTail, Goto, Evicting, file, kernel, LockInv, Evicting,
      LockTypes, Guards, InTable, Excluded, Requests, Inside, Before, Ino,
      Shared, Exclusive, Steps, Idle
  <1>18. ASSUME NEW w \in Workers, ReplyRead(w) PROVE LockInv'
    BY <1>18 DEF ReplyRead, On, Answer, Goto, LockInv, Evicting, LockTypes,
      Guards, InTable, Excluded, Requests, Inside, Before, Ino, Shared,
      Exclusive, Steps, Idle
  <1>19. ASSUME NEW w \in Workers, ReplyLookup(w) PROVE LockInv'
    BY <1>19 DEF ReplyLookup, On, Answer, Goto, LockInv, Evicting, LockTypes,
      Guards, InTable, Excluded, Requests, Inside, Before, Ino, Shared,
      Exclusive, Steps, Idle
  <1>20. ASSUME NEW w \in Workers, ReplyOther(w) PROVE LockInv'
    BY <1>20 DEF ReplyOther, Answer, Goto, LockInv, Evicting, LockTypes,
      Guards, InTable, Excluded, Requests, Inside, Before, Ino, Shared,
      Exclusive, Steps, Idle
  <1>21. ASSUME NEW w \in Workers, Finish(w) PROVE LockInv'
    BY <1>21 DEF Finish, Goto, file, kernel, LockInv, Evicting, LockTypes,
      Guards, InTable, Excluded, Requests, Inside, Before, Ino, Shared,
      Exclusive, Steps, Idle
  <1>22. ASSUME NEW w \in Workers, ReplyUntold(w) \/ ReplyFailed(w) PROVE LockInv'
    BY <1>22 DEF ReplyUntold, ReplyFailed, On, Answer, Goto, LockInv, Evicting,
      LockTypes, Guards, InTable, Excluded, Requests, Inside, Before, Ino,
      Shared, Exclusive, Steps, Idle
  <1>23. CASE UNCHANGED vars
    BY <1>23 DEF vars, LockInv, Evicting, LockTypes, Guards, InTable,
      Excluded, Requests, Inside, Before, Ino, Shared, Exclusive, Steps, Idle
  <1> QED BY <1>1, <1>2, <1>3, <1>4, <1>5, <1>6, <1>7, <1>8, <1>9, <1>10,
    <1>11, <1>12, <1>13, <1>14, <1>15, <1>16, <1>17, <1>18, <1>19, <1>20,
    <1>21, <1>22, <1>23 DEF Next, Handle

\* However lookups, evictions and handlers interleave, the handler of ScrollzRw
\* that changes an inode has its lock to itself: WriterAlone for any number of
\* workers and locks.
THEOREM WritersAreAlone == Spec => []WriterAlone
  <1>1. LockInv => WriterAlone
    BY DEF LockInv, LockTypes, Guards, InTable, Excluded, WriterAlone
  <1> QED BY LockInit, LockStep, <1>1, PTL DEF Spec

-----------------------------------------------------------------------------
(* The block cache                                                          *)

CacheTypes ==
    /\ content \in [Inos -> Nat]
    /\ gone \in [Inos -> BOOLEAN]
    /\ cache \in [Inos -> Nat \cup {None}]
    /\ got \in [Workers -> Nat \cup {None}]

\* A worker that has removed the inode and not yet dropped its blocks.
Removing(i, steps) == \E u \in Workers : call[u].op = "unlink" /\ Ino(u) = i /\ pc[u] \in steps

\* What the cache has is current, and goes when a removal gets the lock.
CacheCurrent ==
    \A i \in Inos : cache[i] # None =>
        /\ cache[i] = content[i]
        /\ gone[i] => Removing(i, {"fetch", "lock", "body"})

\* A read is about to fill the cache with the current block, and no removal has
\* passed it; a writer has emptied the cache.
FillsCurrent ==
    \A w \in Workers :
        /\ pc[w] = "insert" => got[w] = content[Ino(w)]
        /\ pc[w] \in {"load", "insert"} /\ gone[Ino(w)] => Removing(Ino(w), {"fetch", "lock"})
        /\ pc[w] \in {"change", "unlock"} /\ call[w].op \in Exclusive => cache[Ino(w)] = None

CacheInv == CacheTypes /\ CacheCurrent /\ FillsCurrent

LEMMA CacheInit == Init => CacheInv
  BY LocksAssumption DEF Init, CacheInv, CacheTypes, CacheCurrent, FillsCurrent, Idle, Ino, Hole

LEMMA CacheStep == LockInv /\ LockInv' /\ CacheInv /\ [Next]_vars => CacheInv'
  <1> SUFFICES ASSUME LockInv, LockInv', CacheInv, [Next]_vars PROVE CacheInv' OBVIOUS
  <1> USE LocksAssumption, OpsAssumption
  <1>1. ASSUME NEW w \in Workers, NEW op \in Ops \ {"read"}, NEW i \in Inos, Send(w, op, i) PROVE CacheInv'
    BY <1>1 DEF Send, Goto, file, LockInv, Evicting, LockTypes, Guards,
      InTable, Excluded, Requests, Inside, Before, Ino, Shared, Exclusive,
      Steps, Idle, CacheInv, CacheTypes, CacheCurrent, FillsCurrent, Removing
  <1>2. ASSUME NEW i \in Inos, Fault(i) PROVE CacheInv'
    BY <1>2 DEF Fault, file, LockInv, Evicting, LockTypes, Guards, InTable,
      Excluded, Requests, Inside, Before, Ino, Shared, Exclusive, Steps, Idle,
      CacheInv, CacheTypes, CacheCurrent, FillsCurrent, Removing
  <1>3. ASSUME NEW w \in Workers, NEW i \in Inos, Serve(w, i) PROVE CacheInv'
    BY <1>3 DEF Serve, Goto, file, LockInv, Evicting, LockTypes, Guards,
      InTable, Excluded, Requests, Inside, Before, Ino, Shared, Exclusive,
      Steps, Idle, CacheInv, CacheTypes, CacheCurrent, FillsCurrent, Removing
  <1>4. ASSUME NEW w \in Workers, Acquire(w) PROVE CacheInv'
    BY <1>4 DEF Acquire, Goto, file, kernel, LockInv, Evicting, LockTypes,
      Guards, InTable, Excluded, Requests, Inside, Before, Ino, Shared,
      Exclusive, Steps, Idle, CacheInv, CacheTypes, CacheCurrent,
      FillsCurrent, Removing
  <1>5. ASSUME NEW w \in Workers, ReplySync(w) PROVE CacheInv'
    <2>1. /\ pc[w] = "reply" /\ pc' = [pc EXCEPT ![w] = "drop"]
          /\ UNCHANGED <<call, got, content, gone, cache>>
      BY <1>5 DEF ReplySync, On, Answer, Goto
    <2> QED BY <2>1 DEF LockInv, LockTypes, CacheInv, CacheTypes, CacheCurrent, FillsCurrent, Removing, Ino
  <1>6. ASSUME NEW w \in Workers, Remove(w) PROVE CacheInv'
    BY <1>6 DEF Remove, On, Goto, kernel, LockInv, Evicting, LockTypes,
      Guards, InTable, Excluded, Requests, Inside, Before, Ino, Shared,
      Exclusive, Steps, Idle, CacheInv, CacheTypes, CacheCurrent,
      FillsCurrent, Removing
  <1>7. ASSUME NEW w \in Workers, LockFor(w) PROVE CacheInv'
    BY <1>7 DEF LockFor, Goto, Free, file, kernel, LockInv, Evicting,
      LockTypes, Guards, InTable, Excluded, Requests, Inside, Before, Ino,
      Shared, Exclusive, Steps, Idle, CacheInv, CacheTypes, CacheCurrent,
      FillsCurrent, Removing
  <1>8. ASSUME NEW w \in Workers, Unlock(w) PROVE CacheInv'
    <2>1. /\ pc[w] = "unlock" /\ pc' \in {[pc EXCEPT ![w] = "evict"], [pc EXCEPT ![w] = "reply"]}
          /\ UNCHANGED <<call, got, content, gone, cache>>
      BY <1>8 DEF Unlock, Goto, file
    <2>2. pc \in [Workers -> Steps]
      BY DEF LockInv, LockTypes
    <2>3. \A v \in Workers \ {w} : pc'[v] = pc[v]
      BY <2>1, <2>2
    <2>4. \A i \in Inos : Removing(i, {"fetch", "lock", "body"})' <=> Removing(i, {"fetch", "lock", "body"})
      BY <2>1, <2>2 DEF Removing, Ino
    <2>5. \A i \in Inos : Removing(i, {"fetch", "lock"})' <=> Removing(i, {"fetch", "lock"})
      BY <2>1, <2>2 DEF Removing, Ino
    <2>6. CacheTypes' /\ CacheCurrent'
      BY <2>1, <2>4 DEF CacheInv, CacheTypes, CacheCurrent
    <2>7. \A v \in Workers : pc[v] \in {"load", "insert"} => Ino(v) \in Inos
      BY DEF LockInv, LockTypes, Requests, Ino
    <2>8. FillsCurrent'
      BY <2>1, <2>2, <2>5, <2>7 DEF CacheInv, FillsCurrent, Ino
    <2> QED BY <2>6, <2>8 DEF CacheInv
  <1>9. ASSUME NEW w \in Workers, Evict(w) PROVE CacheInv'
    BY <1>9 DEF Evict, Goto, file, kernel, LockInv, Evicting, LockTypes,
      Guards, InTable, Excluded, Requests, Inside, Before, Ino, Shared,
      Exclusive, Steps, Idle, CacheInv, CacheTypes, CacheCurrent,
      FillsCurrent, Removing
  <1>10. ASSUME NEW w \in Workers, ReadCache(w) PROVE CacheInv'
    BY <1>10 DEF ReadCache, On, Goto, file, kernel, LockInv, Evicting,
      LockTypes, Guards, InTable, Excluded, Requests, Inside, Before, Ino,
      Shared, Exclusive, Steps, Idle, CacheInv, CacheTypes, CacheCurrent,
      FillsCurrent, Removing
  <1>11. ASSUME NEW w \in Workers, ReadStore(w) PROVE CacheInv'
    <2>1. /\ Ino(w) \in Inos /\ call[w].op = "read" /\ pc[w] = "load"
          /\ UNCHANGED <<call, content, gone, cache>>
      BY <1>11 DEF ReadStore, On, file, LockInv, LockTypes, Requests, Ino
    <2>2. CASE gone[Ino(w)]
      <3>1. pc' = [pc EXCEPT ![w] = "unlock"] /\ got' = [got EXCEPT ![w] = Hole]
        BY <1>11, <2>2 DEF ReadStore, Goto
      <3>2. CacheTypes' /\ CacheCurrent'
        BY <2>1, <3>1 DEF LockInv, LockTypes, CacheInv, CacheTypes, CacheCurrent, Removing, Hole, Ino
      <3>3. FillsCurrent'
        <4> SUFFICES ASSUME NEW v \in Workers PROVE
               /\ pc'[v] = "insert" => got'[v] = content'[Ino(v)']
               /\ pc'[v] \in {"load", "insert"} /\ gone'[Ino(v)'] => Removing(Ino(v), {"fetch", "lock"})'
               /\ pc'[v] \in {"change", "unlock"} /\ call'[v].op \in Exclusive => cache'[Ino(v)'] = None
          BY DEF FillsCurrent
        <4>1. CASE v = w
          BY <2>1, <3>1, <4>1 DEF LockInv, LockTypes, CacheInv, CacheTypes, FillsCurrent, Removing, Ino, Exclusive
        <4>2. CASE v # w
          BY <2>1, <3>1, <4>2 DEF LockInv, LockTypes, CacheInv, CacheTypes, FillsCurrent, Removing, Ino, Exclusive
        <4> QED BY <4>1, <4>2
      <3> QED BY <3>2, <3>3 DEF CacheInv
    <2>3. CASE ~gone[Ino(w)]
      <3>1. /\ pc' = [pc EXCEPT ![w] = "insert"]
            /\ got' = [got EXCEPT ![w] = content[Ino(w)]]
        BY <1>11, <2>3 DEF ReadStore, Goto
      <3>2. CacheTypes' /\ CacheCurrent'
        BY <2>1, <3>1 DEF LockInv, LockTypes, CacheInv, CacheTypes, CacheCurrent, Removing, Ino
      <3>3. FillsCurrent'
        BY <2>1, <2>3, <3>1 DEF LockInv, LockTypes, CacheInv, CacheTypes, FillsCurrent, Removing, Ino, Exclusive
      <3> QED BY <3>2, <3>3 DEF CacheInv
    <2> QED BY <2>2, <2>3
  <1>12. ASSUME NEW w \in Workers, Insert(w) PROVE CacheInv'
    <2>1. /\ Ino(w) \in Inos /\ call[w].op = "read" /\ pc[w] = "insert" /\ pc' = [pc EXCEPT ![w] = "unlock"]
          /\ \E b \in {got[w], None} : cache' = [cache EXCEPT ![Ino(w)] = b]
          /\ UNCHANGED <<call, got, content, gone>>
      BY <1>12 DEF Insert, On, Goto, file, LockInv, LockTypes, Requests, Ino
    <2>2. got[w] = content[Ino(w)] /\ (gone[Ino(w)] => Removing(Ino(w), {"fetch", "lock"}))
      BY <2>1 DEF CacheInv, FillsCurrent
    <2>3. \A v \in Workers \ {w} : ~(pc[v] \in {"change", "unlock"} /\ call[v].op \in Exclusive /\ Ino(v) = Ino(w))
      BY <2>1 DEF LockInv, LockTypes, Guards, InTable, Excluded, Inside, Before, Requests, Ino, Exclusive, Shared, Steps
    <2>4. CacheTypes' /\ CacheCurrent'
      BY <2>1, <2>2 DEF LockInv, LockTypes, CacheInv, CacheTypes, CacheCurrent, Removing, Ino
    <2>5. FillsCurrent'
      BY <2>1, <2>2, <2>3 DEF LockInv, LockTypes, CacheInv, CacheTypes, FillsCurrent, Removing, Ino, Exclusive
    <2> QED BY <2>4, <2>5 DEF CacheInv
  <1>13. ASSUME NEW w \in Workers, Attributes(w) PROVE CacheInv'
    BY <1>13 DEF Attributes, On, Goto, file, kernel, LockInv, Evicting,
      LockTypes, Guards, InTable, Excluded, Requests, Inside, Before, Ino,
      Shared, Exclusive, Steps, Idle, CacheInv, CacheTypes, CacheCurrent,
      FillsCurrent, Removing
  <1>14. ASSUME NEW w \in Workers, Invalidate(w) PROVE CacheInv'
    BY <1>14 DEF Invalidate, Goto, file, kernel, LockInv, Evicting, LockTypes,
      Guards, InTable, Excluded, Requests, Inside, Before, Ino, Shared,
      Exclusive, Steps, Idle, CacheInv, CacheTypes, CacheCurrent,
      FillsCurrent, Removing
  <1>15. ASSUME NEW w \in Workers, Change(w) PROVE CacheInv'
    BY <1>15 DEF Change, On, Goto, kernel, LockInv, Evicting, LockTypes,
      Guards, InTable, Excluded, Requests, Inside, Before, Ino, Shared,
      Exclusive, Steps, Idle, CacheInv, CacheTypes, CacheCurrent,
      FillsCurrent, Removing
  <1>16. ASSUME NEW w \in Workers, Commit(w) PROVE CacheInv'
    <2>1. PICK v \in {content[Ino(w)], None} : got' = [got EXCEPT ![w] = v]
      BY <1>16 DEF Commit
    <2>2. Ino(w) \in Inos
      BY <1>16 DEF Commit, On, LockInv, LockTypes, Requests, Ino
    <2>3. v \in Nat \cup {None}
      BY <2>2 DEF CacheInv, CacheTypes
    <2> QED BY <1>16, <2>1, <2>3 DEF Commit, On, Goto, file, kernel, LockInv, LockTypes, CacheInv, CacheTypes,
                 CacheCurrent, FillsCurrent, Removing, Ino
  <1>17. ASSUME NEW w \in Workers, DropTail(w) PROVE CacheInv'
    BY <1>17 DEF DropTail, Goto, Evicting, file, kernel, LockInv, Evicting,
      LockTypes, Guards, InTable, Excluded, Requests, Inside, Before, Ino,
      Shared, Exclusive, Steps, Idle, CacheInv, CacheTypes, CacheCurrent,
      FillsCurrent, Removing
  <1>18. ASSUME NEW w \in Workers, ReplyRead(w) PROVE CacheInv'
    BY <1>18 DEF ReplyRead, On, Answer, Goto, LockInv, Evicting, LockTypes,
      Guards, InTable, Excluded, Requests, Inside, Before, Ino, Shared,
      Exclusive, Steps, Idle, CacheInv, CacheTypes, CacheCurrent,
      FillsCurrent, Removing
  <1>19. ASSUME NEW w \in Workers, ReplyLookup(w) PROVE CacheInv'
    BY <1>19 DEF ReplyLookup, On, Answer, Goto, LockInv, Evicting, LockTypes,
      Guards, InTable, Excluded, Requests, Inside, Before, Ino, Shared,
      Exclusive, Steps, Idle, CacheInv, CacheTypes, CacheCurrent,
      FillsCurrent, Removing
  <1>20. ASSUME NEW w \in Workers, ReplyOther(w) PROVE CacheInv'
    BY <1>20 DEF ReplyOther, Answer, Goto, LockInv, Evicting, LockTypes,
      Guards, InTable, Excluded, Requests, Inside, Before, Ino, Shared,
      Exclusive, Steps, Idle, CacheInv, CacheTypes, CacheCurrent,
      FillsCurrent, Removing
  <1>21. ASSUME NEW w \in Workers, Finish(w) PROVE CacheInv'
    BY <1>21 DEF Finish, Goto, file, kernel, LockInv, Evicting, LockTypes,
      Guards, InTable, Excluded, Requests, Inside, Before, Ino, Shared,
      Exclusive, Steps, Idle, CacheInv, CacheTypes, CacheCurrent,
      FillsCurrent, Removing
  <1>22. ASSUME NEW w \in Workers, ReplyUntold(w) \/ ReplyFailed(w) PROVE CacheInv'
    <2>1. /\ pc[w] = "reply" /\ pc' = [pc EXCEPT ![w] = "drop"]
          /\ UNCHANGED <<call, got, content, gone, cache>>
      BY <1>22 DEF ReplyUntold, ReplyFailed, On, Answer, Goto
    <2> QED BY <2>1 DEF LockInv, LockTypes, CacheInv, CacheTypes, CacheCurrent, FillsCurrent, Removing, Ino
  <1>23. CASE UNCHANGED vars
    BY <1>23 DEF vars, LockInv, Evicting, LockTypes, Guards, InTable,
      Excluded, Requests, Inside, Before, Ino, Shared, Exclusive, Steps, Idle,
      CacheInv, CacheTypes, CacheCurrent, FillsCurrent, Removing
  <1> QED BY <1>1, <1>2, <1>3, <1>4, <1>5, <1>6, <1>7, <1>8, <1>9, <1>10,
    <1>11, <1>12, <1>13, <1>14, <1>15, <1>16, <1>17, <1>18, <1>19, <1>20,
    <1>21, <1>22, <1>23 DEF Next, Handle

\* A block of BlockCache is the one the store has, or a writer is about to
\* empty the cache; nothing stays of an inode that a removal has finished with.
THEOREM CacheIsCurrent == Spec => []NoStaleBlock
  <1>1. CacheInv => NoStaleBlock
    BY DEF CacheInv, CacheCurrent, NoStaleBlock, Removing, SameName
  <1> QED BY LockInit, LockStep, CacheInit, CacheStep, <1>1, PTL DEF Spec

-----------------------------------------------------------------------------
(* The pages of the kernel                                                  *)

PageTypes ==
    /\ told \in [Inos -> Nat]
    /\ page \in [Inos -> Nat \cup {None}]
    /\ pinned \in [Inos -> {"no", "queued", "served"}]

Reading(w) == call[w].op = "read" /\ pc[w] # "drop"

\* The kernel has one read of a page under way, and keeps the page locked.
OneRead ==
    /\ \A w \in Workers : Reading(w) => pinned[Ino(w)] = "served"
    /\ \A v, w \in Workers : v # w /\ Reading(v) /\ Reading(w) => Ino(v) # Ino(w)

\* No fsync is ahead of the file.
SyncsBehind ==
    /\ \A i \in Inos : told[i] <= content[i]
    /\ \A w \in Workers :
          call[w].op = "sync" /\ pc[w] \in {"unlock", "reply"} /\ got[w] # None => got[w] <= content[Ino(w)]

\* A block that is in the kernel, or on its way there, is no older than the
\* last fsync.
Fresh(v, i) == v \in Nat \ {Hole} => v >= told[i]
BlocksFresh ==
    /\ \A i \in Inos : Fresh(page[i], i)
    /\ \A w \in Workers : Reading(w) /\ pc[w] \in {"insert", "unlock", "reply"} => Fresh(got[w], Ino(w))

PageInv == PageTypes /\ OneRead /\ SyncsBehind /\ BlocksFresh

LEMMA PageInit == Init => PageInv
  BY LocksAssumption DEF Init, PageInv, PageTypes, OneRead, SyncsBehind, BlocksFresh, Fresh, Reading, Idle, Ino, Hole

LEMMA PageStep == LockInv /\ CacheInv /\ CacheInv' /\ PageInv /\ [Next]_vars => PageInv'
  <1> SUFFICES ASSUME LockInv, CacheInv, CacheInv', PageInv, [Next]_vars PROVE PageInv' OBVIOUS
  <1> USE LocksAssumption, OpsAssumption
  <1>1. ASSUME NEW w \in Workers, NEW op \in Ops \ {"read"}, NEW i \in Inos, Send(w, op, i) PROVE PageInv'
    <2>1. /\ call' = [call EXCEPT ![w] = [op |-> op, ino |-> i]] /\ op # "read"
          /\ pc' \in {[pc EXCEPT ![w] = "remove"], [pc EXCEPT ![w] = "fetch"]}
          /\ page' \in {page, [page EXCEPT ![i] = None]}
          /\ UNCHANGED <<content, told, pinned, got>>
      BY <1>1 DEF Send, Goto, file
    <2>2. call \in [Workers -> Requests \cup {Idle}] /\ pc \in [Workers -> Steps]
      BY DEF LockInv, LockTypes
    <2>3. ~Reading(w)' /\ \A v \in Workers \ {w} : (Reading(v)' <=> Reading(v)) /\ Ino(v)' = Ino(v)
      BY <2>1, <2>2 DEF Reading, Ino
    <2>4. PageTypes'
      BY <2>1 DEF PageInv, PageTypes
    <2>5. OneRead'
      BY <2>1, <2>3 DEF PageInv, OneRead
    <2>6. SyncsBehind'
      BY <2>1, <2>2 DEF PageInv, SyncsBehind, Ino
    <2>7. BlocksFresh'
      BY <2>1, <2>2, <2>3, <2>4 DEF PageInv, PageTypes, BlocksFresh, Fresh
    <2> QED BY <2>4, <2>5, <2>6, <2>7 DEF PageInv
  <1>2. ASSUME NEW i \in Inos, Fault(i) PROVE PageInv'
    BY <1>2 DEF Fault, file, LockInv, Evicting, LockTypes, Guards, Requests,
      Inside, Before, Ino, Shared, Exclusive, Idle, CacheInv, CacheTypes,
      CacheCurrent, FillsCurrent, PageInv, PageTypes, OneRead, SyncsBehind,
      BlocksFresh, Fresh, Reading, Hole
  <1>3. ASSUME NEW w \in Workers, NEW i \in Inos, Serve(w, i) PROVE PageInv'
    BY <1>3 DEF Serve, Goto, file, LockInv, Evicting, LockTypes, Guards,
      Requests, Inside, Before, Ino, Shared, Exclusive, Idle, CacheInv,
      CacheTypes, CacheCurrent, FillsCurrent, PageInv, PageTypes, OneRead,
      SyncsBehind, BlocksFresh, Fresh, Reading, Hole
  <1>4. ASSUME NEW w \in Workers, Acquire(w) PROVE PageInv'
    BY <1>4 DEF Acquire, Goto, file, kernel, LockInv, Evicting, LockTypes,
      Guards, Requests, Inside, Before, Ino, Shared, Exclusive, Idle,
      CacheInv, CacheTypes, CacheCurrent, FillsCurrent, PageInv, PageTypes,
      OneRead, SyncsBehind, BlocksFresh, Fresh, Reading, Hole
  <1>5. ASSUME NEW w \in Workers, ReplySync(w) PROVE PageInv'
    <2> DEFINE i == Ino(w)
    <2>1. /\ i \in Inos
          /\ call[w].op = "sync" /\ pc[w] = "reply" /\ pc' = [pc EXCEPT ![w] = "drop"]
          /\ UNCHANGED <<call, got, content, pinned>>
      BY <1>5 DEF ReplySync, On, Answer, Goto, LockInv, LockTypes, Requests, Ino
    <2>2. /\ pinned[i] = "no" /\ page' = [page EXCEPT ![i] = None]
          /\ told' = [told EXCEPT ![i] = IF got[w] > told[i] THEN got[w] ELSE told[i]]
      BY <1>5 DEF ReplySync
    <2>3. got[w] \in Nat /\ got[w] <= content[i]
      BY <1>5, <2>1 DEF ReplySync, CacheInv, CacheTypes, PageInv, SyncsBehind
    <2>4. told'[i] \in Nat /\ told'[i] <= content[i] /\ \A j \in Inos \ {i} : told'[j] = told[j]
      BY <2>1, <2>2, <2>3 DEF PageInv, PageTypes, SyncsBehind
    <2>5. PageTypes' /\ OneRead'
      BY <2>1, <2>2, <2>4 DEF LockInv, LockTypes, PageInv, PageTypes, OneRead, Reading, Ino
    <2>6. SyncsBehind'
      BY <2>1, <2>4 DEF LockInv, LockTypes, PageInv, SyncsBehind, Ino
    <2>7. \A v \in Workers : Reading(v) => Ino(v) \in Inos \ {i}
      BY <2>2 DEF LockInv, LockTypes, Requests, Idle, PageInv, OneRead, Reading, Ino
    <2>8. BlocksFresh'
      BY <2>1, <2>2, <2>4, <2>7, LocksAssumption DEF LockInv, LockTypes, PageInv, PageTypes,
                 BlocksFresh, Fresh, Reading, Ino
    <2> QED BY <2>5, <2>6, <2>8 DEF PageInv
  <1>6. ASSUME NEW w \in Workers, Remove(w) PROVE PageInv'
    BY <1>6 DEF Remove, On, Goto, kernel, LockInv, Evicting, LockTypes,
      Guards, Requests, Inside, Before, Ino, Shared, Exclusive, Idle,
      CacheInv, CacheTypes, CacheCurrent, FillsCurrent, PageInv, PageTypes,
      OneRead, SyncsBehind, BlocksFresh, Fresh, Reading, Hole
  <1>7. ASSUME NEW w \in Workers, LockFor(w) PROVE PageInv'
    BY <1>7 DEF LockFor, Goto, Free, file, kernel, LockInv, Evicting,
      LockTypes, Guards, Requests, Inside, Before, Ino, Shared, Exclusive,
      Idle, CacheInv, CacheTypes, CacheCurrent, FillsCurrent, PageInv,
      PageTypes, OneRead, SyncsBehind, BlocksFresh, Fresh, Reading, Hole
  <1>8. ASSUME NEW w \in Workers, Unlock(w) PROVE PageInv'
    <2>1. /\ pc[w] = "unlock" /\ pc' \in {[pc EXCEPT ![w] = "evict"], [pc EXCEPT ![w] = "reply"]}
          /\ UNCHANGED <<call, got, content, told, page, pinned>>
      BY <1>8 DEF Unlock, Goto, file, kernel
    <2>2. pc \in [Workers -> Steps]
      BY DEF LockInv, LockTypes
    <2>3. \A v \in Workers : (Reading(v)' <=> Reading(v)) /\ Ino(v)' = Ino(v)
      BY <2>1, <2>2 DEF Reading, Ino
    <2>4. PageTypes' /\ OneRead'
      BY <2>1, <2>3 DEF PageInv, PageTypes, OneRead
    <2>5. SyncsBehind'
      BY <2>1, <2>2 DEF PageInv, SyncsBehind, Ino
    <2>6. BlocksFresh'
      BY <2>1, <2>2, <2>3 DEF PageInv, BlocksFresh, Fresh
    <2> QED BY <2>4, <2>5, <2>6 DEF PageInv
  <1>9. ASSUME NEW w \in Workers, Evict(w) PROVE PageInv'
    BY <1>9 DEF Evict, Goto, file, kernel, LockInv, Evicting, LockTypes,
      Guards, Requests, Inside, Before, Ino, Shared, Exclusive, Idle,
      CacheInv, CacheTypes, CacheCurrent, FillsCurrent, PageInv, PageTypes,
      OneRead, SyncsBehind, BlocksFresh, Fresh, Reading, Hole
  <1>10. ASSUME NEW w \in Workers, ReadCache(w) PROVE PageInv'
    BY <1>10 DEF ReadCache, On, Goto, file, kernel, LockInv, Evicting,
      LockTypes, Guards, Requests, Inside, Before, Ino, Shared, Exclusive,
      Idle, CacheInv, CacheTypes, CacheCurrent, FillsCurrent, PageInv,
      PageTypes, OneRead, SyncsBehind, BlocksFresh, Fresh, Reading, Hole
  <1>11. ASSUME NEW w \in Workers, ReadStore(w) PROVE PageInv'
    BY <1>11 DEF ReadStore, On, Goto, Hole, file, kernel, LockInv, Evicting,
      LockTypes, Guards, Requests, Inside, Before, Ino, Shared, Exclusive,
      Idle, CacheInv, CacheTypes, CacheCurrent, FillsCurrent, PageInv,
      PageTypes, OneRead, SyncsBehind, BlocksFresh, Fresh, Reading, Hole
  <1>12. ASSUME NEW w \in Workers, Insert(w) PROVE PageInv'
    BY <1>12 DEF Insert, On, Goto, file, kernel, LockInv, Evicting, LockTypes,
      Guards, Requests, Inside, Before, Ino, Shared, Exclusive, Idle,
      CacheInv, CacheTypes, CacheCurrent, FillsCurrent, PageInv, PageTypes,
      OneRead, SyncsBehind, BlocksFresh, Fresh, Reading, Hole
  <1>13. ASSUME NEW w \in Workers, Attributes(w) PROVE PageInv'
    BY <1>13 DEF Attributes, On, Goto, file, kernel, LockInv, Evicting,
      LockTypes, Guards, Requests, Inside, Before, Ino, Shared, Exclusive,
      Idle, CacheInv, CacheTypes, CacheCurrent, FillsCurrent, PageInv,
      PageTypes, OneRead, SyncsBehind, BlocksFresh, Fresh, Reading, Hole
  <1>14. ASSUME NEW w \in Workers, Invalidate(w) PROVE PageInv'
    BY <1>14 DEF Invalidate, Goto, file, kernel, LockInv, Evicting, LockTypes,
      Guards, Requests, Inside, Before, Ino, Shared, Exclusive, Idle,
      CacheInv, CacheTypes, CacheCurrent, FillsCurrent, PageInv, PageTypes,
      OneRead, SyncsBehind, BlocksFresh, Fresh, Reading, Hole
  <1>15. ASSUME NEW w \in Workers, Change(w) PROVE PageInv'
    BY <1>15 DEF Change, On, Goto, kernel, LockInv, Evicting, LockTypes,
      Guards, Requests, Inside, Before, Ino, Shared, Exclusive, Idle,
      CacheInv, CacheTypes, CacheCurrent, FillsCurrent, PageInv, PageTypes,
      OneRead, SyncsBehind, BlocksFresh, Fresh, Reading, Hole
  <1>16. ASSUME NEW w \in Workers, Commit(w) PROVE PageInv'
    BY <1>16 DEF Commit, On, Goto, file, kernel, LockInv, Evicting, LockTypes,
      Guards, Requests, Inside, Before, Ino, Shared, Exclusive, Idle,
      CacheInv, CacheTypes, CacheCurrent, FillsCurrent, PageInv, PageTypes,
      OneRead, SyncsBehind, BlocksFresh, Fresh, Reading, Hole
  <1>17. ASSUME NEW w \in Workers, DropTail(w) PROVE PageInv'
    BY <1>17 DEF DropTail, Goto, Evicting, file, kernel, LockInv, Evicting,
      LockTypes, Guards, Requests, Inside, Before, Ino, Shared, Exclusive,
      Idle, CacheInv, CacheTypes, CacheCurrent, FillsCurrent, PageInv,
      PageTypes, OneRead, SyncsBehind, BlocksFresh, Fresh, Reading, Hole
  <1>18. ASSUME NEW w \in Workers, ReplyRead(w) PROVE PageInv'
    BY <1>18 DEF ReplyRead, On, Answer, Goto, LockInv, Evicting, LockTypes,
      Guards, Requests, Inside, Before, Ino, Shared, Exclusive, Idle,
      CacheInv, CacheTypes, CacheCurrent, FillsCurrent, PageInv, PageTypes,
      OneRead, SyncsBehind, BlocksFresh, Fresh, Reading, Hole
  <1>19. ASSUME NEW w \in Workers, ReplyLookup(w) PROVE PageInv'
    BY <1>19 DEF ReplyLookup, On, Answer, Goto, LockInv, Evicting, LockTypes,
      Guards, Requests, Inside, Before, Ino, Shared, Exclusive, Idle,
      CacheInv, CacheTypes, CacheCurrent, FillsCurrent, PageInv, PageTypes,
      OneRead, SyncsBehind, BlocksFresh, Fresh, Reading, Hole
  <1>20. ASSUME NEW w \in Workers, ReplyOther(w) PROVE PageInv'
    BY <1>20 DEF ReplyOther, Answer, Goto, LockInv, Evicting, LockTypes,
      Guards, Requests, Inside, Before, Ino, Shared, Exclusive, Idle,
      CacheInv, CacheTypes, CacheCurrent, FillsCurrent, PageInv, PageTypes,
      OneRead, SyncsBehind, BlocksFresh, Fresh, Reading, Hole
  <1>21. ASSUME NEW w \in Workers, Finish(w) PROVE PageInv'
    BY <1>21 DEF Finish, Goto, file, kernel, LockInv, Evicting, LockTypes,
      Guards, Requests, Inside, Before, Ino, Shared, Exclusive, Idle,
      CacheInv, CacheTypes, CacheCurrent, FillsCurrent, PageInv, PageTypes,
      OneRead, SyncsBehind, BlocksFresh, Fresh, Reading, Hole
  <1>22. ASSUME NEW w \in Workers, ReplyUntold(w) \/ ReplyFailed(w) PROVE PageInv'
    <2>1. /\ call[w].op = "sync" /\ pc[w] = "reply" /\ pc' = [pc EXCEPT ![w] = "drop"]
          /\ UNCHANGED <<call, got, content, pinned, page, told>>
      BY <1>22 DEF ReplyUntold, ReplyFailed, On, Answer, Goto, kernel
    <2> QED BY <2>1 DEF LockInv, LockTypes, PageInv, PageTypes, OneRead, SyncsBehind, BlocksFresh, Fresh,
                 Reading, Ino
  <1>23. CASE UNCHANGED vars
    BY <1>23 DEF vars, LockInv, Evicting, LockTypes, Guards, Requests, Inside,
      Before, Ino, Shared, Exclusive, Idle, CacheInv, CacheTypes,
      CacheCurrent, FillsCurrent, PageInv, PageTypes, OneRead, SyncsBehind,
      BlocksFresh, Fresh, Reading, Hole
  <1> QED BY <1>1, <1>2, <1>3, <1>4, <1>5, <1>6, <1>7, <1>8, <1>9, <1>10,
    <1>11, <1>12, <1>13, <1>14, <1>15, <1>16, <1>17, <1>18, <1>19, <1>20,
    <1>21, <1>22, <1>23 DEF Next, Handle

\* After fsync has told the kernel, and the kernel has taken it, no mapping shows
\* an older page: no read that was under way brings one back, and none that a
\* refused invalidation left behind is older than the last one taken.
THEOREM SyncedPagesAreFresh == Spec => []SyncedPagesFresh
  <1>1. PageInv => SyncedPagesFresh
    BY DEF PageInv, PageTypes, BlocksFresh, Fresh, SyncedPagesFresh, Versions, Hole
  <1> QED BY LockInit, LockStep, CacheInit, CacheStep, PageInit, PageStep, <1>1, PTL DEF Spec

-----------------------------------------------------------------------------
(* Types                                                                    *)
(*                                                                          *)
(* A version is bounded because a write is only sent while there is one for *)
(* each that is under way.                                                   *)

DataTypes ==
    /\ got \in [Workers -> {None, Hole} \cup Versions]
    /\ content \in [Inos -> Versions] /\ gone \in [Inos -> BOOLEAN]
    /\ told \in [Inos -> {Hole} \cup Versions]
    /\ cache \in [Inos -> Versions \cup {None}]
    /\ looked \in [Inos -> BOOLEAN] /\ page \in [Inos -> {None, Hole} \cup Versions]
    /\ pinned \in [Inos -> {"no", "queued", "served"}]

Room == \A i \in Inos : content[i] + Cardinality(Writes(i)) <= MaxVersion

LEMMA WritesFinite ==
    ASSUME NEW i \in Inos
    PROVE  IsFiniteSet(Writes(i)) /\ Cardinality(Writes(i)) \in Nat /\ Writes(i) \subseteq Workers
  BY WorkersAssumption, FS_Subset, FS_CardinalityType DEF Writes

\* Writes that are over make room.
LEMMA FewerFit ==
    ASSUME DataTypes, Room, NEW i \in Inos, Writes(i)' \subseteq Writes(i)
    PROVE  content[i] + Cardinality(Writes(i)') <= MaxVersion
  <1> DEFINE a == Writes(i)
             b == Writes(i)'
  <1>1. b \subseteq a /\ IsFiniteSet(a) /\ content[i] + Cardinality(a) <= MaxVersion /\ content[i] \in Nat
    BY WritesFinite DEF Room, DataTypes, Versions
  <1> HIDE DEF a, b
  <1>2. Cardinality(b) <= Cardinality(a) /\ Cardinality(a) \in Nat /\ Cardinality(b) \in Nat
    BY <1>1, FS_Subset, FS_CardinalityType
  <1>3. content[i] + Cardinality(b) <= MaxVersion
    BY <1>1, <1>2, BoundsAssumption
  <1> QED BY <1>3 DEF b

LEMMA RoomStays ==
    ASSUME DataTypes, Room, UNCHANGED content, \A i \in Inos : Writes(i)' \subseteq Writes(i)
    PROVE  Room'
  BY FewerFit DEF Room

LEMMA DataInit == Init => DataTypes /\ Room
  <1> SUFFICES ASSUME Init PROVE DataTypes /\ Room
    OBVIOUS
  <1>1. 1 \in Versions
    BY BoundsAssumption DEF Versions
  <1>2. DataTypes
    BY <1>1 DEF Init, DataTypes, Hole
  <1>3. \A i \in Inos : Writes(i) = {}
    BY DEF Init, Writes, Idle
  <1>4. Cardinality({}) = 0
    BY FS_EmptySet
  <1>5. \A i \in Inos : content[i] = 1
    BY DEF Init
  <1>6. \A i \in Inos : Cardinality(Writes(i)) = 0
    BY <1>3, <1>4
  <1>7. Room
    BY <1>5, <1>6, BoundsAssumption DEF Room
  <1> QED BY <1>2, <1>7

\* Only a request that is sent is a new write: what one worker does leaves the
\* writes of the others, and its own until it is over.
LEMMA WritesStay ==
    ASSUME LockTypes, NEW w \in Workers,
           \A v \in Workers \ {w} : call'[v] = call[v] /\ pc'[v] = pc[v],
           \/ call'[w].op # "write"
           \/ call'[w] = call[w] /\ (pc[w] \in {"unlock", "reply", "drop"} => pc'[w] \in {"reply", "drop"})
    PROVE  \A i \in Inos : Writes(i)' \subseteq Writes(i)
  <1> SUFFICES ASSUME NEW i \in Inos, NEW v \in Workers, call'[v] = [op |-> "write", ino |-> i],
                      pc'[v] \notin {"unlock", "reply", "drop"}
               PROVE  v \in Writes(i)
    BY DEF Writes
  <1>1. CASE v # w
    BY <1>1 DEF Writes
  <1>2. CASE v = w
    BY <1>2 DEF Writes
  <1> QED BY <1>1, <1>2

LEMMA HandlersAddNone ==
    ASSUME LockInv, NEW w \in Workers, Acquire(w) \/ ReplySync(w) \/ ReplyUntold(w) \/ Handle(w)
    PROVE  \A i \in Inos : Writes(i)' \subseteq Writes(i)
  <1> USE DEF LockInv, LockTypes, Goto
  <1> DEFINE Rest == \A v \in Workers \ {w} : call'[v] = call[v] /\ pc'[v] = pc[v]
             Same == call' = call /\ (pc[w] \in {"unlock", "reply", "drop"} => pc'[w] \in {"reply", "drop"})
  <1>1. CASE Acquire(w)
    <2>1. Rest /\ Same
      BY <1>1 DEF Acquire, On, Answer
    <2> QED BY <2>1, WritesStay
  <1>2. CASE ReplySync(w)
    <2>1. Rest /\ Same
      BY <1>2 DEF ReplySync, On, Answer
    <2> QED BY <2>1, WritesStay
  <1>3. CASE LockFor(w)
    <2>1. Rest /\ Same
      BY <1>3 DEF LockFor, On, Answer
    <2> QED BY <2>1, WritesStay
  <1>4. CASE Remove(w)
    <2>1. Rest /\ Same
      BY <1>4 DEF Remove, On, Answer
    <2> QED BY <2>1, WritesStay
  <1>5. CASE Unlock(w)
    <2>1. Rest /\ (Same \/ call'[w].op # "write")
      BY <1>5 DEF Unlock, Evicting
    <2> QED BY <2>1, WritesStay
  <1>6. CASE Evict(w)
    <2>1. Rest /\ Same
      BY <1>6 DEF Evict, On, Answer
    <2> QED BY <2>1, WritesStay
  <1>7. CASE ReadCache(w)
    <2>1. Rest /\ Same
      BY <1>7 DEF ReadCache, On, Answer
    <2> QED BY <2>1, WritesStay
  <1>8. CASE ReadStore(w)
    <2>1. Rest /\ Same
      BY <1>8 DEF ReadStore, On, Answer
    <2> QED BY <2>1, WritesStay
  <1>9. CASE Insert(w)
    <2>1. Rest /\ Same
      BY <1>9 DEF Insert, On, Answer
    <2> QED BY <2>1, WritesStay
  <1>10. CASE Attributes(w)
    <2>1. Rest /\ Same
      BY <1>10 DEF Attributes, On, Answer
    <2> QED BY <2>1, WritesStay
  <1>11. CASE Invalidate(w)
    <2>1. Rest /\ Same
      BY <1>11 DEF Invalidate, On, Answer
    <2> QED BY <2>1, WritesStay
  <1>12. CASE Change(w)
    <2>1. Rest /\ Same
      BY <1>12 DEF Change, On, Answer
    <2> QED BY <2>1, WritesStay
  <1>13. CASE Commit(w)
    <2>1. Rest /\ Same
      BY <1>13 DEF Commit, On, Answer
    <2> QED BY <2>1, WritesStay
  <1>14. CASE DropTail(w)
    <2>1. Rest /\ Same
      BY <1>14 DEF DropTail, On, Answer
    <2> QED BY <2>1, WritesStay
  <1>15. CASE ReplyRead(w)
    <2>1. Rest /\ Same
      BY <1>15 DEF ReplyRead, On, Answer
    <2> QED BY <2>1, WritesStay
  <1>16. CASE ReplyLookup(w)
    <2>1. Rest /\ Same
      BY <1>16 DEF ReplyLookup, On, Answer
    <2> QED BY <2>1, WritesStay
  <1>17. CASE ReplyOther(w)
    <2>1. Rest /\ Same
      BY <1>17 DEF ReplyOther, On, Answer
    <2> QED BY <2>1, WritesStay
  <1>18. CASE Finish(w)
    <2>1. Rest /\ call'[w].op # "write"
      BY <1>18 DEF Finish, Idle
    <2> QED BY <2>1, WritesStay
  <1>19. CASE ReplyUntold(w)
    <2>1. Rest /\ Same
      BY <1>19 DEF ReplyUntold, On, Answer
    <2> QED BY <2>1, WritesStay
  <1>20. CASE ReplyFailed(w)
    <2>1. Rest /\ Same
      BY <1>20 DEF ReplyFailed, On, Answer
    <2> QED BY <2>1, WritesStay
  <1> QED BY <1>1, <1>2, <1>3, <1>4, <1>5, <1>6, <1>7, <1>8, <1>9, <1>10, <1>11, <1>12, <1>13, <1>14, <1>15, <1>16, <1>17, <1>18, <1>19, <1>20 DEF Handle

LEMMA DataStep == LockInv /\ CacheInv /\ DataTypes /\ Room /\ [Next]_vars => (DataTypes /\ Room)'
  <1> SUFFICES ASSUME LockInv, CacheInv, DataTypes, Room, [Next]_vars PROVE (DataTypes /\ Room)'
    OBVIOUS
  <1> USE LocksAssumption, OpsAssumption
  <1>1. ASSUME NEW w \in Workers, NEW op \in Ops \ {"read"}, NEW i \in Inos, Send(w, op, i)
        PROVE  (DataTypes /\ Room)'
    <2>1. /\ pc[w] = "idle" /\ call' = [call EXCEPT ![w] = [op |-> op, ino |-> i]]
          /\ \E step \in {"remove", "fetch"} : pc' = [pc EXCEPT ![w] = step]
          /\ UNCHANGED content
      BY <1>1 DEF Send, Goto, file
    <2>2. DataTypes'
      BY <1>1 DEF Send, file, DataTypes
    <2>3. \A v \in Workers \ {w} : call'[v] = call[v] /\ pc'[v] = pc[v]
      BY <2>1 DEF LockInv, LockTypes
    <2>4. call'[w] = [op |-> op, ino |-> i]
      BY <2>1 DEF LockInv, LockTypes
    <2>5. CASE op # "write"
      <3>1. \A j \in Inos : Writes(j)' \subseteq Writes(j)
        BY <2>3, <2>4, <2>5, WritesStay DEF LockInv
      <3> QED BY <2>1, <2>2, <3>1, RoomStays
    <2>6. CASE op = "write"
      <3>1. content[i] + Cardinality(Writes(i)) < MaxVersion
        BY <1>1, <2>6 DEF Send, MaySend
      <3> SUFFICES ASSUME NEW j \in Inos PROVE content[j] + Cardinality(Writes(j)') <= MaxVersion
        BY <2>1, <2>2 DEF Room
      <3>2. CASE j # i
        <4>1. Writes(j)' \subseteq Writes(j)
          BY <2>3, <2>4, <3>2 DEF Writes
        <4> QED BY <4>1, FewerFit
      <3>3. CASE j = i
        <4> DEFINE a == Writes(i)
                   b == Writes(i)'
        <4>1. b \subseteq a \cup {w}
          BY <2>3 DEF Writes
        <4>2. IsFiniteSet(a) /\ content[i] \in Nat /\ content[i] + Cardinality(a) < MaxVersion
          BY <3>1, WritesFinite DEF DataTypes, Versions
        <4> HIDE DEF a, b
        <4>6. Cardinality(a) \in Nat
          BY <4>2, FS_CardinalityType
        <4>7. IsFiniteSet(a \cup {w}) /\ Cardinality(a \cup {w}) \in {Cardinality(a), Cardinality(a) + 1}
          <5>1. CASE w \in a
            <6>1. a \cup {w} = a
              BY <5>1
            <6> QED BY <4>2, <6>1
          <5>2. CASE w \notin a
            BY <4>2, <5>2, FS_AddElement
          <5> QED BY <5>1, <5>2
        <4>3. /\ IsFiniteSet(a \cup {w}) /\ Cardinality(a \cup {w}) <= Cardinality(a) + 1
              /\ Cardinality(a) \in Nat
          BY <4>6, <4>7
        <4>4. Cardinality(b) <= Cardinality(a \cup {w}) /\ Cardinality(b) \in Nat /\ Cardinality(a \cup {w}) \in Nat
          BY <4>1, <4>3, FS_Subset, FS_CardinalityType
        <4>5. content[i] + Cardinality(b) <= MaxVersion
          BY <4>2, <4>3, <4>4, BoundsAssumption
        <4> QED BY <3>3, <4>5 DEF b
      <3> QED BY <3>2, <3>3
    <2> QED BY <2>5, <2>6
  <1>2. ASSUME NEW i \in Inos, Fault(i) PROVE (DataTypes /\ Room)'
    <2>1. DataTypes' /\ UNCHANGED <<content, call, pc>>
      BY <1>2 DEF Fault, file, DataTypes
    <2>2. \A j \in Inos : Writes(j)' \subseteq Writes(j)
      BY <2>1 DEF Writes
    <2> QED BY <2>1, <2>2, RoomStays
  <1>3. ASSUME NEW w \in Workers, NEW i \in Inos, Serve(w, i) PROVE (DataTypes /\ Room)'
    <2>1. DataTypes' /\ UNCHANGED content
      BY <1>3 DEF Serve, file, DataTypes
    <2>2. \A v \in Workers \ {w} : call'[v] = call[v] /\ pc'[v] = pc[v]
      BY <1>3 DEF Serve, Goto, LockInv, LockTypes
    <2>3. call'[w].op # "write"
      BY <1>3 DEF Serve, LockInv, LockTypes
    <2>4. \A j \in Inos : Writes(j)' \subseteq Writes(j)
      BY <2>2, <2>3, WritesStay DEF LockInv
    <2> QED BY <2>1, <2>4, RoomStays
  <1>4. ASSUME NEW w \in Workers, Acquire(w) \/ ReplySync(w) \/ ReplyUntold(w) \/ Handle(w), DataTypes', UNCHANGED content
        PROVE  (DataTypes /\ Room)'
    <2>1. \A j \in Inos : Writes(j)' \subseteq Writes(j)
      BY <1>4, HandlersAddNone
    <2> QED BY <1>4, <2>1, RoomStays
  <1>5. ASSUME NEW w \in Workers, Acquire(w) PROVE (DataTypes /\ Room)'
    <2>1. DataTypes' /\ UNCHANGED content
      BY <1>5 DEF Acquire, file, kernel, DataTypes
    <2> QED BY <1>5, <2>1, <1>4 DEF Handle
  <1>6. ASSUME NEW w \in Workers, ReplySync(w) PROVE (DataTypes /\ Room)'
    <2>1. DataTypes' /\ UNCHANGED content
      BY <1>6 DEF ReplySync, On, Answer, LockInv, LockTypes, Requests, Ino, Hole, Versions, DataTypes
    <2> QED BY <1>6, <2>1, <1>4 DEF Handle
  <1>7. ASSUME NEW w \in Workers, LockFor(w) PROVE (DataTypes /\ Room)'
    <2>1. DataTypes' /\ UNCHANGED content
      BY <1>7 DEF LockFor, file, kernel, DataTypes
    <2> QED BY <1>7, <2>1, <1>4 DEF Handle
  <1>8. ASSUME NEW w \in Workers, Remove(w) PROVE (DataTypes /\ Room)'
    <2>1. DataTypes' /\ UNCHANGED content
      BY <1>8 DEF Remove, On, kernel, LockInv, LockTypes, Requests, Ino, DataTypes
    <2> QED BY <1>8, <2>1, <1>4 DEF Handle
  <1>9. ASSUME NEW w \in Workers, Unlock(w) PROVE (DataTypes /\ Room)'
    <2>1. DataTypes' /\ UNCHANGED content
      BY <1>9 DEF Unlock, file, kernel, DataTypes
    <2> QED BY <1>9, <2>1, <1>4 DEF Handle
  <1>10. ASSUME NEW w \in Workers, Evict(w) PROVE (DataTypes /\ Room)'
    <2>1. DataTypes' /\ UNCHANGED content
      BY <1>10 DEF Evict, file, kernel, DataTypes
    <2> QED BY <1>10, <2>1, <1>4 DEF Handle
  <1>11. ASSUME NEW w \in Workers, ReadCache(w) PROVE (DataTypes /\ Room)'
    <2>1. DataTypes' /\ UNCHANGED content
      BY <1>11 DEF ReadCache, On, file, kernel, LockInv, LockTypes, Requests, Ino, DataTypes
    <2> QED BY <1>11, <2>1, <1>4 DEF Handle
  <1>12. ASSUME NEW w \in Workers, ReadStore(w) PROVE (DataTypes /\ Room)'
    <2>1. DataTypes' /\ UNCHANGED content
      BY <1>12 DEF ReadStore, On, file, kernel, Hole, LockInv, LockTypes, Requests, Ino, DataTypes
    <2> QED BY <1>12, <2>1, <1>4 DEF Handle
  <1>13. ASSUME NEW w \in Workers, Insert(w) PROVE (DataTypes /\ Room)'
    <2>1. DataTypes' /\ UNCHANGED content
      BY <1>13 DEF Insert, On, file, kernel, LockInv, LockTypes, Requests, Ino, CacheInv, FillsCurrent, DataTypes
    <2> QED BY <1>13, <2>1, <1>4 DEF Handle
  <1>14. ASSUME NEW w \in Workers, Attributes(w) PROVE (DataTypes /\ Room)'
    <2>1. DataTypes' /\ UNCHANGED content
      BY <1>14 DEF Attributes, On, file, kernel, DataTypes
    <2> QED BY <1>14, <2>1, <1>4 DEF Handle
  <1>15. ASSUME NEW w \in Workers, Invalidate(w) PROVE (DataTypes /\ Room)'
    <2>1. DataTypes' /\ UNCHANGED content
      BY <1>15 DEF Invalidate, file, kernel, LockInv, LockTypes, Requests, Ino, DataTypes
    <2> QED BY <1>15, <2>1, <1>4 DEF Handle
  <1>16. ASSUME NEW w \in Workers, Commit(w) PROVE (DataTypes /\ Room)'
    <2>1. DataTypes' /\ UNCHANGED content
      BY <1>16 DEF Commit, On, file, kernel, LockInv, LockTypes, Requests, Ino, DataTypes
    <2> QED BY <1>16, <2>1, <1>4 DEF Handle
  <1>17. ASSUME NEW w \in Workers, DropTail(w) PROVE (DataTypes /\ Room)'
    <2>1. DataTypes' /\ UNCHANGED content
      BY <1>17 DEF DropTail, file, kernel, DataTypes
    <2> QED BY <1>17, <2>1, <1>4 DEF Handle
  <1>18. ASSUME NEW w \in Workers, ReplyRead(w) PROVE (DataTypes /\ Room)'
    <2>1. DataTypes' /\ UNCHANGED content
      BY <1>18 DEF ReplyRead, On, Answer, LockInv, LockTypes, Requests, Ino, DataTypes
    <2> QED BY <1>18, <2>1, <1>4 DEF Handle
  <1>19. ASSUME NEW w \in Workers, ReplyLookup(w) PROVE (DataTypes /\ Room)'
    <2>1. DataTypes' /\ UNCHANGED content
      BY <1>19 DEF ReplyLookup, On, Answer, LockInv, LockTypes, Requests, Ino, DataTypes
    <2> QED BY <1>19, <2>1, <1>4 DEF Handle
  <1>20. ASSUME NEW w \in Workers, ReplyOther(w) PROVE (DataTypes /\ Room)'
    <2>1. DataTypes' /\ UNCHANGED content
      BY <1>20 DEF ReplyOther, Answer, DataTypes
    <2> QED BY <1>20, <2>1, <1>4 DEF Handle
  <1>21. ASSUME NEW w \in Workers, Finish(w) PROVE (DataTypes /\ Room)'
    <2>1. DataTypes' /\ UNCHANGED content
      BY <1>21 DEF Finish, file, kernel, DataTypes
    <2> QED BY <1>21, <2>1, <1>4 DEF Handle
  <1>22. ASSUME NEW w \in Workers, Change(w) PROVE (DataTypes /\ Room)'
    <2>0. PICK i \in Inos : call[w] = [op |-> "write", ino |-> i]
      BY <1>22 DEF Change, On, LockInv, LockTypes, Requests, Idle
    <2>1. /\ pc[w] = "change" /\ pc' = [pc EXCEPT ![w] = "unlock"]
          /\ UNCHANGED <<call, got, gone, told, cache, looked, page, pinned>>
          /\ content' = IF gone[i] THEN content ELSE [content EXCEPT ![i] = content[i] + 1]
      BY <1>22, <2>0 DEF Change, On, Goto, kernel, Ino
    <2>2. CASE gone[i]
      <3>1. DataTypes' /\ UNCHANGED content
        BY <2>1, <2>2 DEF DataTypes
      <3> QED BY <1>22, <3>1, <1>4 DEF Handle
    <2>3. CASE ~gone[i]
      <3>1. content' = [content EXCEPT ![i] = content[i] + 1]
        BY <2>1, <2>3
      <3> DEFINE a == Writes(i)
                 b == Writes(i)'
      <3>2. w \in a /\ b \subseteq a \ {w}
        BY <2>0, <2>1 DEF LockInv, LockTypes, Writes
      <3>3. IsFiniteSet(a) /\ content[i] \in Nat /\ content[i] + Cardinality(a) <= MaxVersion
        BY <2>1, WritesFinite DEF Room, DataTypes, Versions
      <3>4. content[i] + 1 + Cardinality(b) <= MaxVersion /\ Cardinality(b) \in Nat
        <4> HIDE DEF a, b
        <4>1. /\ IsFiniteSet(a \ {w}) /\ Cardinality(a \ {w}) = Cardinality(a) - 1
              /\ Cardinality(a) \in Nat
          BY <3>2, <3>3, FS_RemoveElement, FS_CardinalityType
        <4>2. Cardinality(b) <= Cardinality(a \ {w}) /\ Cardinality(b) \in Nat
          BY <3>2, <4>1, FS_Subset, FS_CardinalityType
        <4> QED BY <3>3, <4>1, <4>2, BoundsAssumption
      <3>5. DataTypes'
        BY <2>1, <3>1, <3>3, <3>4, BoundsAssumption DEF DataTypes, Versions
      <3>6. Room'
        <4> SUFFICES ASSUME NEW j \in Inos PROVE content'[j] + Cardinality(Writes(j)') <= MaxVersion
          BY DEF Room
        <4>1. CASE j = i
          BY <3>1, <3>4, <4>1 DEF DataTypes
        <4>2. CASE j # i
          <5>1. content'[j] = content[j]
            BY <3>1, <4>2 DEF DataTypes
          <5>2. Writes(j)' \subseteq Writes(j)
            BY <1>22, HandlersAddNone DEF Handle
          <5> QED BY <5>1, <5>2, FewerFit
        <4> QED BY <4>1, <4>2
      <3> QED BY <3>5, <3>6
    <2> QED BY <2>2, <2>3
  <1>24. ASSUME NEW w \in Workers, ReplyUntold(w) \/ ReplyFailed(w) PROVE (DataTypes /\ Room)'
    <2>1. DataTypes' /\ UNCHANGED content
      BY <1>24 DEF ReplyUntold, ReplyFailed, Answer, kernel, DataTypes
    <2> QED BY <1>24, <2>1, <1>4 DEF Handle
  <1>23. CASE UNCHANGED vars
    <2>1. DataTypes' /\ UNCHANGED <<content, call, pc>>
      BY <1>23 DEF vars, DataTypes
    <2>2. \A j \in Inos : Writes(j)' \subseteq Writes(j)
      BY <2>1 DEF Writes
    <2> QED BY <2>1, <2>2, RoomStays
  <1> QED BY <1>1, <1>2, <1>3, <1>5, <1>6, <1>7, <1>8, <1>9, <1>10, <1>11, <1>12, <1>13, <1>14, <1>15, <1>16, <1>17, <1>18, <1>19, <1>20, <1>21, <1>22, <1>23, <1>24 DEF Next, Handle

\* The state of the workers, the lock table, the block cache and the kernel is
\* well typed: TypeOK of LockTable.  No guard is held without an Arc, and the
\* writes under way never take an inode past its last version.
THEOREM TypeCorrect == Spec => []TypeOK
  <1>1. LockInv /\ DataTypes => TypeOK
    BY DEF LockInv, LockTypes, Guards, Requests, DataTypes, TypeOK
  <1> QED BY LockInit, LockStep, CacheInit, CacheStep, DataInit, DataStep, <1>1, PTL DEF Spec
=============================================================================
