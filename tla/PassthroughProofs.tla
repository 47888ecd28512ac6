------------------------- MODULE PassthroughProofs -------------------------
(***************************************************************************)
(* KernelKnown of Passthrough, for any number of names, threads and inode   *)
(* numbers, and any workload: renames of directories and over what is there *)
(* included.  NumberServes, for workloads without those and without         *)
(* attributes set of removed files, which it does not survive.              *)
(*                                                                          *)
(* TableInv is about InodeTable alone: by_path leads to numbers of by_ino   *)
(* that have this path, so that forget, which takes one entry from each,    *)
(* leaves no path that leads nowhere.  KnownInv compares the table's counts *)
(* with the lookups the kernel has been told of, or will be.                *)
(*                                                                          *)
(* ServesInv adds what holds between the tree, the table and the requests   *)
(* under way.  Requests resolve a path under the table's lock and use it    *)
(* without; Apart says what the kernel's locks keep other requests from     *)
(* changing meanwhile, Fine that what a request resolved or found is still  *)
(* so, and ServedInv where the object of a number is while a rename has     *)
(* changed the tree and not yet the table.                                  *)
(***************************************************************************)
EXTENDS Passthrough, FiniteSetTheorems, SequenceTheorems, TLAPS

(***************************************************************************)
(* InodeTable                                                               *)
(***************************************************************************)

TableInv ==
    /\ next_ino \in Nat
    /\ \A i \in DOMAIN by_ino :
          /\ i \in Nat /\ i < next_ino
          /\ {"path", "count"} \subseteq DOMAIN by_ino[i] /\ by_ino[i].count \in Nat
    /\ \A p \in DOMAIN by_path : by_path[p] \in DOMAIN by_ino /\ by_ino[by_path[p]].path = p

\* lookup_count, of a number that is not in the table as well.
Count(i) == IF i \in DOMAIN by_ino THEN by_ino[i].count ELSE 0

LEMMA CountType ==
    ASSUME TableInv, NEW i PROVE Count(i) \in Nat
  BY DEF TableInv, Count

LEMMA SameTable ==
    ASSUME TableInv, UNCHANGED table PROVE TableInv' /\ \A i : Count(i)' = Count(i)
  BY DEF TableInv, table, Count

\* What Counted changes, when there is enough to take away.
LEMMA CountedStep ==
    ASSUME TableInv, NEW i \in DOMAIN by_ino, NEW n \in Int, by_ino[i].count + n \in Nat,
           SetTable(TableOf(Counted(i, n), by_path, next_ino))
    PROVE  /\ TableInv' /\ by_path' = by_path
           /\ \A j : Count(j)' = IF j = i THEN Count(i) + n ELSE Count(j)
  <1>1. /\ by_ino' = [by_ino EXCEPT ![i] = [by_ino[i] EXCEPT !.count = by_ino[i].count + n]]
        /\ by_path' = by_path /\ next_ino' = next_ino
    BY DEF SetTable, TableOf, Counted
  <1>2. DOMAIN by_ino' = DOMAIN by_ino /\ \A j \in DOMAIN by_ino : j # i => by_ino'[j] = by_ino[j]
    BY <1>1
  <1>3. /\ DOMAIN by_ino'[i] = DOMAIN by_ino[i] /\ by_ino'[i].path = by_ino[i].path
        /\ by_ino'[i].count = by_ino[i].count + n
    BY <1>1 DEF TableInv
  <1>4. TableInv'
    BY <1>1, <1>2, <1>3 DEF TableInv
  <1> QED BY <1>1, <1>2, <1>3, <1>4 DEF Count

\* lookup_or_insert returns a number of the table that it has counted once more,
\* and takes nothing from the others.
LEMMA InsertStep ==
    ASSUME TableInv, NEW p, SetTable(LookupOrInsert(p))
    PROVE  /\ TableInv' /\ p \in DOMAIN by_path' /\ by_path'[p] \in Nat
           /\ \A i : Count(i)' = IF i = by_path'[p] THEN Count(i) + 1 ELSE Count(i)
  <1>1. CASE p \in DOMAIN by_path
    <2>1. by_path[p] \in DOMAIN by_ino
      BY <1>1 DEF TableInv
    <2>2. SetTable(TableOf(Counted(by_path[p], 1), by_path, next_ino))
      BY <1>1, <2>1 DEF LookupOrInsert
    <2>3. by_ino[by_path[p]].count + 1 \in Nat /\ by_path[p] \in Nat
      BY <2>1 DEF TableInv
    <2>4. /\ TableInv' /\ by_path' = by_path
          /\ \A j : Count(j)' = IF j = by_path[p] THEN Count(by_path[p]) + 1 ELSE Count(j)
      BY <2>1, <2>2, <2>3, CountedStep
    <2> QED BY <1>1, <2>3, <2>4
  <1>2. CASE p \notin DOMAIN by_path
    <2>1. /\ by_ino' = With(by_ino, next_ino, [path |-> p, count |-> 1])
          /\ by_path' = With(by_path, p, next_ino) /\ next_ino' = next_ino + 1
      BY <1>2 DEF SetTable, TableOf, LookupOrInsert
    <2>2. /\ next_ino \notin DOMAIN by_ino /\ DOMAIN by_ino' = DOMAIN by_ino \cup {next_ino}
          /\ by_ino'[next_ino] = [path |-> p, count |-> 1]
          /\ \A j \in DOMAIN by_ino : by_ino'[j] = by_ino[j]
      BY <2>1 DEF With, TableInv
    <2>3. /\ DOMAIN by_path' = DOMAIN by_path \cup {p} /\ by_path'[p] = next_ino
          /\ \A q \in DOMAIN by_path : by_path'[q] = by_path[q]
      BY <1>2, <2>1 DEF With
    <2>4. TableInv'
      BY <2>1, <2>2, <2>3 DEF TableInv
    <2>5. \A i : Count(i)' = IF i = next_ino THEN Count(i) + 1 ELSE Count(i)
      BY <2>2 DEF Count
    <2> QED BY <2>3, <2>4, <2>5 DEF TableInv
  <1> QED BY <1>1, <1>2

LEMMA RenameStep ==
    ASSUME TableInv, NEW old, NEW new, SetTable(RenamePath(old, new))
    PROVE  TableInv' /\ \A i : Count(i)' = Count(i)
  <1>1. CASE old \notin DOMAIN by_path
    BY <1>1, SameTable DEF SetTable, TableOf, RenamePath, table
  <1>2. CASE old \in DOMAIN by_path
    <2> DEFINE i == by_path[old]
    <2>1. i \in DOMAIN by_ino /\ by_ino[i].path = old
      BY <1>2 DEF TableInv
    <2>2. /\ by_ino' = [by_ino EXCEPT ![i] = [by_ino[i] EXCEPT !.path = new]]
          /\ by_path' = With(Without(by_path, {old}), new, i) /\ next_ino' = next_ino
      BY <1>2, <2>1 DEF SetTable, TableOf, RenamePath
    <2> HIDE DEF i
    <2>3. /\ DOMAIN by_ino' = DOMAIN by_ino /\ \A j \in DOMAIN by_ino : j # i => by_ino'[j] = by_ino[j]
          /\ DOMAIN by_ino'[i] = DOMAIN by_ino[i] /\ by_ino'[i].path = new
          /\ by_ino'[i].count = by_ino[i].count
      BY <2>1, <2>2 DEF TableInv
    <2>4. /\ DOMAIN by_path' = (DOMAIN by_path \ {old}) \cup {new} /\ by_path'[new] = i
          /\ \A q \in DOMAIN by_path \ {old, new} : by_path'[q] = by_path[q]
      BY <2>2 DEF With, Without
    <2>5. \A q \in DOMAIN by_path \ {old, new} : by_path[q] # i
      BY <2>1 DEF TableInv
    <2>6. ASSUME NEW q \in DOMAIN by_path' PROVE by_path'[q] \in DOMAIN by_ino /\ by_ino'[by_path'[q]].path = q
      <3>1. CASE q = new
        BY <2>1, <2>3, <2>4, <3>1
      <3>2. CASE q # new
        <4>1. q \in DOMAIN by_path /\ by_path'[q] = by_path[q] /\ by_path[q] # i
          BY <2>4, <2>5, <3>2
        <4> QED BY <2>3, <4>1 DEF TableInv
      <3> QED BY <3>1, <3>2
    <2>7. ASSUME NEW j \in DOMAIN by_ino
          PROVE  {"path", "count"} \subseteq DOMAIN by_ino'[j] /\ by_ino'[j].count = by_ino[j].count
      BY <2>1, <2>3 DEF TableInv
    <2>8. TableInv'
      BY <2>2, <2>3, <2>6, <2>7 DEF TableInv
    <2> QED BY <2>3, <2>7, <2>8 DEF Count
  <1> QED BY <1>1, <1>2

\* forget takes away what it was told, and the number only when nothing is left.
LEMMA ForgetStep ==
    ASSUME TableInv, NEW i \in DOMAIN by_ino, NEW n \in Nat, SetTable(ForgetNumber(i, n))
    PROVE  /\ TableInv'
           /\ \A j : j # i => Count(j)' = Count(j)
           /\ Count(i)' = IF Count(i) > n THEN Count(i) - n ELSE 0
  <1>1. CASE by_ino[i].count > n
    <2>1. SetTable(TableOf(Counted(i, -n), by_path, next_ino)) /\ -n \in Int /\ by_ino[i].count + (-n) \in Nat
      BY <1>1 DEF ForgetNumber, TableInv
    <2>2. TableInv' /\ \A j : Count(j)' = IF j = i THEN Count(i) + (-n) ELSE Count(j)
      BY <2>1, CountedStep
    <2>3. Count(i) = by_ino[i].count /\ Count(i) \in Nat
      BY CountType DEF Count
    <2> QED BY <1>1, <2>2, <2>3
  <1>2. CASE ~(by_ino[i].count > n)
    <2>1. /\ by_ino' = Without(by_ino, {i}) /\ next_ino' = next_ino
          /\ by_path' = Without(by_path, {by_ino[i].path})
      BY <1>2 DEF SetTable, TableOf, ForgetNumber
    <2>2. DOMAIN by_ino' = DOMAIN by_ino \ {i} /\ \A j \in DOMAIN by_ino' : by_ino'[j] = by_ino[j]
      BY <2>1 DEF Without
    <2>3. /\ DOMAIN by_path' = DOMAIN by_path \ {by_ino[i].path}
          /\ \A p \in DOMAIN by_path' : by_path'[p] = by_path[p]
      BY <2>1 DEF Without
    <2>4. ASSUME NEW p \in DOMAIN by_path' PROVE by_path'[p] \in DOMAIN by_ino' /\ by_ino'[by_path'[p]].path = p
      <3>1. p \in DOMAIN by_path /\ by_path'[p] = by_path[p] /\ p # by_ino[i].path
        BY <2>3
      <3>2. by_path[p] \in DOMAIN by_ino /\ by_ino[by_path[p]].path = p
        BY <3>1 DEF TableInv
      <3>3. by_path[p] # i
        BY <3>1, <3>2
      <3> QED BY <2>2, <3>1, <3>2, <3>3
    <2>6. ASSUME NEW j \in DOMAIN by_ino' PROVE j \in DOMAIN by_ino /\ by_ino'[j] = by_ino[j]
      BY <2>2
    <2>7. \A j \in DOMAIN by_ino' : /\ j \in Nat /\ j < next_ino
                                    /\ {"path", "count"} \subseteq DOMAIN by_ino'[j] /\ by_ino'[j].count \in Nat
      BY <2>6 DEF TableInv
    <2>5. TableInv'
      BY <2>1, <2>4, <2>7 DEF TableInv
    <2> QED BY <1>2, <2>2, <2>5 DEF Count
  <1> QED BY <1>1, <1>2

-----------------------------------------------------------------------------
(* What the kernel knows                                                    *)

Waiting(i) == {t \in Threads : req[t] # Idle /\ req[t].num = i}
Replies(i) == Cardinality(Waiting(i))

\* A request has a number only while its reply is on the way.
Requested(r) ==
    \/ r = Idle
    \/ /\ {"op", "pc", "ino", "path", "obj", "todo", "num"} \subseteq DOMAIN r
       /\ r.pc \in {"call", "list", "enter", "reply"}
       /\ r.num # None => r.pc = "reply"

ReqInv == DOMAIN req = Threads /\ \A t \in Threads : Requested(req[t])

Backed == \A i \in Inos \ {Root} : known[i] + Replies(i) <= Count(i)

KnownInv == TableInv /\ ReqInv /\ known \in [Inos -> Nat] /\ Backed

LEMMA RepliesType == \A i : IsFiniteSet(Waiting(i)) /\ Replies(i) \in Nat
  <1> TAKE i
  <1>1. Waiting(i) \subseteq Threads
    BY DEF Waiting
  <1> HIDE DEF Waiting
  <1> QED BY <1>1, ThreadsAssumption, FS_Subset, FS_CardinalityType DEF Replies

\* A step of a request that neither gains nor delivers a number.
LEMMA NoReply ==
    ASSUME ReqInv, NEW t \in Threads, NEW r, req' = [req EXCEPT ![t] = r], Requested(r),
           req[t] # Idle => req[t].num = None, r # Idle => r.num = None
    PROVE  ReqInv' /\ \A i \in Inos : Replies(i)' = Replies(i)
  <1>1. ReqInv'
    BY DEF ReqInv
  <1>2. ASSUME NEW i \in Inos PROVE Waiting(i)' = Waiting(i)
    BY NoneAssumption DEF Waiting, ReqInv, Inos, Root
  <1> QED BY <1>1, <1>2 DEF Replies

\* Where the table keeps its counts and the kernel learns nothing, KnownInv stays.
LEMMA KnownStays ==
    ASSUME KnownInv, TableInv', ReqInv', UNCHANGED known,
           \A i \in Inos : Count(i)' >= Count(i) /\ Replies(i)' = Replies(i)
    PROVE  KnownInv'
  <1>1. \A i \in Inos \ {Root} : known[i] + Replies(i) <= Count(i)'
    <2> TAKE i \in Inos \ {Root}
    <2>1. known[i] + Replies(i) <= Count(i) /\ Count(i)' >= Count(i)
      BY DEF KnownInv, Backed
    <2>2. known[i] \in Nat /\ Replies(i) \in Nat /\ Count(i) \in Nat /\ Count(i)' \in Nat
      BY RepliesType, CountType DEF KnownInv, Count, TableInv
    <2> QED BY <2>1, <2>2
  <1> QED BY <1>1 DEF KnownInv, Backed

\* A call into the backing directory, or the arrival or the end of a request.
LEMMA CallStep ==
    ASSUME KnownInv, UNCHANGED <<table, known>>, NEW t \in Threads, NEW r, req' = [req EXCEPT ![t] = r],
           Requested(r), req[t] # Idle => req[t].num = None, r # Idle => r.num = None
    PROVE  KnownInv'
  <1>1. ReqInv' /\ \A i \in Inos : Replies(i)' = Replies(i)
    BY NoReply DEF KnownInv
  <1>2. TableInv' /\ \A i : Count(i)' = Count(i) /\ Count(i) \in Nat
    BY SameTable, CountType DEF KnownInv
  <1> QED BY <1>1, <1>2, KnownStays

LEMMA EndStep ==
    ASSUME KnownInv, UNCHANGED <<table, known>>, NEW t \in Threads, End(t), req[t] # Idle => req[t].num = None
    PROVE  KnownInv'
  BY CallStep DEF End, Requested

\* What a system call found is noted in the request.
LEMMA Noted ==
    ASSUME ReqInv, NEW t \in Threads, req[t].pc = "call", NEW s \in {"call", "enter"}, NEW o
    PROVE  LET r == [req[t] EXCEPT !.pc = s, !.obj = o] IN Requested(r) /\ r.num = None /\ req[t].num = None
  BY DEF ReqInv, Requested, Idle

LEMMA FoundStep ==
    ASSUME KnownInv, UNCHANGED <<table, known>>, NEW t \in Threads, req[t].pc = "call", NEW o, Found(t, o)
    PROVE  KnownInv'
  <1> DEFINE r == [req[t] EXCEPT !.pc = "enter", !.obj = o]
  <1>1. req' = [req EXCEPT ![t] = r]
    BY DEF Found, KnownInv, ReqInv
  <1>2. Requested(r) /\ r.num = None /\ req[t].num = None
    BY Noted DEF KnownInv
  <1> HIDE DEF r
  <1> QED BY <1>1, <1>2, CallStep

LEMMA Unmoved ==
    ASSUME KnownInv, UNCHANGED <<table, req, known>> PROVE KnownInv'
  <1>1. TableInv' /\ \A i : Count(i)' = Count(i) /\ Count(i) \in Nat
    BY SameTable, CountType DEF KnownInv
  <1>2. ReqInv' /\ \A i \in Inos : Replies(i)' = Replies(i)
    BY DEF KnownInv, ReqInv, Replies, Waiting
  <1> QED BY <1>1, <1>2, KnownStays

LEMMA KnownInit == Init => KnownInv
  <1> SUFFICES ASSUME Init PROVE KnownInv
    OBVIOUS
  <1>1. TableInv
    BY DEF Init, InitTable, TableOf, TableInv, Root
  <1>2. ReqInv /\ known \in [Inos -> Nat]
    BY DEF Init, ReqInv, Requested
  <1>3. Backed
    <2> SUFFICES ASSUME NEW i \in Inos \ {Root} PROVE known[i] + Replies(i) <= Count(i)
      BY DEF Backed
    <2>1. Waiting(i) = {} /\ known[i] = 0
      BY DEF Init, Waiting
    <2>2. Replies(i) = 0
      BY <2>1, FS_EmptySet DEF Replies
    <2> QED BY <1>1, <2>1, <2>2, CountType
  <1> QED BY <1>1, <1>2, <1>3 DEF KnownInv

LEMMA KnownStep == KnownInv /\ [Next]_vars => KnownInv'
  <1> SUFFICES ASSUME KnownInv, [Next]_vars PROVE KnownInv'
    OBVIOUS
  <1>0. ASSUME NEW t \in Threads, req[t].pc \in {"call", "list", "enter"}
        PROVE  /\ req[t] # Idle /\ req[t].num = None
               /\ {"op", "pc", "ino", "path", "obj", "todo", "num"} \subseteq DOMAIN req[t]
    BY <1>0 DEF KnownInv, ReqInv, Requested, Idle
  <1>1. ASSUME NEW t \in Threads, Request(t) PROVE KnownInv'
    <2>1. PICK op, i, n, j, m : Arrive(t, op, i, n, j, m)
      BY <1>1 DEF Request
    <2> DEFINE r == [op |-> op, pc |-> "call", ino |-> i, name |-> n, to |-> j, toname |-> m,
                     path |-> by_ino[i].path, topath |-> by_ino[j].path,
                     obj |-> None, todo |-> {}, num |-> None]
    <2>2. req[t] = Idle /\ req' = [req EXCEPT ![t] = r] /\ UNCHANGED <<table, known>>
      BY <2>1 DEF Arrive
    <2>3. Requested(r) /\ r.num = None
      BY DEF Requested
    <2> HIDE DEF r
    <2> QED BY <2>2, <2>3, CallStep
  <1>2. ASSUME NEW t \in Threads, Lookup(t) PROVE KnownInv'
    <2>1. req[t].pc = "call" /\ UNCHANGED <<table, known>> /\ (Found(t, backing[Child(t)]) \/ End(t))
      BY <1>2 DEF Lookup, Calling
    <2> QED BY <1>0, <2>1, FoundStep, EndStep
  <1>3. ASSUME NEW t \in Threads, Create(t) \/ Mkdir(t) PROVE KnownInv'
    <2>1. req[t].pc = "call" /\ UNCHANGED <<table, known>> /\ (End(t) \/ \E o : Found(t, o))
      BY <1>3 DEF Create, Mkdir, Make, Calling
    <2> QED BY <1>0, <2>1, FoundStep, EndStep
  <1>4. ASSUME NEW t \in Threads, Remove(t, "unlink") \/ Remove(t, "rmdir") \/ Open(t) PROVE KnownInv'
    <2>1. req[t].pc = "call" /\ UNCHANGED <<table, known>> /\ End(t)
      BY <1>4 DEF Remove, Open, Calling
    <2> QED BY <1>0, <2>1, EndStep
  <1>5. ASSUME NEW t \in Threads, RenameMove(t) PROVE KnownInv'
    <2>1. /\ req[t].pc = "call" /\ UNCHANGED <<table, known>>
          /\ End(t) \/ req' = [req EXCEPT ![t].pc = "enter"]
      BY <1>5 DEF RenameMove, Calling
    <2>2. CASE End(t)
      BY <1>0, <2>1, <2>2, EndStep
    <2>3. CASE req' = [req EXCEPT ![t].pc = "enter"]
      <3> DEFINE r == [req[t] EXCEPT !.pc = "enter"]
      <3>1. Requested(r) /\ r.num = None
        BY <1>0, <2>1 DEF Requested
      <3>2. req' = [req EXCEPT ![t] = r]
        BY <2>3
      <3> HIDE DEF r
      <3> QED BY <1>0, <2>1, <3>1, <3>2, CallStep
    <2> QED BY <2>1, <2>2, <2>3
  <1>6. ASSUME NEW t \in Threads, Setattr(t) PROVE KnownInv'
    <2>1. /\ req[t].pc = "call" /\ UNCHANGED <<table, known>>
          /\ End(t) \/ req' = [req EXCEPT ![t].obj = backing[req[t].path]]
      BY <1>6 DEF Setattr, Calling
    <2>2. CASE End(t)
      BY <1>0, <2>1, <2>2, EndStep
    <2>3. CASE req' = [req EXCEPT ![t].obj = backing[req[t].path]]
      <3> DEFINE r == [req[t] EXCEPT !.obj = backing[req[t].path]]
      <3>1. Requested(r) /\ r.num = None
        BY <1>0, <2>1 DEF Requested
      <3>2. req' = [req EXCEPT ![t] = r]
        BY <2>3
      <3> HIDE DEF r
      <3> QED BY <1>0, <2>1, <3>1, <3>2, CallStep
    <2> QED BY <2>1, <2>2, <2>3
  <1>7. ASSUME NEW t \in Threads, ReadDir(t) PROVE KnownInv'
    <2> DEFINE r == [req[t] EXCEPT !.pc = "list", !.todo = Children(req[t].path)]
    <2>1. /\ req[t].pc = "call" /\ UNCHANGED <<table, known>>
          /\ End(t) \/ req' = [req EXCEPT ![t] = r]
      BY <1>7 DEF ReadDir, Calling, KnownInv, ReqInv
    <2>2. Requested(r) /\ r.num = None
      BY <1>0, <2>1 DEF Requested
    <2> HIDE DEF r
    <2> QED BY <1>0, <2>1, <2>2, EndStep, CallStep
  <1>8. ASSUME NEW t \in Threads, List(t) PROVE KnownInv'
    <2>1. req[t].pc = "list" /\ UNCHANGED known
      BY <1>8 DEF List
    <2>2. CASE End(t) /\ UNCHANGED table
      BY <1>0, <2>1, <2>2, EndStep
    <2>3. CASE ~(End(t) /\ UNCHANGED table)
      <3>1. PICK n : /\ SetTable(LookupOrInsert(EnterName(req[t].ino, n)))
                     /\ req' = [req EXCEPT ![t].todo = req[t].todo \ {n}]
        BY <1>8, <2>3 DEF List
      <3> DEFINE r == [req[t] EXCEPT !.todo = req[t].todo \ {n}]
      <3>2. Requested(r) /\ r.num = None
        BY <1>0, <2>1 DEF Requested
      <3>3. req' = [req EXCEPT ![t] = r]
        BY <3>1
      <3>4. ReqInv' /\ \A i \in Inos : Replies(i)' = Replies(i)
        <4> HIDE DEF r
        <4> QED BY <1>0, <2>1, <3>2, <3>3, NoReply DEF KnownInv
      <3>5. /\ TableInv'
            /\ \E k : \A i : Count(i)' = IF i = k THEN Count(i) + 1 ELSE Count(i)
        BY <3>1, InsertStep DEF KnownInv
      <3>6. \A i : Count(i)' >= Count(i)
        BY <3>5, CountType DEF KnownInv
      <3> QED BY <2>1, <3>4, <3>5, <3>6, KnownStays
    <2> QED BY <2>2, <2>3
  <1>9. ASSUME NEW t \in Threads, Enter(t) PROVE KnownInv'
    <2>1. req[t].pc = "enter" /\ UNCHANGED known
      BY <1>9 DEF Enter
    <2>2. CASE req[t].ino \notin DOMAIN by_ino
      <3>1. End(t) /\ UNCHANGED table
        BY <1>9, <2>2 DEF Enter
      <3> QED BY <1>0, <2>1, <3>1, EndStep
    <2>3. CASE req[t].ino \in DOMAIN by_ino
      <3> DEFINE p == EnterName(req[t].ino, req[t].name)
      <3>1. /\ SetTable(LookupOrInsert(p))
            /\ req' = [req EXCEPT ![t].pc = "reply", ![t].num = by_path'[p]]
        BY <1>9, <2>3 DEF Enter
      <3>2. PICK k \in Nat : /\ k = by_path'[p] /\ TableInv'
                             /\ \A i : Count(i)' = IF i = k THEN Count(i) + 1 ELSE Count(i)
        BY <3>1, InsertStep DEF KnownInv
      <3> DEFINE r == [req[t] EXCEPT !.pc = "reply", !.num = k]
      <3>3. req' = [req EXCEPT ![t] = r]
        BY <3>1, <3>2 DEF KnownInv, ReqInv
      <3>4. Requested(r) /\ r # Idle /\ r.num = k
        BY <1>0, <2>1 DEF Requested, Idle
      <3> HIDE DEF r
      <3>5. ReqInv'
        BY <3>3, <3>4 DEF KnownInv, ReqInv
      <3>6. \A i \in Inos : Waiting(i)' = IF i = k THEN Waiting(i) \cup {t} ELSE Waiting(i)
        <4>1. req'[t] = r /\ \A u \in Threads \ {t} : req'[u] = req[u]
          BY <3>3 DEF KnownInv, ReqInv
        <4> TAKE i \in Inos
        <4>2. CASE i = k
          BY <3>4, <4>1, <4>2 DEF Waiting
        <4>3. CASE i # k
          <5>1. t \notin Waiting(i) /\ t \notin Waiting(i)'
            BY <1>0, <2>1, <3>4, <4>1, <4>3, NoneAssumption DEF Waiting, Inos, Root
          <5> QED BY <4>1, <4>3, <5>1 DEF Waiting
        <4> QED BY <4>2, <4>3
      <3>7. \A i \in Inos : t \notin Waiting(i)
        BY <1>0, <2>1, NoneAssumption DEF Waiting, Inos, Root
      <3>8. Backed'
        <4> SUFFICES ASSUME NEW i \in Inos \ {Root} PROVE known[i] + Replies(i)' <= Count(i)'
          BY <2>1 DEF Backed
        <4>1. /\ known[i] + Replies(i) <= Count(i) /\ known[i] \in Nat
              /\ Replies(i) \in Nat /\ Count(i) \in Nat
          BY RepliesType, CountType DEF KnownInv, Backed
        <4>2. CASE i = k
          <5>1. PICK w : w = Waiting(i)
            OBVIOUS
          <5>2. IsFiniteSet(w) /\ t \notin w /\ Waiting(i)' = w \cup {t}
            BY <3>6, <3>7, <4>2, <5>1, RepliesType
          <5>3. Cardinality(w \cup {t}) = Cardinality(w) + 1
            BY <5>2, FS_AddElement
          <5>4. Replies(i)' = Replies(i) + 1
            BY <5>1, <5>2, <5>3 DEF Replies
          <5> QED BY <3>2, <4>1, <4>2, <5>4
        <4>3. CASE i # k
          <5>1. Replies(i)' = Replies(i)
            BY <3>6, <4>3 DEF Replies
          <5> QED BY <3>2, <4>1, <4>3, <5>1
        <4> QED BY <4>2, <4>3
      <3> QED BY <2>1, <3>2, <3>5, <3>8 DEF KnownInv
    <2> QED BY <2>2, <2>3
  <1>10. ASSUME NEW t \in Threads, RenameEnter(t) PROVE KnownInv'
    <2>1. /\ req[t].pc = "enter" /\ UNCHANGED known /\ End(t)
          /\ \/ UNCHANGED table
             \/ \E old, new : SetTable(RenamePath(old, new))
      BY <1>10 DEF RenameEnter
    <2>2. TableInv' /\ \A i : Count(i)' = Count(i) /\ Count(i) \in Nat
      BY <2>1, SameTable, RenameStep, CountType DEF KnownInv
    <2>3. ReqInv' /\ \A i \in Inos : Replies(i)' = Replies(i)
      BY <1>0, <2>1, NoReply DEF KnownInv, End, Requested
    <2> QED BY <2>1, <2>2, <2>3, KnownStays
  <1>11. ASSUME NEW t \in Threads, Reply(t) PROVE KnownInv'
    <2>1. PICK k : k = req[t].num
      OBVIOUS
    <2>2. /\ req[t].pc = "reply" /\ known' = [known EXCEPT ![k] = known[k] + 1]
          /\ req' = [req EXCEPT ![t] = Idle] /\ UNCHANGED table
      BY <1>11, <2>1 DEF Reply, End
    <2>3. req[t] # Idle
      BY <2>2 DEF Idle
    <2>8. Requested(Idle)
      BY DEF Requested
    <2>9. known' \in [Inos -> Nat]
      <3>1. CASE k \in Inos
        BY <2>2, <3>1 DEF KnownInv
      <3>2. CASE k \notin Inos
        BY <2>2, <3>2 DEF KnownInv
      <3> QED BY <3>1, <3>2
    <2>4. ReqInv' /\ known' \in [Inos -> Nat]
      BY <2>2, <2>8, <2>9 DEF KnownInv, ReqInv
    <2>5. TableInv' /\ \A i : Count(i)' = Count(i)
      BY <2>2, SameTable DEF KnownInv
    <2>6. \A i \in Inos : Waiting(i)' = IF i = k THEN Waiting(i) \ {t} ELSE Waiting(i)
      BY <2>1, <2>2, <2>3 DEF KnownInv, ReqInv, Waiting
    <2>7. Backed'
      <3> SUFFICES ASSUME NEW i \in Inos \ {Root} PROVE known'[i] + Replies(i)' <= Count(i)'
        BY DEF Backed
      <3>1. /\ known[i] + Replies(i) <= Count(i) /\ known[i] \in Nat
            /\ Replies(i) \in Nat /\ Count(i) \in Nat
        BY RepliesType, CountType DEF KnownInv, Backed
      <3>2. CASE i = k
        <4>1. t \in Waiting(i) /\ Waiting(i)' = Waiting(i) \ {t} /\ known'[i] = known[i] + 1
          BY <2>1, <2>2, <2>3, <2>6, <3>2 DEF Waiting, KnownInv
        <4> HIDE DEF Waiting
        <4>2. Replies(i)' = Replies(i) - 1
          <5>1. PICK w : w = Waiting(i)
            OBVIOUS
          <5>2. IsFiniteSet(w) /\ t \in w /\ Waiting(i)' = w \ {t}
            BY <4>1, <5>1, RepliesType
          <5>3. Cardinality(w \ {t}) = Cardinality(w) - 1
            BY <5>2, FS_RemoveElement
          <5> QED BY <5>1, <5>2, <5>3 DEF Replies
        <4> QED BY <2>5, <3>1, <4>1, <4>2
      <3>3. CASE i # k
        <4>1. Replies(i)' = Replies(i) /\ known'[i] = known[i]
          BY <2>2, <2>6, <3>3 DEF Replies, KnownInv
        <4> QED BY <2>5, <3>1, <4>1
      <3> QED BY <3>2, <3>3
    <2> QED BY <2>4, <2>5, <2>7 DEF KnownInv
  <1>12. ASSUME NEW o \in Objects, Release(o) PROVE KnownInv'
    <2>1. UNCHANGED <<table, req, known>>
      BY <1>12 DEF Release
    <2> QED BY <2>1, Unmoved
  <1>13. ASSUME NEW i \in Inos, Forget(i) PROVE KnownInv'
    <2>1. PICK n \in {1, known[i]} :
            /\ i # Root /\ known[i] > 0 /\ req' = req /\ known' = [known EXCEPT ![i] = known[i] - n]
            /\ IF i \in DOMAIN by_ino THEN SetTable(ForgetNumber(i, n)) ELSE UNCHANGED table
      BY <1>13 DEF Forget
    <2>2. known[i] \in Nat /\ n \in Nat /\ n <= known[i] /\ known[i] - n \in Nat
      BY <2>1 DEF KnownInv
    <2>3. known[i] + Replies(i) <= Count(i) /\ Replies(i) \in Nat /\ Count(i) \in Nat
      BY <2>1, RepliesType, CountType DEF KnownInv, Backed
    <2>4. i \in DOMAIN by_ino
      BY <2>1, <2>2, <2>3 DEF Count
    <2>5. /\ TableInv' /\ \A j : j # i => Count(j)' = Count(j)
          /\ Count(i)' = IF Count(i) > n THEN Count(i) - n ELSE 0
      BY <2>1, <2>2, <2>4, ForgetStep DEF KnownInv
    <2>6. ReqInv' /\ known' \in [Inos -> Nat] /\ \A j \in Inos : Replies(j)' = Replies(j)
      BY <2>1, <2>2 DEF KnownInv, ReqInv, Replies, Waiting
    <2>7. Backed'
      <3> SUFFICES ASSUME NEW j \in Inos \ {Root} PROVE known'[j] + Replies(j)' <= Count(j)'
        BY DEF Backed
      <3>1. CASE j = i
        <4>1. known'[i] = known[i] - n
          BY <2>1 DEF KnownInv
        <4> QED BY <2>2, <2>3, <2>5, <2>6, <3>1, <4>1
      <3>2. CASE j # i
        <4>1. known'[j] = known[j]
          BY <2>1, <3>2 DEF KnownInv
        <4> QED BY <2>5, <2>6, <3>2, <4>1 DEF KnownInv, Backed
      <3> QED BY <3>1, <3>2
    <2> QED BY <2>5, <2>6, <2>7 DEF KnownInv
  <1>14. CASE UNCHANGED vars
    BY <1>14, Unmoved DEF vars
  <1> QED BY <1>1, <1>2, <1>3, <1>4, <1>5, <1>6, <1>7, <1>8, <1>9, <1>10, <1>11, <1>12, <1>13, <1>14 DEF Next

\* The kernel never has a number that the inode table of the passthrough file
\* system has dropped: neither a rename of a directory, nor a lookup that is
\* still on its way when the number is forgotten, makes the count too low.
THEOREM KernelNumbersKnown == Spec => []KernelKnown
  <1>1. KnownInv => KernelKnown
    <2> SUFFICES ASSUME KnownInv, NEW i \in Inos \ {Root}, known[i] + Replies(i) > 0
                 PROVE  i \in DOMAIN by_ino /\ by_ino[i].count >= known[i] + Replies(i)
      BY DEF KernelKnown, Replies, Waiting
    <2>1. known[i] + Replies(i) <= Count(i) /\ known[i] + Replies(i) \in Nat
      BY RepliesType DEF KnownInv, Backed
    <2> QED BY <2>1 DEF Count, KnownInv, TableInv
  <1> QED BY KnownInit, KnownStep, <1>1, PTL DEF Spec

-----------------------------------------------------------------------------
(* What the numbers stand for                                               *)

\* Renames of files onto a name no number has; no attributes of removed files.
Plain == load.renames = "fresh" /\ ~load.removed

\* What is in a directory is in the tree, and nothing is there twice.
TreeInv ==
    /\ \A p \in DOMAIN backing :
          /\ p \in Paths /\ p # <<>>
          /\ \A k \in 0 .. Len(p) - 1 : IsDir(SubSeq(p, 1, k))
    /\ \A p, q \in DOMAIN backing : backing[p] = backing[q] => p = q
    /\ ~InTree(None)
    /\ \A o \in dirs : InTree(o)

\* The converse of TableInv: no two numbers have one path.
PathInv ==
    /\ Root \in DOMAIN by_ino /\ by_ino[Root].path = <<>>
    /\ \A i \in DOMAIN by_ino :
          /\ by_ino[i].path \in Paths
          /\ by_ino[i].path \in DOMAIN by_path /\ by_path[by_ino[i].path] = i

Enters    == {"lookup", "create", "mkdir"}
InDir(t)  == req[t] # Idle /\ req[t].op \notin ByNumber
Dirs(t)   == {req[t].ino, req[t].to}
Target(t) == Append(req[t].topath, req[t].toname)
Moving(t) == req[t].op = "rename" /\ req[t].pc = "enter"

Fields == {"op", "pc", "ino", "name", "to", "toname", "path", "topath", "obj", "todo", "num"}

\* What a request resolved when it arrived is still so, but for an open.
Resolved(t) ==
    /\ DOMAIN req[t] = Fields
    /\ req[t].op \in ByNumber \cup Exclusive \cup {"lookup", "readdir"}
    /\ Dirs(t) \subseteq DOMAIN by_ino \cap Inos
    /\ req[t].op \in ByNumber => req[t].to = req[t].ino
    /\ req[t].op # "open" => req[t].path = by_ino[req[t].ino].path
    /\ InDir(t) =>
          /\ req[t].topath = by_ino[req[t].to].path
          /\ IsDir(req[t].path) /\ IsDir(req[t].topath)
          /\ Len(req[t].path) < Depth /\ Len(req[t].topath) < Depth
          /\ req[t].op # "readdir" => req[t].name \in Names /\ req[t].toname \in Names
    /\ req[t].pc \in {"enter", "reply"} => req[t].op \in Enters \cup {"rename"}
    /\ req[t].pc = "list" => req[t].op = "readdir"
    /\ req[t].pc = "reply" => req[t].op \in Enters

ReportInv(t) ==
    req[t].op \in Enters =>
        /\ req[t].pc = "call" => req[t].obj = None
        /\ req[t].pc \in {"enter", "reply"} => Child(t) \in DOMAIN backing /\ backing[Child(t)] = req[t].obj
        /\ req[t].pc = "reply" => Child(t) \in DOMAIN by_path /\ by_path[Child(t)] = req[t].num

RenameInv(t) ==
    req[t].op = "rename" =>
        /\ Target(t) \notin DOMAIN by_path
        /\ ~IsDir(Child(t))
        /\ req[t].pc = "enter" => /\ Child(t) \notin DOMAIN backing
                                  /\ Target(t) \in DOMAIN backing /\ ~IsDir(Target(t))

ListInv(t) == req[t].op = "readdir" => req[t].todo \subseteq Names

SetattrInv(t) ==
    req[t].op = "setattr" =>
        /\ req[t].ino # Root
        /\ req[t].path \in DOMAIN backing /\ backing[req[t].path] = named[req[t].ino]
        /\ req[t].obj \in {None, named[req[t].ino]}

\* What the kernel's locks keep apart.
Apart(t, u) ==
    /\ InDir(t) /\ InDir(u) /\ req[t].op \in Exclusive => Dirs(t) \cap Dirs(u) = {}
    /\ req[t].op = "setattr" /\ req[u] # Idle /\ Unnames(req[u].op) => Child(u) # req[t].path
    /\ InDir(t) /\ req[u].op = "rmdir" => Child(u) \notin {req[t].path, req[t].topath}

\* The path of a number leads to its object, or will when a rename is entered.
ServedInv ==
    /\ DOMAIN named = Inos
    /\ \A i \in Inos \ {Root} :
          /\ named[i] # None => known[i] > 0
          /\ InTree(named[i]) =>
                \/ by_ino[i].path \in DOMAIN backing /\ backing[by_ino[i].path] = named[i]
                \/ \E t \in Threads : /\ Moving(t) /\ Child(t) = by_ino[i].path
                                      /\ backing[Target(t)] = named[i]

Fine(t)  == Resolved(t) /\ ReportInv(t) /\ RenameInv(t) /\ ListInv(t) /\ SetattrInv(t)
WorkInv  == /\ \A t \in Threads : req[t] # Idle => Fine(t)
            /\ \A t, u \in Threads : t # u => Apart(t, u)

ServesInv == KnownInv /\ Plain /\ TreeInv /\ PathInv /\ ServedInv /\ WorkInv

(* Paths                                                                    *)

LEMMA PathIsSeq == \A p \in Paths : p \in Seq(Names) /\ Len(p) \in 0 .. Depth
  BY DepthAssumption DEF Paths

LEMMA SeqIsPath == \A p \in Seq(Names) : Len(p) <= Depth => p \in Paths
  <1> SUFFICES ASSUME NEW p \in Seq(Names), Len(p) <= Depth PROVE p \in Paths
    OBVIOUS
  <1>1. Len(p) \in 0 .. Depth /\ p \in [1 .. Len(p) -> Names]
    BY DepthAssumption
  <1> QED BY <1>1 DEF Paths

\* The name of an entry and its directory make the path, and the path them.
LEMMA ChildPath ==
    ASSUME NEW p \in Paths, NEW n \in Names
    PROVE  /\ Append(p, n) # <<>> /\ Append(p, n) \in Seq(Names) /\ Len(Append(p, n)) = Len(p) + 1
           /\ Len(p) < Depth => Append(p, n) \in Paths
           /\ \A k \in 0 .. Len(p) : SubSeq(Append(p, n), 1, k) = SubSeq(p, 1, k)
           /\ SubSeq(Append(p, n), 1, Len(p)) = p
  <1>1. p \in Seq(Names) /\ Len(p) \in Nat
    BY PathIsSeq, DepthAssumption
  <1>2. Append(p, n) \in Seq(Names) /\ Len(Append(p, n)) = Len(p) + 1 /\ Append(p, n) # <<>>
    BY <1>1
  <1>3. Len(p) < Depth => Append(p, n) \in Paths
    <2> SUFFICES ASSUME Len(p) < Depth PROVE Append(p, n) \in Paths
      OBVIOUS
    <2>1. Len(Append(p, n)) <= Depth
      BY <1>1, <1>2, DepthAssumption
    <2> QED BY <1>2, <2>1, SeqIsPath
  <1>4. ASSUME NEW k \in 0 .. Len(p) PROVE SubSeq(Append(p, n), 1, k) = SubSeq(p, 1, k)
    BY <1>1, <1>2, <1>4
  <1>5. SubSeq(p, 1, Len(p)) = p
    BY <1>1, SubSeqFull
  <1> QED BY <1>1, <1>2, <1>3, <1>4, <1>5

LEMMA OneChild ==
    ASSUME NEW p \in Paths, NEW q \in Paths, NEW n \in Names, NEW m \in Names, Append(p, n) = Append(q, m)
    PROVE  p = q
  <1>1. Len(p) = Len(q)
    BY ChildPath, PathIsSeq
  <1> QED BY <1>1, ChildPath

\* Where everything is in a directory, what is under something is under a directory.
LEMMA UnderDir ==
    ASSUME TreeInv, NEW p \in DOMAIN backing, NEW d \in Paths, IsUnder(p, d), p # d PROVE IsDir(d)
  <1>1. p \in Seq(Names) /\ d \in Seq(Names) /\ Len(p) \in Nat /\ Len(d) \in Nat
    BY PathIsSeq, DepthAssumption DEF TreeInv
  <1>2. Len(p) >= Len(d) /\ SubSeq(p, 1, Len(d)) = d
    BY DEF IsUnder
  <1>3. Len(d) \in 0 .. Len(p) - 1
    BY <1>1, <1>2, SubSeqFull
  <1> QED BY <1>2, <1>3 DEF TreeInv

(* The tree                                                                 *)

LEMMA UnderConcat ==
    ASSUME NEW p \in Seq(Names), NEW x \in Seq(Names)
    PROVE  IsUnder(p \o x, p) /\ Len(p \o x) = Len(p) + Len(x)
  <1>1. p \o x \in Seq(Names) /\ Len(p \o x) = Len(p) + Len(x) /\ Len(p) \in Nat /\ Len(x) \in Nat
    BY ConcatProperties
  <1>2. SubSeq(p \o x, 1, Len(p)) = p
    OBVIOUS
  <1> QED BY <1>1, <1>2 DEF IsUnder

\* A new entry in a directory.
LEMMA MadeEntry ==
    ASSUME TreeInv, NEW d \in Paths, IsDir(d), Len(d) < Depth, NEW n \in Names,
           Append(d, n) \notin DOMAIN backing, NEW o, o # None, ~InTree(o), o \notin dirs,
           backing' = With(backing, Append(d, n), o), dirs' \in {dirs, dirs \cup {o}}
    PROVE  /\ TreeInv'
           /\ DOMAIN backing' = DOMAIN backing \cup {Append(d, n)} /\ backing'[Append(d, n)] = o
           /\ \A p \in DOMAIN backing : backing'[p] = backing[p]
           /\ \A p : p # Append(d, n) => IsDir(p)' = IsDir(p)
  <1> DEFINE c == Append(d, n)
  <1>10. Len(d) \in Nat
    BY PathIsSeq
  <1>0. /\ c \in Paths /\ c # <<>> /\ SubSeq(c, 1, Len(d)) = d /\ Len(c) = Len(d) + 1 /\ Len(d) \in Nat
        /\ \A k \in 0 .. Len(d) : SubSeq(c, 1, k) = SubSeq(d, 1, k)
    BY ChildPath, PathIsSeq, DepthAssumption
  <1>. HIDE DEF c
  <1>1. /\ DOMAIN backing' = DOMAIN backing \cup {c} /\ backing'[c] = o
        /\ \A p \in DOMAIN backing : backing'[p] = backing[p]
    BY DEF With, c
  <1>2. \A p \in DOMAIN backing : backing[p] # o
    BY DEF InTree
  <1>3. \A p : p # c => IsDir(p)' = IsDir(p)
    BY <1>1, <1>2 DEF IsDir
  <1>4. \A p : IsDir(p) => p # c
    BY <1>0 DEF IsDir, c
  <1>5. ASSUME NEW k \in 0 .. Len(c) - 1 PROVE IsDir(SubSeq(c, 1, k))
    <2>1. k \in 0 .. Len(d)
      BY <1>0
    <2>2. CASE k = Len(d)
      BY <1>0, <2>2
    <2>3. CASE k # Len(d)
      <3>1. k \in 0 .. Len(d) - 1
        BY <1>10, <2>1, <2>3
      <3>3. SubSeq(c, 1, k) = SubSeq(d, 1, k)
        BY <1>0, <2>1
      <3>2. d \in DOMAIN backing
        <4>1. d # <<>>
          BY <3>1
        <4> QED BY <4>1 DEF IsDir
      <3> QED BY <3>1, <3>2, <3>3 DEF TreeInv
    <2> QED BY <2>2, <2>3
  <1>6. ASSUME NEW p \in DOMAIN backing'
        PROVE  p \in Paths /\ p # <<>> /\ \A k \in 0 .. Len(p) - 1 : IsDir(SubSeq(p, 1, k))'
    <2> SUFFICES p \in Paths /\ p # <<>> /\ \A k \in 0 .. Len(p) - 1 : IsDir(SubSeq(p, 1, k))
      BY <1>3, <1>4
    <2> QED BY <1>0, <1>1, <1>5 DEF TreeInv
  <1>7. \A p, q \in DOMAIN backing' : backing'[p] = backing'[q] => p = q
    BY <1>1, <1>2 DEF TreeInv
  <1>8. ~InTree(None)'
    BY <1>1 DEF TreeInv, InTree
  <1>9. \A x \in dirs' : InTree(x)'
    BY <1>1 DEF TreeInv, InTree
  <1> QED BY <1>1, <1>3, <1>6, <1>7, <1>8, <1>9 DEF TreeInv, c

\* An entry taken away, a directory when it is empty.
LEMMA RemovedEntry ==
    ASSUME TreeInv, NEW c \in DOMAIN backing, IsDir(c) => Children(c) = {},
           backing' = Without(backing, {c}), dirs' = dirs \ {backing[c]}
    PROVE  /\ TreeInv'
           /\ DOMAIN backing' = DOMAIN backing \ {c}
           /\ \A p \in DOMAIN backing' : backing'[p] = backing[p]
           /\ \A p : p # c => IsDir(p)' = IsDir(p)
  <1>1. /\ DOMAIN backing' = DOMAIN backing \ {c}
        /\ \A p \in DOMAIN backing' : backing'[p] = backing[p]
    BY DEF Without
  <1>2. \A p \in DOMAIN backing : p # c => backing[p] # backing[c]
    BY DEF TreeInv
  <1>3. ASSUME NEW p, p # c PROVE IsDir(p)' = IsDir(p)
    BY <1>1, <1>2, <1>3 DEF IsDir
  <1>4. ASSUME NEW p \in DOMAIN backing, NEW k \in 0 .. Len(p) - 1 PROVE SubSeq(p, 1, k) # c
    <2> SUFFICES ASSUME SubSeq(p, 1, k) = c PROVE FALSE
      OBVIOUS
    <2>0. IsDir(c)
      BY DEF TreeInv
    <2>1. p \in Seq(Names) /\ Len(p) \in Nat /\ c \in Seq(Names) /\ IsDir(c)
      BY <2>0, PathIsSeq DEF TreeInv
    <2>2. Len(c) = k /\ k + 1 \in 1 .. Len(p)
      BY <2>1
    <2>3. p[k + 1] \in Names /\ SubSeq(p, 1, k + 1) = Append(c, p[k + 1])
      BY <2>1, <2>2
    <2>4. SubSeq(p, 1, k + 1) \in DOMAIN backing
      <3>1. CASE k + 1 = Len(p)
        BY <2>1, <3>1, SubSeqFull
      <3>2. CASE k + 1 # Len(p)
        <4>1. k + 1 \in 0 .. Len(p) - 1
          BY <2>2, <3>2
        <4>2. IsDir(SubSeq(p, 1, k + 1))
          BY <4>1 DEF TreeInv
        <4>3. SubSeq(p, 1, k + 1) # <<>>
          BY <2>1, <2>2
        <4> QED BY <4>2, <4>3 DEF IsDir
      <3> QED BY <3>1, <3>2
    <2> QED BY <2>1, <2>3, <2>4 DEF Children
  <1>5. ASSUME NEW p \in DOMAIN backing'
        PROVE  p \in Paths /\ p # <<>> /\ \A k \in 0 .. Len(p) - 1 : IsDir(SubSeq(p, 1, k))'
    <2>1. p \in DOMAIN backing
      BY <1>1
    <2> QED BY <1>3, <1>4, <2>1 DEF TreeInv
  <1>6. \A p, q \in DOMAIN backing' : backing'[p] = backing'[q] => p = q
    BY <1>1 DEF TreeInv
  <1>7. ~InTree(None)'
    BY <1>1 DEF TreeInv, InTree
  <1>8. ASSUME NEW x \in dirs' PROVE InTree(x)'
    <2>1. x \in dirs /\ x # backing[c]
      OBVIOUS
    <2>2. PICK p \in DOMAIN backing : backing[p] = x
      BY <2>1 DEF TreeInv, InTree
    <2>3. p \in DOMAIN backing' /\ backing'[p] = x
      BY <1>1, <2>1, <2>2
    <2> QED BY <2>3 DEF InTree
  <1> QED BY <1>8, <1>1, <1>3, <1>5, <1>6, <1>7 DEF TreeInv

\* A file that gets another name takes nothing along.
LEMMA MovedEntry ==
    ASSUME TreeInv, NEW old \in DOMAIN backing, NEW d \in Paths, IsDir(d), NEW n \in Names, Len(d) < Depth,
           ~IsDir(old), ~IsDir(Append(d, n)), old # Append(d, n),
           backing' = Moved(old, Append(d, n)), UNCHANGED dirs
    PROVE  /\ TreeInv'
           /\ DOMAIN backing' = (DOMAIN backing \ {old}) \cup {Append(d, n)}
           /\ backing'[Append(d, n)] = backing[old]
           /\ \A p \in DOMAIN backing \ {old, Append(d, n)} : backing'[p] = backing[p]
           /\ \A p : IsDir(p)' = IsDir(p)
  <1> DEFINE new == Append(d, n)
             from(p) == old \o SubSeq(p, Len(new) + 1, Len(p))
             kept == {p \in DOMAIN backing : ~IsUnder(p, old) /\ ~IsUnder(p, new)}
             gone == {p \in Paths : IsUnder(p, new) /\ from(p) \in DOMAIN backing}
  <1>0. old \in Paths
    BY DEF TreeInv
  <1>1. /\ new \in Paths /\ new \in Seq(Names) /\ Len(new) = Len(d) + 1 /\ Len(d) \in Nat
        /\ old \in Paths /\ old \in Seq(Names) /\ Len(old) \in Nat /\ new # <<>>
    <2>1. Len(d) \in Nat /\ old \in Seq(Names) /\ Len(old) \in Nat
      BY <1>0, PathIsSeq
    <2>2. new \in Paths /\ new \in Seq(Names) /\ Len(new) = Len(d) + 1 /\ new # <<>>
      BY ChildPath
    <2> QED BY <1>0, <2>1, <2>2
  <1>2. \A p \in Paths : p \in Seq(Names) /\ Len(p) \in Nat
    BY PathIsSeq
  <1>. HIDE DEF new
  <1>3. kept = DOMAIN backing \ {old, new}
    <2>1. \A p \in DOMAIN backing : IsUnder(p, old) => p = old
      BY <1>1, UnderDir
    <2>2. \A p \in DOMAIN backing : IsUnder(p, new) => p = new
      BY <1>1, UnderDir DEF new
    <2>3. IsUnder(old, old) /\ IsUnder(new, new)
      BY <1>1, SubSeqFull DEF IsUnder
    <2> QED BY <2>1, <2>2, <2>3
  <1>4. gone = {new}
    <2>1. ASSUME NEW p \in gone PROVE p = new
      <3>1. p \in Seq(Names) /\ Len(p) \in Nat /\ IsUnder(p, new) /\ from(p) \in DOMAIN backing
        BY <1>2
      <3>2. Len(p) >= Len(new) /\ SubSeq(p, 1, Len(new)) = new
        BY <3>1 DEF IsUnder
      <3> DEFINE x == SubSeq(p, Len(new) + 1, Len(p))
      <3>3. x \in Seq(Names) /\ Len(x) = Len(p) - Len(new)
        BY <1>1, <3>1, <3>2
      <3>4. from(p) = old \o x
        OBVIOUS
      <3>. HIDE DEF x, from
      <3>5. IsUnder(old \o x, old) /\ Len(old \o x) = Len(old) + Len(x)
        BY <1>1, <3>3, UnderConcat
      <3>6. old \o x = old
        BY <1>1, <3>1, <3>4, <3>5, UnderDir
      <3>7. Len(p) = Len(new)
        BY <1>1, <3>1, <3>2, <3>3, <3>5, <3>6
      <3> QED BY <3>1, <3>2, <3>7, SubSeqFull
    <2>2. new \in gone
      <3>1. IsUnder(new, new)
        BY <1>1, SubSeqFull DEF IsUnder
      <3>2. SubSeq(new, Len(new) + 1, Len(new)) = <<>>
        BY <1>1, SubSeqEmpty
      <3>3. from(new) = old
        BY <1>1, <3>2, ConcatEmptySeq
      <3>. HIDE DEF from
      <3> QED BY <1>1, <3>1, <3>3
    <2>. HIDE DEF gone
    <2> QED BY <2>1, <2>2
  <1>5. from(new) = old
    <2>1. SubSeq(new, Len(new) + 1, Len(new)) = <<>>
      BY <1>1, SubSeqEmpty
    <2> QED BY <1>1, <2>1, ConcatEmptySeq
  <1>6. backing' = [p \in kept \cup gone |-> IF p \in gone THEN backing[from(p)] ELSE backing[p]]
    BY DEF Moved, new
  <1>. HIDE DEF kept, gone, from
  <1>7. /\ DOMAIN backing' = (DOMAIN backing \ {old}) \cup {new}
        /\ backing'[new] = backing[old]
        /\ \A p \in DOMAIN backing \ {old, new} : backing'[p] = backing[p]
    BY <1>3, <1>4, <1>5, <1>6
  <1>8. \A p \in DOMAIN backing : p # old => backing[p] # backing[old]
    BY DEF TreeInv
  <1>9. backing[old] \notin dirs /\ (new \in DOMAIN backing => backing[new] \notin dirs)
    BY DEF IsDir, new
  <1>10. \A p : IsDir(p)' = IsDir(p)
    BY <1>1, <1>7, <1>9 DEF IsDir
  <1>11. ASSUME NEW p \in DOMAIN backing'
         PROVE  p \in Paths /\ p # <<>> /\ \A k \in 0 .. Len(p) - 1 : IsDir(SubSeq(p, 1, k))
    <2>1. CASE p \in DOMAIN backing
      BY <2>1 DEF TreeInv
    <2>2. CASE p = new
      <3>1. ASSUME NEW k \in 0 .. Len(d) PROVE IsDir(SubSeq(d, 1, k))
        <4>1. CASE k = Len(d)
          BY <1>1, <1>2, <4>1, SubSeqFull
        <4>2. CASE k # Len(d)
          <5>1. k \in 0 .. Len(d) - 1 /\ d # <<>>
            BY <1>1, <4>2
          <5> QED BY <5>1 DEF IsDir, TreeInv
        <4> QED BY <4>1, <4>2
      <3>2. \A k \in 0 .. Len(d) : SubSeq(new, 1, k) = SubSeq(d, 1, k)
        BY ChildPath DEF new
      <3>3. 0 .. Len(new) - 1 = 0 .. Len(d)
        BY <1>1
      <3>4. \A k \in 0 .. Len(new) - 1 : IsDir(SubSeq(new, 1, k))
        BY <3>1, <3>2, <3>3
      <3> QED BY <1>1, <2>2, <3>4
    <2> QED BY <1>7, <2>1, <2>2
  <1>12. \A p, q \in DOMAIN backing' : backing'[p] = backing'[q] => p = q
    BY <1>7, <1>8 DEF TreeInv
  <1>13. ~InTree(None)'
    BY <1>7 DEF TreeInv, InTree
  <1>14. \A x \in dirs' : InTree(x)'
    BY <1>7, <1>9 DEF TreeInv, InTree
  <1> QED BY <1>7, <1>10, <1>11, <1>12, <1>13, <1>14 DEF TreeInv, new

(* Requests that keep apart                                                 *)

LEMMA WorkingPaths ==
    ASSUME PathInv, NEW t \in Threads, Resolved(t)
    PROVE  /\ req[t].op # "open" => req[t].path \in Paths
           /\ InDir(t) => req[t].path \in Paths /\ req[t].topath \in Paths
  BY DEF PathInv, Resolved, Dirs, InDir, ByNumber

\* While one changes a directory, nothing another enters, or is about to, is in it.
LEMMA Elsewhere ==
    ASSUME PathInv, WorkInv, NEW t \in Threads, NEW u \in Threads, t # u,
           InDir(t), InDir(u), req[t].op \in Exclusive,
           NEW p \in {req[t].path, req[t].topath}, NEW q \in {req[u].path, req[u].topath},
           NEW n \in Names, NEW m \in Names
    PROVE  Append(p, n) # Append(q, m)
  <1>1. Resolved(t) /\ Resolved(u) /\ Dirs(t) \cap Dirs(u) = {}
    BY DEF WorkInv, Fine, Apart, InDir
  <1>2. PICK i \in Dirs(t) : i \in DOMAIN by_ino /\ p = by_ino[i].path
    BY <1>1 DEF Resolved, Dirs, InDir, ByNumber
  <1>3. PICK j \in Dirs(u) : j \in DOMAIN by_ino /\ q = by_ino[j].path
    BY <1>1 DEF Resolved, Dirs, InDir, ByNumber
  <1>4. p # q /\ p \in Paths /\ q \in Paths
    BY <1>1, <1>2, <1>3 DEF PathInv
  <1> QED BY <1>4, OneChild

\* What a request of another thread rests on.
LEMMA FineStays ==
    ASSUME NEW u \in Threads, Fine(u), req[u] # Idle, req'[u] = req[u],
           \A i \in Dirs(u) : /\ i \in DOMAIN by_ino'
                              /\ req[u].op # "open" => by_ino'[i].path = by_ino[i].path,
           InDir(u) => IsDir(req[u].path)' /\ IsDir(req[u].topath)',
           req[u].op \in Enters /\ req[u].pc \in {"enter", "reply"} =>
               Child(u) \in DOMAIN backing' /\ backing'[Child(u)] = backing[Child(u)],
           req[u].op \in Enters /\ req[u].pc = "reply" =>
               Child(u) \in DOMAIN by_path' /\ by_path'[Child(u)] = by_path[Child(u)],
           RenameInv(u)', SetattrInv(u)'
    PROVE  Fine(u)'
  <1>0. Child(u)' = Child(u) /\ InDir(u)' = InDir(u) /\ Dirs(u)' = Dirs(u)
    BY DEF Child, InDir, Dirs
  <1>1. Resolved(u)'
    <2>1. InDir(u) => req[u].op # "open"
      BY DEF InDir, ByNumber
    <2> QED BY <1>0, <2>1 DEF Resolved, Fine, Dirs, IsDir
  <1>2. ReportInv(u)'
    BY <1>0 DEF ReportInv, Fine
  <1>3. ListInv(u)'
    BY DEF ListInv, Fine
  <1> QED BY <1>1, <1>2, <1>3 DEF Fine

\* A request ends or goes on, in the directories it is in.
LEMMA WorkStays ==
    ASSUME WorkInv, NEW t \in Threads, req[t] # Idle,
           \A u \in Threads \ {t} : req'[u] = req[u] /\ (req[u] # Idle => Fine(u)'),
           req'[t] # Idle =>
              /\ Fine(t)'
              /\ \A f \in {"op", "ino", "to", "name", "path", "topath"} : req'[t][f] = req[t][f]
    PROVE  WorkInv'
  <1>1. \A u \in Threads : req'[u] # Idle => Fine(u)'
    OBVIOUS
  <1>2. ASSUME NEW u \in Threads, req'[u] # Idle
        PROVE  /\ req[u] # Idle /\ req'[u].op = req[u].op /\ req'[u].ino = req[u].ino /\ req'[u].to = req[u].to
               /\ req'[u].name = req[u].name /\ req'[u].path = req[u].path /\ req'[u].topath = req[u].topath
    BY <1>2
  <1>3. ASSUME NEW u \in Threads, NEW v \in Threads, u # v PROVE Apart(u, v)'
    <2>1. Apart(u, v)
      BY <1>3 DEF WorkInv
    <2>2. CASE req'[u] = Idle
      BY <2>2 DEF Apart, InDir, Idle
    <2>3. CASE req'[v] = Idle
      BY <2>3 DEF Apart, InDir, Idle
    <2>4. CASE req'[u] # Idle /\ req'[v] # Idle
      <3>1. InDir(u)' = InDir(u) /\ InDir(v)' = InDir(v) /\ Dirs(u)' = Dirs(u) /\ Dirs(v)' = Dirs(v)
            /\ Child(v)' = Child(v)
        BY <1>2, <2>4 DEF InDir, Dirs, Child
      <3> QED BY <1>2, <2>1, <2>4, <3>1 DEF Apart, Unnames
    <2> QED BY <2>2, <2>3, <2>4
  <1> QED BY <1>1, <1>3 DEF WorkInv

\* The kernel's numbers of things in the tree are in the table.
LEMMA NumberHere ==
    ASSUME KnownInv, TreeInv, ServedInv, NEW i \in Inos \ {Root}, InTree(named[i]) PROVE i \in DOMAIN by_ino
  <1>1. named[i] # None
    BY DEF TreeInv
  <1>2. known[i] > 0 /\ known[i] \in Nat /\ known[i] + Replies(i) <= Count(i)
    BY <1>1 DEF ServedInv, KnownInv, Backed
  <1>3. Replies(i) \in Nat
    BY RepliesType
  <1> QED BY <1>2, <1>3 DEF Count

\* What stays in the tree stays where it is, and so do numbers.
LEMMA ServedStays ==
    ASSUME KnownInv, TreeInv, ServedInv, WorkInv, UNCHANGED <<named, known>>,
           \A i \in DOMAIN by_ino : by_ino'[i].path = by_ino[i].path,
           \A o : InTree(o)' /\ (\E i \in Inos : o = named[i]) => InTree(o),
           \A o : \A p \in DOMAIN backing : backing[p] = o /\ InTree(o)' => p \in DOMAIN backing' /\ backing'[p] = o,
           \A u \in Threads : Moving(u) => req'[u] = req[u]
    PROVE  ServedInv'
  <1> SUFFICES ASSUME NEW i \in Inos \ {Root}, InTree(named[i])'
               PROVE  \/ by_ino'[i].path \in DOMAIN backing' /\ backing'[by_ino'[i].path] = named[i]
                      \/ \E t \in Threads : Moving(t)' /\ Child(t)' = by_ino'[i].path /\ backing'[Target(t)'] = named[i]
    BY DEF ServedInv
  <1>0. PICK o : o = named[i] /\ InTree(o)'
    BY DEF InTree
  <1>1. InTree(named[i]) /\ InTree(named[i])' = (\E p \in DOMAIN backing' : backing'[p] = named[i])
    BY <1>0 DEF InTree
  <1>2. i \in DOMAIN by_ino
    BY <1>1, NumberHere
  <1>3. CASE by_ino[i].path \in DOMAIN backing /\ backing[by_ino[i].path] = named[i]
    <2>1. by_ino[i].path \in DOMAIN backing' /\ backing'[by_ino[i].path] = named[i]
      BY <1>0, <1>3
    <2> QED BY <1>2, <2>1
  <1>4. CASE \E t \in Threads : Moving(t) /\ Child(t) = by_ino[i].path /\ backing[Target(t)] = named[i]
    <2>1. PICK t \in Threads : Moving(t) /\ Child(t) = by_ino[i].path /\ backing[Target(t)] = named[i]
      BY <1>4
    <2>2. req'[t] = req[t] /\ Target(t) \in DOMAIN backing
      BY <2>1 DEF WorkInv, Fine, RenameInv, Moving, Idle
    <2>3. Moving(t)' /\ Child(t)' = Child(t) /\ Target(t)' = Target(t)
      BY <2>1, <2>2 DEF Moving, Child, Target
    <2>4. Target(t) \in DOMAIN backing' /\ backing'[Target(t)] = named[i]
      BY <1>0, <2>1, <2>2
    <2> QED BY <1>2, <2>1, <2>3, <2>4
  <1> QED BY <1>1, <1>3, <1>4 DEF ServedInv

LEMMA SameTree == ASSUME TreeInv, UNCHANGED tree PROVE TreeInv' /\ \A p : IsDir(p)' = IsDir(p) /\ InTree(p)' = InTree(p)
  <1>1. \A p : IsDir(p)' = IsDir(p) /\ InTree(p)' = InTree(p)
    BY DEF tree, IsDir, InTree
  <1>2. TreeInv'
    BY DEF tree, IsDir, InTree, TreeInv
  <1> QED BY <1>1, <1>2

\* What is left to show when neither the tree, the table nor the kernel changes:
\* a request arrives, goes on, or ends before a rename has moved anything.
LEMMA OthersFine ==
    ASSUME WorkInv, TreeInv, UNCHANGED <<tree, table, named>>, NEW u \in Threads, req[u] # Idle, req'[u] = req[u]
    PROVE  Fine(u)'
  <1>1. Fine(u) /\ \A p : IsDir(p)' = IsDir(p)
    BY SameTree DEF WorkInv
  <1>2. backing' = backing /\ by_ino' = by_ino /\ by_path' = by_path /\ named' = named
    BY DEF tree, table
  <1>3. Child(u)' = Child(u) /\ Target(u)' = Target(u)
    BY DEF Child, Target
  <1>4. RenameInv(u)'
    <2>1. IsDir(Child(u))' = IsDir(Child(u)) /\ IsDir(Target(u))' = IsDir(Target(u))
      BY <1>2, <1>3 DEF tree, IsDir
    <2> QED BY <1>1, <1>2, <1>3, <2>1 DEF Fine, RenameInv
  <1>5. SetattrInv(u)'
    BY <1>1, <1>2 DEF Fine, SetattrInv
  <1>6. InDir(u) => IsDir(req[u].path)' /\ IsDir(req[u].topath)'
    BY <1>1, <1>2 DEF Fine, Resolved, tree, IsDir
  <1>7. \A i \in Dirs(u) : i \in DOMAIN by_ino'
    BY <1>1, <1>2 DEF Fine, Resolved
  <1>8. req[u].op \in Enters /\ req[u].pc \in {"enter", "reply"} => Child(u) \in DOMAIN backing'
    BY <1>1, <1>2 DEF Fine, ReportInv
  <1>9. req[u].op \in Enters /\ req[u].pc = "reply" => Child(u) \in DOMAIN by_path'
    BY <1>1, <1>2 DEF Fine, ReportInv
  <1> QED BY <1>1, <1>2, <1>4, <1>5, <1>6, <1>7, <1>8, <1>9, FineStays

LEMMA ServedSame ==
    ASSUME ServesInv, UNCHANGED <<tree, table, known, named>>, \A u \in Threads : Moving(u) => req'[u] = req[u]
    PROVE  TreeInv' /\ PathInv' /\ ServedInv'
  <1>1. backing' = backing /\ by_ino' = by_ino /\ by_path' = by_path
    BY DEF tree, table
  <1>2. TreeInv' /\ PathInv'
    BY <1>1, SameTree DEF ServesInv, PathInv
  <1>3. \A o : InTree(o)' => InTree(o)
    BY <1>1 DEF InTree
  <1>4. ServedInv'
    BY <1>1, <1>3, ServedStays DEF ServesInv
  <1> QED BY <1>2, <1>4

LEMMA RequestOnly ==
    ASSUME ServesInv, KnownInv', NEW t \in Threads, req[t] # Idle, ~Moving(t),
           \A u \in Threads \ {t} : req'[u] = req[u],
           UNCHANGED <<load, tree, table, known, named>>,
           req'[t] # Idle =>
              /\ Fine(t)'
              /\ \A f \in {"op", "ino", "to", "name", "path", "topath"} : req'[t][f] = req[t][f]
    PROVE  ServesInv'
  <1>1. TreeInv' /\ PathInv' /\ ServedInv'
    BY ServedSame
  <1>2. \A u \in Threads \ {t} : req[u] # Idle => Fine(u)'
    BY OthersFine DEF ServesInv
  <1>3. WorkInv'
    BY <1>2, WorkStays DEF ServesInv
  <1> QED BY <1>1, <1>3 DEF ServesInv, Plain

LEMMA RequestEnds ==
    ASSUME ServesInv, KnownInv', NEW t \in Threads, req[t] # Idle, ~Moving(t), End(t),
           UNCHANGED <<load, tree, table, known, named>>
    PROVE  ServesInv'
  <1>1. req'[t] = Idle /\ \A u \in Threads \ {t} : req'[u] = req[u]
    BY DEF End, ServesInv, KnownInv, ReqInv
  <1> QED BY <1>1, RequestOnly

\* A request goes on: its stage, object, names to do and number may change.
Continues(t, pc, obj, todo, num) ==
    req' = [req EXCEPT ![t] = [req[t] EXCEPT !.pc = pc, !.obj = obj, !.todo = todo, !.num = num]]

LEMMA GoesOn ==
    ASSUME ServesInv, NEW t \in Threads, req[t] # Idle,
           NEW pc, NEW obj, NEW todo, NEW num,
           Continues(t, pc, obj, todo, num)
    PROVE  /\ \A u \in Threads \ {t} : req'[u] = req[u]
           /\ DOMAIN req'[t] = Fields /\ req'[t] # Idle
           /\ req'[t].pc = pc /\ req'[t].obj = obj /\ req'[t].todo = todo /\ req'[t].num = num
           /\ \A f \in {"op", "ino", "to", "name", "toname", "path", "topath"} : req'[t][f] = req[t][f]
           /\ Child(t)' = Child(t) /\ Target(t)' = Target(t) /\ InDir(t)' = InDir(t) /\ Dirs(t)' = Dirs(t)
  <1>1. DOMAIN req = Threads /\ DOMAIN req[t] = Fields
    BY DEF ServesInv, KnownInv, ReqInv, WorkInv, Fine, Resolved
  <1>2. /\ \A u \in Threads \ {t} : req'[u] = req[u]
        /\ req'[t] = [req[t] EXCEPT !.pc = pc, !.obj = obj, !.todo = todo, !.num = num]
    BY <1>1 DEF Continues
  <1>3. /\ DOMAIN req'[t] = Fields
        /\ req'[t].pc = pc /\ req'[t].obj = obj /\ req'[t].todo = todo /\ req'[t].num = num
        /\ req'[t].op = req[t].op /\ req'[t].ino = req[t].ino /\ req'[t].to = req[t].to
        /\ req'[t].name = req[t].name /\ req'[t].toname = req[t].toname
        /\ req'[t].path = req[t].path /\ req'[t].topath = req[t].topath
    BY <1>1, <1>2 DEF Fields
  <1>4. req'[t] # Idle
    <2>1. DOMAIN Idle = {"op", "pc"}
      BY DEF Idle
    <2> QED BY <1>3, <2>1 DEF Fields
  <1>5. Child(t)' = Child(t) /\ Target(t)' = Target(t) /\ InDir(t)' = InDir(t) /\ Dirs(t)' = Dirs(t)
    BY <1>3, <1>4 DEF Child, Target, InDir, Dirs
  <1> QED BY <1>2, <1>3, <1>4, <1>5

\* Where a request goes on, what it resolved still is so.
LEMMA ResolvedGoesOn ==
    ASSUME ServesInv, NEW t \in Threads, req[t] # Idle,
           NEW pc, NEW obj, NEW todo, NEW num,
           Continues(t, pc, obj, todo, num),
           \A i \in Dirs(t) : i \in DOMAIN by_ino' /\ by_ino'[i].path = by_ino[i].path,
           \A p \in {req[t].path, req[t].topath} : InDir(t) /\ IsDir(p) => IsDir(p)',
           pc \in {"enter", "reply"} => req[t].op \in Enters \cup {"rename"},
           pc = "list" => req[t].op = "readdir", pc = "reply" => req[t].op \in Enters
    PROVE  Resolved(t)'
  <1>1. Resolved(t)
    BY DEF ServesInv, WorkInv, Fine
  <1>2. /\ DOMAIN req'[t] = Fields /\ req'[t].pc = pc
        /\ Dirs(t)' = Dirs(t) /\ InDir(t)' = InDir(t)
    BY GoesOn
  <1>3. /\ req'[t].op = req[t].op /\ req'[t].ino = req[t].ino /\ req'[t].to = req[t].to
        /\ req'[t].name = req[t].name /\ req'[t].toname = req[t].toname
        /\ req'[t].path = req[t].path /\ req'[t].topath = req[t].topath
    BY GoesOn
  <1>4. req[t].ino \in Dirs(t) /\ req[t].to \in Dirs(t)
    BY DEF Dirs
  <1>5. InDir(t) => /\ IsDir(req[t].path) /\ IsDir(req[t].topath)
                    /\ by_ino'[req[t].ino].path = req[t].path /\ by_ino'[req[t].to].path = req[t].topath
    BY <1>1, <1>4 DEF Resolved, InDir, ByNumber
  <1>6. InDir(t) => IsDir(req[t].path)' /\ IsDir(req[t].topath)'
    BY <1>3, <1>5 DEF IsDir
  <1>7. Dirs(t) \subseteq DOMAIN by_ino' \cap Inos
    BY <1>1 DEF Resolved
  <1> QED BY <1>1, <1>2, <1>3, <1>4, <1>5, <1>6, <1>7 DEF Resolved

LEMMA LookupServes == ASSUME ServesInv, KnownInv', NEW t \in Threads, Lookup(t) PROVE ServesInv'
  <1>1. /\ req[t] # Idle /\ req[t].op = "lookup" /\ req[t].pc = "call" /\ ~Moving(t)
        /\ UNCHANGED <<load, tree, table, known, named>>
    BY DEF Lookup, Calling, Idle, Moving
  <1>2. CASE Child(t) \notin DOMAIN backing
    BY <1>1, <1>2, RequestEnds DEF Lookup
  <1>3. CASE Child(t) \in DOMAIN backing
    <2> DEFINE o == backing[Child(t)]
    <2>1. Continues(t, "enter", o, req[t].todo, req[t].num)
      <3>1. req' = [req EXCEPT ![t].pc = "enter", ![t].obj = o]
        BY <1>3 DEF Lookup, Found
      <3>2. DOMAIN req = Threads /\ DOMAIN req[t] = Fields
        BY <1>1 DEF ServesInv, KnownInv, ReqInv, WorkInv, Fine, Resolved
      <3> QED BY <3>1, <3>2 DEF Fields, Continues
    <2>2. backing' = backing /\ by_ino' = by_ino /\ dirs' = dirs
      BY <1>1 DEF tree, table
    <2>3. /\ \A u \in Threads \ {t} : req'[u] = req[u]
          /\ req'[t] # Idle /\ req'[t].pc = "enter" /\ req'[t].obj = o /\ Child(t)' = Child(t)
          /\ \A f \in {"op", "ino", "to", "name", "toname", "path", "topath"} : req'[t][f] = req[t][f]
      BY <1>1, <2>1, GoesOn
    <2>. HIDE DEF o
    <2>4. Resolved(t)'
      <3>1. Dirs(t) \subseteq DOMAIN by_ino
        BY <1>1 DEF ServesInv, WorkInv, Fine, Resolved
      <3> QED BY <1>1, <2>1, <2>2, <3>1, ResolvedGoesOn DEF Enters, IsDir
    <2>5. req'[t].op = "lookup"
      BY <1>1, <2>3
    <2>6. ReportInv(t)'
      BY <1>3, <2>2, <2>3, <2>5 DEF ReportInv, o
    <2>7. Fine(t)'
      BY <2>4, <2>5, <2>6 DEF Fine, RenameInv, ListInv, SetattrInv
    <2> QED BY <1>1, <2>3, <2>7, RequestOnly
  <1> QED BY <1>2, <1>3

LEMMA OpenServes == ASSUME ServesInv, KnownInv', NEW t \in Threads, Open(t) PROVE ServesInv'
  <1>1. /\ req[t] # Idle /\ ~Moving(t) /\ End(t)
        /\ UNCHANGED <<load, tree, table, known, named>>
    BY DEF Open, Calling, Idle, Moving
  <1> QED BY <1>1, RequestEnds

LEMMA SetattrServes == ASSUME ServesInv, KnownInv', NEW t \in Threads, Setattr(t) PROVE ServesInv'
  <1>1. /\ req[t] # Idle /\ req[t].op = "setattr" /\ req[t].pc = "call" /\ ~Moving(t)
        /\ UNCHANGED <<load, tree, table, known, named>>
    BY DEF Setattr, Calling, Idle, Moving
  <1>2. CASE End(t)
    BY <1>1, <1>2, RequestEnds
  <1>3. CASE ~End(t)
    <2> DEFINE o == backing[req[t].path]
    <2>1. Continues(t, "call", o, req[t].todo, req[t].num)
      <3>1. req' = [req EXCEPT ![t].obj = o]
        BY <1>3 DEF Setattr
      <3>2. DOMAIN req = Threads /\ DOMAIN req[t] = Fields
        BY <1>1 DEF ServesInv, KnownInv, ReqInv, WorkInv, Fine, Resolved
      <3>3. [req[t] EXCEPT !.obj = o]
              = [req[t] EXCEPT !.pc = "call", !.obj = o, !.todo = req[t].todo, !.num = req[t].num]
        BY <1>1, <3>2 DEF Fields
      <3> QED BY <3>1, <3>2, <3>3 DEF Continues
    <2>2. backing' = backing /\ by_ino' = by_ino /\ dirs' = dirs
      BY <1>1 DEF tree, table
    <2>3. /\ \A u \in Threads \ {t} : req'[u] = req[u]
          /\ req'[t] # Idle /\ req'[t].pc = "call" /\ req'[t].obj = o
          /\ \A f \in {"op", "ino", "to", "name", "toname", "path", "topath"} : req'[t][f] = req[t][f]
      BY <1>1, <2>1, GoesOn
    <2>. HIDE DEF o
    <2>4. Resolved(t)'
      <3>1. Dirs(t) \subseteq DOMAIN by_ino
        BY <1>1 DEF ServesInv, WorkInv, Fine, Resolved
      <3> QED BY <1>1, <2>1, <2>2, <3>1, ResolvedGoesOn DEF IsDir
    <2>5. req'[t].op = "setattr" /\ req'[t].ino = req[t].ino /\ req'[t].path = req[t].path
      BY <1>1, <2>3
    <2>6. SetattrInv(t)
      BY <1>1 DEF ServesInv, WorkInv, Fine
    <2>7. SetattrInv(t)'
      BY <1>1, <2>2, <2>3, <2>5, <2>6 DEF SetattrInv, o
    <2>8. Fine(t)'
      BY <2>4, <2>5, <2>7 DEF Fine, RenameInv, ListInv, ReportInv, Enters
    <2> QED BY <1>1, <2>3, <2>8, RequestOnly
  <1> QED BY <1>2, <1>3

LEMMA ReadDirServes == ASSUME ServesInv, KnownInv', NEW t \in Threads, ReadDir(t) PROVE ServesInv'
  <1>1. /\ req[t] # Idle /\ req[t].op = "readdir" /\ req[t].pc = "call" /\ ~Moving(t)
        /\ UNCHANGED <<load, tree, table, known, named>>
    BY DEF ReadDir, Calling, Idle, Moving
  <1>2. CASE End(t)
    BY <1>1, <1>2, RequestEnds
  <1>3. CASE ~End(t)
    <2> DEFINE ns == Children(req[t].path)
    <2>1. Continues(t, "list", req[t].obj, ns, req[t].num)
      <3>1. req' = [req EXCEPT ![t].pc = "list", ![t].todo = ns]
        BY <1>3 DEF ReadDir
      <3>2. DOMAIN req = Threads /\ DOMAIN req[t] = Fields
        BY <1>1 DEF ServesInv, KnownInv, ReqInv, WorkInv, Fine, Resolved
      <3> QED BY <3>1, <3>2 DEF Fields, Continues
    <2>2. backing' = backing /\ by_ino' = by_ino /\ dirs' = dirs
      BY <1>1 DEF tree, table
    <2>3. /\ \A u \in Threads \ {t} : req'[u] = req[u]
          /\ req'[t] # Idle /\ req'[t].pc = "list" /\ req'[t].todo = ns
          /\ \A f \in {"op", "ino", "to", "name", "toname", "path", "topath"} : req'[t][f] = req[t][f]
      BY <1>1, <2>1, GoesOn
    <2>4. ns \subseteq Names
      BY DEF Children
    <2>. HIDE DEF ns
    <2>5. Resolved(t)'
      <3>1. Dirs(t) \subseteq DOMAIN by_ino
        BY <1>1 DEF ServesInv, WorkInv, Fine, Resolved
      <3> QED BY <1>1, <2>1, <2>2, <3>1, ResolvedGoesOn DEF IsDir
    <2>6. req'[t].op = "readdir"
      BY <1>1, <2>3
    <2>7. Fine(t)'
      BY <2>3, <2>4, <2>5, <2>6 DEF Fine, RenameInv, ListInv, SetattrInv, ReportInv, Enters
    <2> QED BY <1>1, <2>3, <2>7, RequestOnly
  <1> QED BY <1>2, <1>3

\* A request of another thread, while one changes entries of its directories.
LEMMA TreeOthers ==
    ASSUME ServesInv, NEW t \in Threads, NEW u \in Threads, t # u, req[u] # Idle, req'[u] = req[u],
           InDir(t), req[t].op \in Exclusive, UNCHANGED <<table, named>>,
           NEW C, \A c \in C : \E p \in {req[t].path, req[t].topath}, n \in Names : c = Append(p, n),
           \A p : p \notin C => /\ p \in DOMAIN backing' <=> p \in DOMAIN backing
                                /\ p \in DOMAIN backing => backing'[p] = backing[p]
                                /\ IsDir(p)' = IsDir(p),
           InDir(u) => req[u].path \notin C /\ req[u].topath \notin C,
           req[u].op = "setattr" => req[u].path \notin C
    PROVE  Fine(u)'
  <1>1. Fine(u) /\ by_ino' = by_ino /\ by_path' = by_path /\ named' = named
    BY DEF ServesInv, WorkInv, table
  <1>2. Child(u)' = Child(u) /\ Target(u)' = Target(u)
    BY DEF Child, Target
  <1>3. ASSUME InDir(u), req[u].op # "readdir" PROVE Child(u) \notin C /\ Target(u) \notin C
    <2>1. req[u].name \in Names /\ req[u].toname \in Names
      BY <1>1, <1>3 DEF Fine, Resolved
    <2>2. PathInv /\ WorkInv
      BY DEF ServesInv
    <2>3. \A p \in {req[t].path, req[t].topath}, q \in {req[u].path, req[u].topath}, n, m \in Names :
              Append(p, n) # Append(q, m)
      BY <1>3, <2>2, Elsewhere
    <2>4. ASSUME NEW q \in {req[u].path, req[u].topath}, NEW m \in Names, Append(q, m) \in C
          PROVE  FALSE
      <3>1. PICK p \in {req[t].path, req[t].topath}, n \in Names : Append(q, m) = Append(p, n)
        BY <2>4
      <3> QED BY <2>3, <3>1
    <2> QED BY <2>1, <2>4 DEF Child, Target
  <1>4. req[u].op \in Enters \cup {"rename"} => InDir(u) /\ req[u].op # "readdir"
    BY DEF InDir, Enters, ByNumber
  <1>5. InDir(u) => IsDir(req[u].path)' /\ IsDir(req[u].topath)'
    <2>1. InDir(u) => IsDir(req[u].path) /\ IsDir(req[u].topath)
      BY <1>1 DEF Fine, Resolved
    <2>2. ASSUME NEW p, NEW q, p = req[u].path, q = req[u].topath, InDir(u) PROVE IsDir(p)' /\ IsDir(q)'
      BY <2>1, <2>2
    <2> QED BY <2>2 DEF IsDir
  <1>6. RenameInv(u)'
    <2> SUFFICES ASSUME req[u].op = "rename" PROVE RenameInv(u)'
      BY DEF RenameInv
    <2>1. PICK c, d : c = Child(u) /\ d = Target(u)
      OBVIOUS
    <2>2. c \notin C /\ d \notin C /\ RenameInv(u)
      BY <1>1, <1>3, <1>4, <2>1 DEF Fine
    <2>3. IsDir(c)' = IsDir(c) /\ IsDir(d)' = IsDir(d)
      BY <2>2
    <2>4. IsDir(Child(u))' = IsDir(c)' /\ IsDir(Target(u))' = IsDir(d)'
      BY <1>2, <2>1 DEF IsDir
    <2> QED BY <1>1, <1>2, <2>1, <2>2, <2>3, <2>4 DEF RenameInv
  <1>7. SetattrInv(u)'
    BY <1>1 DEF Fine, SetattrInv
  <1>8. \A i \in Dirs(u) : i \in DOMAIN by_ino'
    BY <1>1 DEF Fine, Resolved
  <1>9. req[u].op \in Enters /\ req[u].pc \in {"enter", "reply"} =>
            Child(u) \in DOMAIN backing' /\ backing'[Child(u)] = backing[Child(u)]
    BY <1>1, <1>3, <1>4 DEF Fine, ReportInv
  <1>10. req[u].op \in Enters /\ req[u].pc = "reply" => Child(u) \in DOMAIN by_path'
    BY <1>1 DEF Fine, ReportInv
  <1> QED BY <1>1, <1>5, <1>6, <1>7, <1>8, <1>9, <1>10, FineStays

\* A directory, or a file set attributes of, is not what a request of another's makes.
LEMMA WorkingIn ==
    ASSUME ServesInv, NEW u \in Threads, req[u] # Idle
    PROVE  /\ InDir(u) => IsDir(req[u].path) /\ IsDir(req[u].topath)
           /\ req[u].op = "setattr" => req[u].path \in DOMAIN backing /\ req[u].path \in DOMAIN by_path
  BY DEF ServesInv, WorkInv, Fine, Resolved, SetattrInv, PathInv, Dirs

LEMMA RemoveServes ==
    ASSUME ServesInv, KnownInv', NEW t \in Threads, NEW op \in {"unlink", "rmdir"}, Remove(t, op) PROVE ServesInv'
  <1>1. /\ req[t] # Idle /\ req[t].op = op /\ InDir(t) /\ ~Moving(t) /\ End(t)
        /\ UNCHANGED <<load, table, known, named>>
    BY DEF Remove, Calling, Idle, InDir, ByNumber, Moving
  <1> DEFINE c == Child(t)
             ok == c \in DOMAIN backing /\ IF op = "unlink" THEN ~IsDir(c) ELSE IsDir(c) /\ Children(c) = {}
  <1>2. CASE ~ok
    <2>1. UNCHANGED tree
      BY <1>2 DEF Remove, tree
    <2> QED BY <1>1, <2>1, RequestEnds
  <1>3. CASE ok
    <2>1. backing' = Without(backing, {c}) /\ dirs' = dirs \ {backing[c]} /\ c \in DOMAIN backing
      BY <1>3 DEF Remove
    <2>2. /\ TreeInv'
          /\ DOMAIN backing' = DOMAIN backing \ {c}
          /\ \A p \in DOMAIN backing' : backing'[p] = backing[p]
          /\ \A p : p # c => IsDir(p)' = IsDir(p)
      BY <1>3, <2>1, RemovedEntry DEF ServesInv
    <2>3. req'[t] = Idle /\ \A u \in Threads \ {t} : req'[u] = req[u]
      BY <1>1 DEF End, ServesInv, KnownInv, ReqInv
    <2>4. ASSUME NEW u \in Threads \ {t}, req[u] # Idle PROVE Fine(u)'
      <3>1. Apart(u, t)
        BY DEF ServesInv, WorkInv
      <3>2. InDir(u) => req[u].path # c /\ req[u].topath # c
        <4>1. CASE op = "unlink"
          BY <1>3, <2>4, <4>1, WorkingIn
        <4>2. CASE op = "rmdir"
          BY <1>1, <3>1, <4>2 DEF Apart
        <4> QED BY <4>1, <4>2
      <3>3. req[u].op = "setattr" => req[u].path # c
        BY <1>1, <3>1 DEF Apart, Unnames
      <3>4. \E p \in {req[t].path, req[t].topath}, n \in Names : c = Append(p, n)
        BY <1>1 DEF ServesInv, WorkInv, Fine, Resolved, Child
      <3>5. \A p : p \notin {c} => /\ p \in DOMAIN backing' <=> p \in DOMAIN backing
                                   /\ p \in DOMAIN backing => backing'[p] = backing[p]
                                   /\ IsDir(p)' = IsDir(p)
        BY <2>2
      <3> HIDE DEF c, ok
      <3>6. \A d \in {c} : \E p \in {req[t].path, req[t].topath}, n \in Names : d = Append(p, n)
        BY <3>4
      <3>7. req[t].op \in Exclusive
        BY <1>1 DEF Exclusive
      <3>8. req'[u] = req[u] /\ UNCHANGED <<table, named>>
        BY <1>1, <2>3
      <3>9. PICK C : C = {c}
        OBVIOUS
      <3>10. /\ \A d \in C : \E p \in {req[t].path, req[t].topath}, n \in Names : d = Append(p, n)
             /\ InDir(u) => req[u].path \notin C /\ req[u].topath \notin C
             /\ req[u].op = "setattr" => req[u].path \notin C
        BY <3>2, <3>3, <3>6, <3>9
      <3>11. \A p : p \notin C => /\ p \in DOMAIN backing' <=> p \in DOMAIN backing
                                  /\ p \in DOMAIN backing => backing'[p] = backing[p]
                                  /\ IsDir(p)' = IsDir(p)
        BY <3>5, <3>9
      <3> QED BY <1>1, <2>4, <3>7, <3>8, <3>10, <3>11, TreeOthers
    <2>5. ServedInv'
      <3>1. \A o : InTree(o)' => InTree(o)
        BY <2>2 DEF InTree
      <3>2. ASSUME NEW o, NEW p \in DOMAIN backing, backing[p] = o, InTree(o)'
            PROVE  p \in DOMAIN backing' /\ backing'[p] = o
        <4>1. PICK q \in DOMAIN backing' : backing'[q] = o
          BY <3>2 DEF InTree
        <4>2. p = q
          BY <2>2, <3>2, <4>1 DEF ServesInv, TreeInv
        <4> QED BY <4>1, <4>2
      <3>3. by_ino' = by_ino
        BY <1>1 DEF table
      <3>4. \A u \in Threads : Moving(u) => req'[u] = req[u]
        BY <1>1, <2>3
      <3> QED BY <1>1, <3>1, <3>2, <3>3, <3>4, ServedStays DEF ServesInv
    <2>6. WorkInv'
      BY <1>1, <2>3, <2>4, WorkStays DEF ServesInv
    <2>7. PathInv'
      BY <1>1 DEF ServesInv, PathInv, table
    <2> QED BY <1>1, <2>2, <2>5, <2>6, <2>7 DEF ServesInv, Plain
  <1> QED BY <1>2, <1>3

LEMMA MakeServes ==
    ASSUME ServesInv, KnownInv', NEW t \in Threads, NEW op \in {"create", "mkdir"}, NEW isDir, Make(t, op, isDir)
    PROVE  ServesInv'
  <1> DEFINE c == Child(t)
  <1>1. /\ req[t] # Idle /\ req[t].op = op /\ req[t].pc = "call" /\ InDir(t) /\ ~Moving(t)
        /\ UNCHANGED <<load, table, known, named>>
    BY DEF Make, Calling, Idle, InDir, ByNumber, Moving
  <1>2. Fine(t) /\ DOMAIN req = Threads /\ DOMAIN req[t] = Fields /\ req[t].name \in Names /\ req[t].path \in Paths
        /\ IsDir(req[t].path) /\ Len(req[t].path) < Depth
    BY <1>1, WorkingPaths DEF ServesInv, WorkInv, Fine, Resolved, KnownInv, ReqInv
  <1>3. \A o : Found(t, o) => Continues(t, "enter", o, req[t].todo, req[t].num)
    BY <1>2 DEF Found, Continues, Fields
  <1>4. ASSUME NEW o, Found(t, o), by_ino' = by_ino, \A p : IsDir(p) => IsDir(p)',
               c \in DOMAIN backing' /\ backing'[c] = o
        PROVE  /\ Fine(t)' /\ req'[t] # Idle
               /\ \A f \in {"op", "ino", "to", "name", "path", "topath"} : req'[t][f] = req[t][f]
               /\ \A u \in Threads \ {t} : req'[u] = req[u]
    <2>1. Continues(t, "enter", o, req[t].todo, req[t].num)
      BY <1>3, <1>4
    <2>2. /\ \A u \in Threads \ {t} : req'[u] = req[u]
          /\ req'[t] # Idle /\ req'[t].pc = "enter" /\ req'[t].obj = o /\ Child(t)' = Child(t)
          /\ \A f \in {"op", "ino", "to", "name", "toname", "path", "topath"} : req'[t][f] = req[t][f]
      BY <1>1, <2>1, GoesOn
    <2>3. Resolved(t)'
      <3>1. Dirs(t) \subseteq DOMAIN by_ino
        BY <1>2 DEF Fine, Resolved
      <3>2. \A i \in Dirs(t) : i \in DOMAIN by_ino' /\ by_ino'[i].path = by_ino[i].path
        BY <1>4, <3>1
      <3> QED BY <1>1, <1>4, <2>1, <3>2, ResolvedGoesOn DEF Enters
    <2>4. req'[t].op = op
      BY <1>1, <2>2
    <2>5. ReportInv(t)'
      BY <1>4, <2>2, <2>4 DEF ReportInv
    <2>6. Fine(t)'
      BY <2>3, <2>4, <2>5 DEF Fine, RenameInv, ListInv, SetattrInv
    <2> QED BY <2>2, <2>6
  <1>5. CASE /\ c \in DOMAIN backing \/ ~IsDir(req[t].path)
             /\ IF op = "create" /\ c \in DOMAIN backing /\ ~IsDir(c) THEN Found(t, backing[c]) ELSE End(t)
             /\ UNCHANGED tree
    <2>1. CASE End(t)
      BY <1>1, <1>5, <2>1, RequestEnds
    <2>2. CASE ~End(t)
      <3>1. c \in DOMAIN backing /\ Found(t, backing[c])
        BY <1>5, <2>2
      <3>2. backing' = backing /\ by_ino' = by_ino /\ \A p : IsDir(p)' = IsDir(p)
        BY <1>1, <1>5, SameTree DEF ServesInv, tree, table
      <3>3. PICK o : o = backing[c]
        OBVIOUS
      <3>4. /\ Fine(t)' /\ req'[t] # Idle
            /\ \A f \in {"op", "ino", "to", "name", "path", "topath"} : req'[t][f] = req[t][f]
            /\ \A u \in Threads \ {t} : req'[u] = req[u]
        BY <1>4, <3>1, <3>2, <3>3
      <3> QED BY <1>1, <1>5, <3>4, RequestOnly
    <2> QED BY <2>1, <2>2
  <1>6. CASE /\ c \notin DOMAIN backing /\ IsDir(req[t].path)
             /\ \E o \in Objects \ Made : /\ backing' = With(backing, c, o)
                                          /\ dirs' = IF isDir THEN dirs \cup {o} ELSE dirs
                                          /\ Found(t, o)
    <2>1. PICK o \in Objects \ Made : /\ backing' = With(backing, c, o)
                                      /\ dirs' \in {dirs, dirs \cup {o}}
                                      /\ Found(t, o)
      BY <1>6
    <2>2. o # None /\ ~InTree(o) /\ o \notin dirs /\ \A i \in Inos : named[i] # o
      <3>1. req[t].obj = None
        BY <1>1, <1>2 DEF Fine, ReportInv, Enters
      <3>2. req[t].obj \in Made
        BY <1>1 DEF Made
      <3>3. \A p \in DOMAIN backing : backing[p] \in Made
        BY DEF Made
      <3>4. dirs \subseteq Made /\ \A i \in Inos : named[i] \in Made
        BY DEF Made
      <3> QED BY <2>1, <3>1, <3>2, <3>3, <3>4 DEF InTree
    <2>3. c = Append(req[t].path, req[t].name)
      BY DEF Child
    <2>. HIDE DEF c
    <2>4. /\ TreeInv'
          /\ DOMAIN backing' = DOMAIN backing \cup {c} /\ backing'[c] = o
          /\ \A p \in DOMAIN backing : backing'[p] = backing[p]
          /\ \A p : p # c => IsDir(p)' = IsDir(p)
      <3> DEFINE d == req[t].path
                 n == req[t].name
      <3>1. /\ d \in Paths /\ IsDir(d) /\ Len(d) < Depth /\ n \in Names /\ TreeInv
            /\ Append(d, n) \notin DOMAIN backing /\ backing' = With(backing, Append(d, n), o)
        BY <1>2, <1>6, <2>1, <2>3 DEF ServesInv
      <3>. HIDE DEF d, n
      <3>2. /\ TreeInv'
            /\ DOMAIN backing' = DOMAIN backing \cup {Append(d, n)} /\ backing'[Append(d, n)] = o
            /\ \A p \in DOMAIN backing : backing'[p] = backing[p]
            /\ \A p : p # Append(d, n) => IsDir(p)' = IsDir(p)
        BY <2>1, <2>2, <3>1, MadeEntry
      <3> QED BY <2>3, <3>2 DEF d, n
    <2>5. ~IsDir(c)
      BY <1>2, <1>6, <2>3, ChildPath DEF IsDir
    <2>6. by_ino' = by_ino
      BY <1>1 DEF table
    <2>7. /\ Fine(t)' /\ req'[t] # Idle
          /\ \A f \in {"op", "ino", "to", "name", "path", "topath"} : req'[t][f] = req[t][f]
          /\ \A u \in Threads \ {t} : req'[u] = req[u]
      BY <1>4, <2>1, <2>4, <2>5, <2>6
    <2>8. ASSUME NEW u \in Threads \ {t}, req[u] # Idle PROVE Fine(u)'
      <3>1. InDir(u) => req[u].path # c /\ req[u].topath # c
        BY <2>5, <2>8, WorkingIn
      <3>2. req[u].op = "setattr" => req[u].path # c
        BY <1>6, <2>8, WorkingIn
      <3>3. \A p : p \notin {c} => /\ p \in DOMAIN backing' <=> p \in DOMAIN backing
                                   /\ p \in DOMAIN backing => backing'[p] = backing[p]
                                   /\ IsDir(p)' = IsDir(p)
        BY <2>4
      <3>4. \A d \in {c} : \E p \in {req[t].path, req[t].topath}, n \in Names : d = Append(p, n)
        BY <1>2, <2>3
      <3>5. req[t].op \in Exclusive
        BY <1>1 DEF Exclusive
      <3>6. req'[u] = req[u] /\ UNCHANGED <<table, named>>
        BY <1>1, <2>7
      <3>7. PICK C : C = {c}
        OBVIOUS
      <3>8. /\ \A d \in C : \E p \in {req[t].path, req[t].topath}, n \in Names : d = Append(p, n)
            /\ InDir(u) => req[u].path \notin C /\ req[u].topath \notin C
            /\ req[u].op = "setattr" => req[u].path \notin C
        BY <3>1, <3>2, <3>4, <3>7
      <3>9. \A p : p \notin C => /\ p \in DOMAIN backing' <=> p \in DOMAIN backing
                                 /\ p \in DOMAIN backing => backing'[p] = backing[p]
                                 /\ IsDir(p)' = IsDir(p)
        BY <3>3, <3>7
      <3> QED BY <1>1, <2>8, <3>5, <3>6, <3>8, <3>9, TreeOthers
    <2>9. ServedInv'
      <3>1. \A x : InTree(x)' /\ x # o => InTree(x)
        BY <2>4 DEF InTree
      <3>2. \A x : \A p \in DOMAIN backing : backing[p] = x /\ InTree(x)' => p \in DOMAIN backing' /\ backing'[p] = x
        BY <2>4
      <3>3. \A u \in Threads : Moving(u) => req'[u] = req[u]
        BY <1>1, <2>7
      <3>4. \A x : InTree(x)' /\ (\E i \in Inos : x = named[i]) => InTree(x)
        BY <2>2, <3>1
      <3> QED BY <1>1, <2>6, <3>2, <3>3, <3>4, ServedStays DEF ServesInv
    <2>10. WorkInv'
      BY <1>1, <2>7, <2>8, WorkStays DEF ServesInv
    <2>11. PathInv'
      BY <1>1 DEF ServesInv, PathInv, table
    <2> QED BY <1>1, <2>4, <2>9, <2>10, <2>11 DEF ServesInv, Plain
  <1> QED BY <1>5, <1>6, <1>1 DEF Make

LEMMA RenameMoveServes == ASSUME ServesInv, KnownInv', NEW t \in Threads, RenameMove(t) PROVE ServesInv'
  <1>1. /\ req[t] # Idle /\ req[t].op = "rename" /\ req[t].pc = "call" /\ InDir(t) /\ ~Moving(t)
        /\ UNCHANGED <<load, dirs, table, known, named>>
    BY DEF RenameMove, Calling, Idle, InDir, ByNumber, Moving
  <1>2. /\ Fine(t) /\ DOMAIN req = Threads /\ DOMAIN req[t] = Fields
        /\ req[t].name \in Names /\ req[t].toname \in Names /\ req[t].path \in Paths /\ req[t].topath \in Paths
        /\ IsDir(req[t].topath) /\ Len(req[t].topath) < Depth
    BY <1>1, WorkingPaths DEF ServesInv, WorkInv, Fine, Resolved, KnownInv, ReqInv
  <1> DEFINE old == Child(t)
             new == Target(t)
  <1>3. CASE UNCHANGED backing /\ End(t)
    <2>1. UNCHANGED tree
      BY <1>1, <1>3 DEF tree
    <2> QED BY <1>1, <1>3, <2>1, RequestEnds
  <1>4. CASE ~(UNCHANGED backing /\ End(t))
    <2>1. /\ old \in DOMAIN backing /\ ~IsUnder(new, old) /\ (new \in DOMAIN backing => IsDir(old) = IsDir(new))
          /\ backing' = Moved(old, new) /\ req' = [req EXCEPT ![t].pc = "enter"]
      BY <1>4 DEF RenameMove, Target
    <2>2. new \notin DOMAIN by_path /\ ~IsDir(old)
      BY <1>1, <1>2 DEF Fine, RenameInv
    <2>3. new = Append(req[t].topath, req[t].toname) /\ old = Append(req[t].path, req[t].name)
      BY DEF Target, Child
    <2>. HIDE DEF new, old
    <2>4. old # new
      <3>1. old \in Seq(Names)
        BY <2>1, PathIsSeq DEF ServesInv, TreeInv
      <3>2. IsUnder(old, old)
        BY <3>1, SubSeqFull DEF IsUnder
      <3> QED BY <2>1, <3>2
    <2>5. ~IsDir(new)
      <3>1. new # <<>>
        BY <1>2, <2>3, ChildPath
      <3> QED BY <2>1, <2>2, <3>1 DEF IsDir
    <2>6. /\ TreeInv'
          /\ DOMAIN backing' = (DOMAIN backing \ {old}) \cup {new}
          /\ backing'[new] = backing[old]
          /\ \A p \in DOMAIN backing \ {old, new} : backing'[p] = backing[p]
          /\ \A p : IsDir(p)' = IsDir(p)
      <3> DEFINE d == req[t].topath
                 n == req[t].toname
      <3>1. /\ d \in Paths /\ IsDir(d) /\ Len(d) < Depth /\ n \in Names /\ TreeInv
            /\ ~IsDir(Append(d, n)) /\ old # Append(d, n) /\ backing' = Moved(old, Append(d, n))
        BY <1>2, <2>1, <2>3, <2>4, <2>5 DEF ServesInv
      <3>. HIDE DEF d, n
      <3>3. dirs' = dirs
        BY <1>1
      <3>2. /\ TreeInv'
            /\ DOMAIN backing' = (DOMAIN backing \ {old}) \cup {Append(d, n)}
            /\ backing'[Append(d, n)] = backing[old]
            /\ \A p \in DOMAIN backing \ {old, Append(d, n)} : backing'[p] = backing[p]
            /\ \A p : IsDir(p)' = IsDir(p)
        BY <2>1, <2>2, <3>1, <3>3, MovedEntry
      <3> QED BY <2>3, <3>2 DEF d, n
    <2>7. Continues(t, "enter", req[t].obj, req[t].todo, req[t].num)
      <3>1. [req[t] EXCEPT !.pc = "enter"]
              = [req[t] EXCEPT !.pc = "enter", !.obj = req[t].obj, !.todo = req[t].todo, !.num = req[t].num]
        BY <1>2 DEF Fields
      <3> QED BY <1>2, <2>1, <3>1 DEF Continues
    <2>8. /\ \A u \in Threads \ {t} : req'[u] = req[u]
          /\ req'[t] # Idle /\ req'[t].pc = "enter" /\ Child(t)' = old /\ Target(t)' = new
          /\ \A f \in {"op", "ino", "to", "name", "toname", "path", "topath"} : req'[t][f] = req[t][f]
      BY <1>1, <2>7, GoesOn DEF old, new
    <2>9. by_ino' = by_ino /\ by_path' = by_path
      BY <1>1 DEF table
    <2>10. req'[t].op = "rename"
      BY <1>1, <2>8
    <2>11. Fine(t)'
      <3>1. Resolved(t)'
        <4>1. Dirs(t) \subseteq DOMAIN by_ino
          BY <1>2 DEF Fine, Resolved
        <4>2. \A i \in Dirs(t) : i \in DOMAIN by_ino' /\ by_ino'[i].path = by_ino[i].path
          BY <2>9, <4>1
        <4>3. \A p \in {req[t].path, req[t].topath} : InDir(t) /\ IsDir(p) => IsDir(p)'
          BY <2>6
        <4> QED BY <1>1, <2>7, <4>2, <4>3, ResolvedGoesOn
      <3>2. ~IsDir(Child(t))' /\ ~IsDir(Target(t))'
        <4>1. PICK p, q : p = old /\ q = new
          OBVIOUS
        <4>2. ~IsDir(p)' /\ ~IsDir(q)'
          BY <2>2, <2>5, <2>6, <4>1
        <4> QED BY <2>8, <4>1, <4>2 DEF IsDir
      <3>3. RenameInv(t)'
        BY <2>2, <2>4, <2>6, <2>8, <2>9, <3>2 DEF RenameInv
      <3> QED BY <2>10, <3>1, <3>3 DEF Fine, ReportInv, Enters, ListInv, SetattrInv
    <2>12. ASSUME NEW u \in Threads \ {t}, req[u] # Idle PROVE Fine(u)'
      <3>1. InDir(u) => req[u].path \notin {old, new} /\ req[u].topath \notin {old, new}
        BY <2>2, <2>5, <2>12, WorkingIn
      <3>2. req[u].op = "setattr" => req[u].path \notin {old, new}
        <4>1. Apart(u, t)
          BY DEF ServesInv, WorkInv
        <4> QED BY <1>1, <2>2, <2>12, <4>1, WorkingIn DEF Apart, Unnames, old
      <3>3. PICK C : C = {old, new}
        OBVIOUS
      <3>4. /\ \A d \in C : \E p \in {req[t].path, req[t].topath}, n \in Names : d = Append(p, n)
            /\ InDir(u) => req[u].path \notin C /\ req[u].topath \notin C
            /\ req[u].op = "setattr" => req[u].path \notin C
        BY <1>2, <2>3, <3>1, <3>2, <3>3
      <3>5. \A p : p \notin C => /\ p \in DOMAIN backing' <=> p \in DOMAIN backing
                                 /\ p \in DOMAIN backing => backing'[p] = backing[p]
                                 /\ IsDir(p)' = IsDir(p)
        BY <2>6, <3>3
      <3>6. req'[u] = req[u] /\ UNCHANGED <<table, named>> /\ req[t].op \in Exclusive
        BY <1>1, <2>8 DEF Exclusive
      <3> QED BY <1>1, <2>12, <3>4, <3>5, <3>6, TreeOthers
    <2>13. ServedInv'
      <3> SUFFICES ASSUME NEW i \in Inos \ {Root}, InTree(named[i])'
                   PROVE  \/ by_ino[i].path \in DOMAIN backing' /\ backing'[by_ino[i].path] = named[i]
                          \/ \E u \in Threads : Moving(u)' /\ Child(u)' = by_ino[i].path /\ backing'[Target(u)'] = named[i]
        BY <1>1, <2>9 DEF ServedInv, ServesInv
      <3>1. InTree(named[i])
        <4>1. PICK p \in DOMAIN backing' : backing'[p] = named[i]
          BY <1>1 DEF InTree
        <4>2. \E q \in DOMAIN backing : backing[q] = named[i]
          BY <2>1, <2>6, <4>1
        <4> QED BY <4>2 DEF InTree
      <3>2. by_ino[i].path \in DOMAIN by_path
        BY <3>1, NumberHere DEF ServesInv, PathInv
      <3>3. CASE by_ino[i].path \in DOMAIN backing /\ backing[by_ino[i].path] = named[i]
        <4>1. by_ino[i].path # new
          BY <2>2, <3>2
        <4>2. CASE by_ino[i].path = old
          BY <2>6, <2>8, <2>10, <3>3, <4>2 DEF Moving
        <4>3. CASE by_ino[i].path # old
          BY <2>6, <3>3, <4>1, <4>3
        <4> QED BY <4>2, <4>3
      <3>4. CASE \E u \in Threads : Moving(u) /\ Child(u) = by_ino[i].path /\ backing[Target(u)] = named[i]
        <4>1. PICK u \in Threads : Moving(u) /\ Child(u) = by_ino[i].path /\ backing[Target(u)] = named[i]
          BY <3>4
        <4>2. req'[u] = req[u] /\ u # t /\ InDir(u) /\ req[u] # Idle
          BY <1>1, <2>8, <4>1 DEF Moving, InDir, Idle, ByNumber
        <4>3. Fine(u) /\ req[u].toname \in Names /\ Target(u) \in DOMAIN backing
          BY <4>1, <4>2 DEF ServesInv, WorkInv, Fine, Resolved, RenameInv, Moving
        <4>4. Target(u) \notin {old, new}
          BY <1>1, <1>2, <2>3, <4>2, <4>3, Elsewhere DEF Target, ServesInv, Exclusive
        <4>5. Moving(u)' /\ Child(u)' = Child(u) /\ Target(u)' = Target(u)
          BY <4>1, <4>2 DEF Moving, Child, Target
        <4> QED BY <2>6, <4>1, <4>3, <4>4, <4>5
      <3> QED BY <3>1, <3>3, <3>4 DEF ServedInv, ServesInv
    <2>14. WorkInv'
      BY <1>1, <2>8, <2>11, <2>12, WorkStays DEF ServesInv
    <2>15. PathInv'
      BY <2>9 DEF ServesInv, PathInv
    <2> QED BY <1>1, <2>6, <2>13, <2>14, <2>15 DEF ServesInv, Plain
  <1> QED BY <1>3, <1>4

LEMMA InsertPaths ==
    ASSUME TableInv, PathInv, NEW p \in Paths, SetTable(LookupOrInsert(p))
    PROVE  /\ PathInv' /\ p \in DOMAIN by_path'
           /\ \A i \in DOMAIN by_ino : i \in DOMAIN by_ino' /\ by_ino'[i].path = by_ino[i].path
           /\ \A q \in DOMAIN by_path : q \in DOMAIN by_path' /\ by_path'[q] = by_path[q]
           /\ \A q \in DOMAIN by_path' : q # p => q \in DOMAIN by_path
  <1>1. CASE p \in DOMAIN by_path
    <2>1. by_path[p] \in DOMAIN by_ino
      BY <1>1 DEF TableInv
    <2>2. /\ by_ino' = [by_ino EXCEPT ![by_path[p]].count = by_ino[by_path[p]].count + 1]
          /\ by_path' = by_path
      BY <1>1, <2>1 DEF SetTable, LookupOrInsert, TableOf, Counted
    <2>3. DOMAIN by_ino' = DOMAIN by_ino /\ \A i \in DOMAIN by_ino : by_ino'[i].path = by_ino[i].path
      BY <2>1, <2>2 DEF TableInv
    <2> QED BY <1>1, <2>2, <2>3 DEF PathInv
  <1>2. CASE p \notin DOMAIN by_path
    <2>1. /\ by_ino' = With(by_ino, next_ino, [path |-> p, count |-> 1])
          /\ by_path' = With(by_path, p, next_ino)
      BY <1>2 DEF SetTable, TableOf, LookupOrInsert
    <2>2. /\ next_ino \notin DOMAIN by_ino /\ DOMAIN by_ino' = DOMAIN by_ino \cup {next_ino}
          /\ by_ino'[next_ino].path = p
          /\ \A j \in DOMAIN by_ino : by_ino'[j] = by_ino[j]
      BY <2>1 DEF With, TableInv
    <2>3. /\ DOMAIN by_path' = DOMAIN by_path \cup {p} /\ by_path'[p] = next_ino
          /\ \A q \in DOMAIN by_path : by_path'[q] = by_path[q]
      BY <1>2, <2>1 DEF With
    <2>4. PathInv'
      BY <2>2, <2>3 DEF PathInv
    <2> QED BY <2>2, <2>3, <2>4
  <1> QED BY <1>1, <1>2

\* Requests of other threads, when a name is entered in a directory of this one's.
LEMMA EnterOthers ==
    ASSUME ServesInv, NEW t \in Threads, NEW u \in Threads, t # u, req[u] # Idle, req'[u] = req[u],
           InDir(t), UNCHANGED <<tree, named>>, NEW n \in Names,
           SetTable(LookupOrInsert(Append(req[t].path, n)))
    PROVE  Fine(u)'
  <1>1. Fine(u) /\ Fine(t) /\ PathInv /\ TableInv /\ WorkInv
    BY DEF ServesInv, WorkInv, KnownInv, InDir
  <1>2. req[t].path \in Paths /\ Append(req[t].path, n) \in Paths
    BY <1>1, WorkingPaths, ChildPath DEF Fine, Resolved
  <1>3. PICK c : c = Append(req[t].path, n)
    OBVIOUS
  <1>4. /\ \A i \in DOMAIN by_ino : i \in DOMAIN by_ino' /\ by_ino'[i].path = by_ino[i].path
        /\ \A q \in DOMAIN by_path : q \in DOMAIN by_path' /\ by_path'[q] = by_path[q]
        /\ \A q \in DOMAIN by_path' : q # c => q \in DOMAIN by_path
    BY <1>1, <1>2, <1>3, InsertPaths
  <1>5. backing' = backing /\ named' = named /\ \A p : IsDir(p)' = IsDir(p)
    BY SameTree DEF tree, ServesInv
  <1>6. Child(u)' = Child(u) /\ Target(u)' = Target(u)
    BY DEF Child, Target
  <1>7. InDir(u) => IsDir(req[u].path)' /\ IsDir(req[u].topath)'
    BY <1>1, <1>5 DEF Fine, Resolved, tree, IsDir
  <1>8. RenameInv(u)'
    <2> SUFFICES ASSUME req[u].op = "rename" PROVE RenameInv(u)'
      BY DEF RenameInv
    <2>1. RenameInv(u) /\ InDir(u) /\ req[u].op \in Exclusive /\ req[u].toname \in Names
      BY <1>1 DEF Fine, Resolved, InDir, ByNumber, Exclusive
    <2>2. Target(u) # c
      BY <1>1, <1>3, <2>1, Elsewhere DEF Target
    <2>3. IsDir(Child(u))' = IsDir(Child(u)) /\ IsDir(Target(u))' = IsDir(Target(u))
      BY <1>5, <1>6 DEF tree, IsDir
    <2> QED BY <1>4, <1>5, <1>6, <2>1, <2>2, <2>3 DEF RenameInv
  <1>9. SetattrInv(u)'
    BY <1>1, <1>5 DEF Fine, SetattrInv
  <1>10. \A i \in Dirs(u) : i \in DOMAIN by_ino' /\ by_ino'[i].path = by_ino[i].path
    BY <1>1, <1>4 DEF Fine, Resolved
  <1>11. req[u].op \in Enters /\ req[u].pc \in {"enter", "reply"} => Child(u) \in DOMAIN backing'
    BY <1>1, <1>5 DEF Fine, ReportInv
  <1>12. req[u].op \in Enters /\ req[u].pc = "reply" => Child(u) \in DOMAIN by_path' /\ by_path'[Child(u)] = by_path[Child(u)]
    BY <1>1, <1>4 DEF Fine, ReportInv
  <1> QED BY <1>1, <1>5, <1>7, <1>8, <1>9, <1>10, <1>11, <1>12, FineStays

\* A name is entered: what is left to show is that its request is fine.
LEMMA EnterServes ==
    ASSUME ServesInv, KnownInv', NEW t \in Threads, InDir(t), ~Moving(t), NEW n \in Names,
           SetTable(LookupOrInsert(Append(req[t].path, n))),
           UNCHANGED <<load, tree, known, named>>,
           \A u \in Threads \ {t} : req'[u] = req[u],
           /\ Fine(t)'
           /\ \A f \in {"op", "ino", "to", "name", "path", "topath"} : req'[t][f] = req[t][f]
    PROVE  ServesInv'
  <1>1. Fine(t) /\ PathInv /\ TableInv /\ TreeInv /\ req[t] # Idle
    BY DEF ServesInv, WorkInv, KnownInv, InDir
  <1>2. Append(req[t].path, n) \in Paths
    BY <1>1, WorkingPaths, ChildPath DEF Fine, Resolved
  <1>3. PathInv' /\ \A i \in DOMAIN by_ino : by_ino'[i].path = by_ino[i].path
    BY <1>1, <1>2, InsertPaths
  <1>4. TreeInv'
    BY <1>1, SameTree
  <1>5. \A u \in Threads \ {t} : req[u] # Idle => Fine(u)'
    BY EnterOthers
  <1>6. WorkInv'
    BY <1>1, <1>5, WorkStays DEF ServesInv
  <1>7. ServedInv'
    <2>1. backing' = backing /\ \A o : InTree(o)' => InTree(o)
      BY <1>1, SameTree DEF tree
    <2>2. \A u \in Threads : Moving(u) => req'[u] = req[u]
      OBVIOUS
    <2> QED BY <1>1, <1>3, <2>1, <2>2, ServedStays DEF ServesInv
  <1> QED BY <1>3, <1>4, <1>6, <1>7 DEF ServesInv, Plain

LEMMA ListServes == ASSUME ServesInv, KnownInv', NEW t \in Threads, List(t) PROVE ServesInv'
  <1>1. /\ req[t] # Idle /\ req[t].pc = "list" /\ ~Moving(t) /\ UNCHANGED <<load, tree, known, named>>
    BY DEF List, Idle, Moving
  <1>2. CASE End(t) /\ UNCHANGED table
    BY <1>1, <1>2, RequestEnds
  <1>3. CASE ~(End(t) /\ UNCHANGED table)
    <2>1. /\ Fine(t) /\ req[t].op = "readdir" /\ DOMAIN req = Threads /\ DOMAIN req[t] = Fields
          /\ InDir(t) /\ TableInv /\ PathInv
      BY <1>1 DEF ServesInv, WorkInv, Fine, Resolved, KnownInv, ReqInv, Requested, InDir, ByNumber
    <2>2. PICK n \in req[t].todo : /\ SetTable(LookupOrInsert(EnterName(req[t].ino, n)))
                                   /\ req' = [req EXCEPT ![t].todo = req[t].todo \ {n}]
      BY <1>3 DEF List
    <2>3. n \in Names /\ EnterName(req[t].ino, n) = Append(req[t].path, n)
      BY <2>1 DEF Fine, ListInv, Resolved, EnterName
    <2>4. Continues(t, "list", req[t].obj, req[t].todo \ {n}, req[t].num)
      <3>1. [req[t] EXCEPT !.todo = req[t].todo \ {n}]
              = [req[t] EXCEPT !.pc = "list", !.obj = req[t].obj, !.todo = req[t].todo \ {n}, !.num = req[t].num]
        BY <1>1, <2>1 DEF Fields
      <3> QED BY <2>1, <2>2, <3>1 DEF Continues
    <2>5. /\ \A u \in Threads \ {t} : req'[u] = req[u]
          /\ req'[t] # Idle /\ req'[t].pc = "list" /\ req'[t].todo = req[t].todo \ {n}
          /\ \A f \in {"op", "ino", "to", "name", "toname", "path", "topath"} : req'[t][f] = req[t][f]
      BY <1>1, <2>4, GoesOn
    <2>6. Append(req[t].path, n) \in Paths
      BY <2>1, <2>3, WorkingPaths, ChildPath DEF Fine, Resolved
    <2>7. Resolved(t)'
      <3>1. \A i \in Dirs(t) : i \in DOMAIN by_ino' /\ by_ino'[i].path = by_ino[i].path
        BY <2>1, <2>2, <2>3, <2>6, InsertPaths DEF Fine, Resolved
      <3>2. \A p : IsDir(p)' = IsDir(p)
        BY <1>1 DEF tree, IsDir
      <3> QED BY <1>1, <2>1, <2>4, <3>1, <3>2, ResolvedGoesOn
    <2>8. req'[t].op = "readdir"
      BY <2>1, <2>5
    <2>9. Fine(t)'
      BY <2>1, <2>5, <2>7, <2>8 DEF Fine, RenameInv, ListInv, SetattrInv, ReportInv, Enters
    <2>10. SetTable(LookupOrInsert(Append(req[t].path, n)))
      BY <2>2, <2>3
    <2> QED BY <1>1, <2>1, <2>3, <2>5, <2>9, <2>10, EnterServes
  <1> QED BY <1>2, <1>3

LEMMA EnterStepServes == ASSUME ServesInv, KnownInv', NEW t \in Threads, Enter(t) PROVE ServesInv'
  <1>1. /\ req[t] # Idle /\ req[t].pc = "enter" /\ ~Moving(t) /\ UNCHANGED <<load, tree, known, named>>
    BY DEF Enter, Idle, Moving
  <1>2. /\ Fine(t) /\ req[t].op \in Enters /\ DOMAIN req = Threads /\ DOMAIN req[t] = Fields
        /\ InDir(t) /\ TableInv /\ PathInv /\ req[t].name \in Names /\ req[t].ino \in DOMAIN by_ino
        /\ req[t].path = by_ino[req[t].ino].path
    BY <1>1 DEF Enter, ServesInv, WorkInv, Fine, Resolved, KnownInv, ReqInv, InDir, ByNumber, Enters, Dirs
  <1> DEFINE c == Child(t)
  <1>3. EnterName(req[t].ino, req[t].name) = c
    BY <1>2 DEF EnterName, Child
  <1>4. SetTable(LookupOrInsert(c)) /\ req' = [req EXCEPT ![t].pc = "reply", ![t].num = by_path'[c]]
    BY <1>2, <1>3 DEF Enter
  <1>5. PICK k : k = by_path'[c]
    OBVIOUS
  <1>6. Continues(t, "reply", req[t].obj, req[t].todo, k)
    BY <1>2, <1>4, <1>5 DEF Continues, Fields
  <1>7. /\ \A u \in Threads \ {t} : req'[u] = req[u]
        /\ req'[t] # Idle /\ req'[t].pc = "reply" /\ req'[t].obj = req[t].obj /\ req'[t].num = k /\ Child(t)' = c
        /\ \A f \in {"op", "ino", "to", "name", "toname", "path", "topath"} : req'[t][f] = req[t][f]
    BY <1>1, <1>6, GoesOn
  <1>8. c \in Paths /\ c = Append(req[t].path, req[t].name)
    BY <1>2, WorkingPaths, ChildPath DEF Fine, Resolved, Child
  <1>. HIDE DEF c
  <1>9. /\ c \in DOMAIN by_path'
        /\ \A i \in DOMAIN by_ino : i \in DOMAIN by_ino' /\ by_ino'[i].path = by_ino[i].path
    BY <1>2, <1>4, <1>8, InsertPaths
  <1>10. Resolved(t)'
    <2>1. \A i \in Dirs(t) : i \in DOMAIN by_ino' /\ by_ino'[i].path = by_ino[i].path
      BY <1>2, <1>9 DEF Fine, Resolved
    <2>2. \A p : IsDir(p)' = IsDir(p)
      BY <1>1 DEF tree, IsDir
    <2> QED BY <1>1, <1>2, <1>6, <2>1, <2>2, ResolvedGoesOn
  <1>11. req'[t].op = req[t].op
    BY <1>7
  <1>12. c \in DOMAIN backing /\ backing[c] = req[t].obj /\ backing' = backing
    BY <1>1, <1>2 DEF Fine, ReportInv, tree, c
  <1>13. ReportInv(t)'
    BY <1>5, <1>7, <1>9, <1>12 DEF ReportInv
  <1>14. Fine(t)'
    BY <1>2, <1>10, <1>11, <1>13 DEF Fine, RenameInv, ListInv, SetattrInv, Enters
  <1>15. SetTable(LookupOrInsert(Append(req[t].path, req[t].name)))
    BY <1>4, <1>8
  <1> QED BY <1>1, <1>2, <1>7, <1>14, <1>15, EnterServes

LEMMA RenamePaths ==
    ASSUME TableInv, PathInv, NEW old, old # <<>>, NEW new \in Paths, new \notin DOMAIN by_path, old # new,
           SetTable(RenamePath(old, new))
    PROVE  /\ PathInv' /\ DOMAIN by_ino' = DOMAIN by_ino
           /\ \A i \in DOMAIN by_ino : by_ino'[i].path = IF by_ino[i].path = old THEN new ELSE by_ino[i].path
           /\ \A q \in DOMAIN by_path : q # old => q \in DOMAIN by_path' /\ by_path'[q] = by_path[q]
           /\ \A q \in DOMAIN by_path' : q # new => q \in DOMAIN by_path
  <1>1. CASE old \notin DOMAIN by_path
    <2>1. by_ino' = by_ino /\ by_path' = by_path
      BY <1>1 DEF SetTable, TableOf, RenamePath
    <2> QED BY <1>1, <2>1 DEF PathInv
  <1>2. CASE old \in DOMAIN by_path
    <2> DEFINE i == by_path[old]
    <2>1. i \in DOMAIN by_ino /\ by_ino[i].path = old
      BY <1>2 DEF TableInv
    <2>2. /\ by_ino' = [by_ino EXCEPT ![i] = [by_ino[i] EXCEPT !.path = new]]
          /\ by_path' = With(Without(by_path, {old}), new, i)
      BY <1>2, <2>1 DEF SetTable, TableOf, RenamePath
    <2>3. \A j \in DOMAIN by_ino : by_ino[j].path = old => j = i
      BY DEF PathInv
    <2>4. i # Root
      BY <2>1 DEF PathInv
    <2>. HIDE DEF i
    <2>5. /\ DOMAIN by_ino' = DOMAIN by_ino /\ \A j \in DOMAIN by_ino : j # i => by_ino'[j] = by_ino[j]
          /\ by_ino'[i].path = new
      BY <2>1, <2>2 DEF TableInv
    <2>6. /\ DOMAIN by_path' = (DOMAIN by_path \ {old}) \cup {new} /\ by_path'[new] = i
          /\ \A q \in DOMAIN by_path \ {old, new} : by_path'[q] = by_path[q]
      BY <2>2 DEF With, Without
    <2>7. \A j \in DOMAIN by_ino : by_ino'[j].path = IF by_ino[j].path = old THEN new ELSE by_ino[j].path
      BY <2>1, <2>3, <2>5
    <2>8. ASSUME NEW j \in DOMAIN by_ino
          PROVE  by_ino'[j].path \in Paths /\ by_ino'[j].path \in DOMAIN by_path' /\ by_path'[by_ino'[j].path] = j
      <3>1. CASE j = i
        BY <2>5, <2>6, <3>1
      <3>2. CASE j # i
        BY <2>3, <2>5, <2>6, <3>2 DEF PathInv
      <3> QED BY <3>1, <3>2
    <2>9. PathInv'
      BY <2>4, <2>5, <2>8 DEF PathInv
    <2> QED BY <2>5, <2>6, <2>7, <2>9
  <1> QED BY <1>1, <1>2

LEMMA RenameEnterServes == ASSUME ServesInv, KnownInv', NEW t \in Threads, RenameEnter(t) PROVE ServesInv'
  <1>1. /\ req[t] # Idle /\ req[t].pc = "enter" /\ req[t].op = "rename" /\ InDir(t) /\ req[t].op \in Exclusive
        /\ UNCHANGED <<load, tree, known, named>> /\ End(t)
    BY DEF RenameEnter, Idle, InDir, ByNumber, Exclusive
  <1>2. /\ Fine(t) /\ RenameInv(t) /\ DOMAIN req = Threads /\ TableInv /\ PathInv /\ TreeInv /\ WorkInv
        /\ req[t].name \in Names /\ req[t].toname \in Names /\ req[t].path \in Paths /\ req[t].topath \in Paths
        /\ Len(req[t].topath) < Depth
    BY <1>1, WorkingPaths DEF ServesInv, WorkInv, Fine, Resolved, KnownInv, ReqInv
  <1> DEFINE old == Child(t)
             new == Target(t)
  <1>3. SetTable(RenamePath(old, new))
    BY <1>1, <1>2 DEF RenameEnter, Fine, Resolved, Dirs, EnterName, Child, Target
  <1>4. /\ old = Append(req[t].path, req[t].name) /\ new = Append(req[t].topath, req[t].toname)
        /\ old # <<>> /\ new \in Paths
    BY <1>2, ChildPath DEF Child, Target
  <1>5. /\ new \notin DOMAIN by_path /\ ~IsDir(old) /\ old \notin DOMAIN backing /\ new \in DOMAIN backing
        /\ old # new
    BY <1>1, <1>2 DEF RenameInv
  <1>. HIDE DEF old, new
  <1>6. /\ PathInv' /\ DOMAIN by_ino' = DOMAIN by_ino
        /\ \A i \in DOMAIN by_ino : by_ino'[i].path = IF by_ino[i].path = old THEN new ELSE by_ino[i].path
        /\ \A q \in DOMAIN by_path : q # old => q \in DOMAIN by_path' /\ by_path'[q] = by_path[q]
        /\ \A q \in DOMAIN by_path' : q # new => q \in DOMAIN by_path
    <2>1. PICK p, q : p = old /\ q = new
      OBVIOUS
    <2>2. q \in Paths /\ q \notin DOMAIN by_path /\ p # q /\ p # <<>> /\ SetTable(RenamePath(p, q))
      BY <1>3, <1>4, <1>5, <2>1
    <2>3. /\ PathInv' /\ DOMAIN by_ino' = DOMAIN by_ino
          /\ \A i \in DOMAIN by_ino : by_ino'[i].path = IF by_ino[i].path = p THEN q ELSE by_ino[i].path
          /\ \A x \in DOMAIN by_path : x # p => x \in DOMAIN by_path' /\ by_path'[x] = by_path[x]
          /\ \A x \in DOMAIN by_path' : x # q => x \in DOMAIN by_path
      BY <1>2, <2>2, RenamePaths
    <2> QED BY <2>1, <2>3
  <1>7. TreeInv' /\ backing' = backing /\ named' = named /\ \A p : IsDir(p)' = IsDir(p) /\ InTree(p)' = InTree(p)
    BY <1>1, <1>2, SameTree DEF tree
  <1>8. req'[t] = Idle /\ \A u \in Threads \ {t} : req'[u] = req[u]
    BY <1>1, <1>2 DEF End
  <1>9. ASSUME NEW u \in Threads \ {t}, InDir(u), req[u].op # "readdir"
        PROVE  Child(u) \notin {old, new} /\ Target(u) \notin {old, new}
    <2>1. req[u].name \in Names /\ req[u].toname \in Names
      BY <1>2, <1>9 DEF WorkInv, Fine, Resolved, InDir
    <2>2. \A p \in {req[t].path, req[t].topath}, q \in {req[u].path, req[u].topath}, n, m \in Names :
              Append(p, n) # Append(q, m)
      BY <1>1, <1>2, <1>9, Elsewhere
    <2> QED BY <1>2, <1>4, <2>1, <2>2 DEF Child, Target
  <1>10. ASSUME NEW u \in Threads \ {t}, req[u] # Idle PROVE Fine(u)'
    <2>1. Fine(u) /\ Apart(u, t) /\ req'[u] = req[u]
      BY <1>2, <1>8, <1>10 DEF WorkInv
    <2>2. Child(u)' = Child(u) /\ Target(u)' = Target(u)
      BY <2>1 DEF Child, Target
    <2>3. ASSUME NEW i \in Dirs(u), req[u].op # "open" PROVE by_ino[i].path # old
      <3>1. CASE InDir(u)
        <4>1. by_ino[i].path \in {req[u].path, req[u].topath}
          BY <2>1, <2>3, <3>1 DEF Fine, Resolved, Dirs
        <4>2. IsDir(req[u].path) /\ IsDir(req[u].topath)
          BY <2>1, <3>1 DEF Fine, Resolved
        <4> QED BY <1>5, <4>1, <4>2
      <3>2. CASE ~InDir(u)
        <4>1. req[u].op = "setattr" /\ req[u].to = req[u].ino
          BY <1>10, <2>1, <2>3, <3>2 DEF InDir, ByNumber, Fine, Resolved
        <4>2. by_ino[i].path = req[u].path
          BY <2>1, <2>3, <4>1 DEF Fine, Resolved, Dirs
        <4>3. req[u].path # old
          BY <1>1, <2>1, <4>1 DEF Apart, Unnames, old
        <4> QED BY <4>2, <4>3
      <3> QED BY <3>1, <3>2
    <2>4. \A i \in Dirs(u) : /\ i \in DOMAIN by_ino'
                             /\ req[u].op # "open" => by_ino'[i].path = by_ino[i].path
      BY <1>6, <2>1, <2>3 DEF Fine, Resolved
    <2>5. InDir(u) => IsDir(req[u].path)' /\ IsDir(req[u].topath)'
      BY <1>1, <2>1 DEF Fine, Resolved, tree, IsDir
    <2>6. req[u].op \in Enters \cup {"rename"} => InDir(u) /\ req[u].op # "readdir"
      BY <1>10 DEF InDir, Enters, ByNumber
    <2>7. req[u].op \in Enters /\ req[u].pc \in {"enter", "reply"} => Child(u) \in DOMAIN backing'
      BY <1>7, <2>1 DEF Fine, ReportInv
    <2>8. req[u].op \in Enters /\ req[u].pc = "reply" =>
              Child(u) \in DOMAIN by_path' /\ by_path'[Child(u)] = by_path[Child(u)]
      BY <1>6, <1>9, <2>1, <2>6 DEF Fine, ReportInv
    <2>9. RenameInv(u)'
      <3> SUFFICES ASSUME req[u].op = "rename" PROVE RenameInv(u)'
        BY <2>1 DEF RenameInv
      <3>1. IsDir(Child(u))' = IsDir(Child(u)) /\ IsDir(Target(u))' = IsDir(Target(u))
        BY <1>1, <2>2 DEF tree, IsDir
      <3>2. Target(u) \notin DOMAIN by_path'
        BY <1>6, <1>9, <2>1, <2>6 DEF Fine, RenameInv
      <3> QED BY <1>7, <2>1, <2>2, <3>1, <3>2 DEF Fine, RenameInv
    <2>10. SetattrInv(u)'
      BY <1>7, <2>1 DEF Fine, SetattrInv
    <2> QED BY <1>7, <1>10, <2>1, <2>4, <2>5, <2>7, <2>8, <2>9, <2>10, FineStays
  <1>11. WorkInv'
    BY <1>1, <1>2, <1>8, <1>10, WorkStays
  <1>12. ServedInv'
    <2> SUFFICES ASSUME NEW i \in Inos \ {Root}, InTree(named[i])
                 PROVE  \/ by_ino'[i].path \in DOMAIN backing /\ backing[by_ino'[i].path] = named[i]
                        \/ \E u \in Threads : Moving(u)' /\ Child(u)' = by_ino'[i].path /\ backing[Target(u)'] = named[i]
      BY <1>1, <1>7 DEF ServedInv, ServesInv, InTree
    <2>1. i \in DOMAIN by_ino
      BY NumberHere DEF ServesInv
    <2>2. CASE by_ino[i].path \in DOMAIN backing /\ backing[by_ino[i].path] = named[i]
      BY <1>5, <1>6, <2>1, <2>2
    <2>3. CASE \E u \in Threads : Moving(u) /\ Child(u) = by_ino[i].path /\ backing[Target(u)] = named[i]
      <3>1. PICK u \in Threads : Moving(u) /\ Child(u) = by_ino[i].path /\ backing[Target(u)] = named[i]
        BY <2>3
      <3>2. CASE u = t
        <4>1. by_ino[i].path = old /\ backing[new] = named[i]
          BY <3>1, <3>2 DEF old, new
        <4> QED BY <1>5, <1>6, <2>1, <4>1
      <3>3. CASE u # t
        <4>1. req[u].op = "rename" /\ InDir(u) /\ req'[u] = req[u]
          BY <1>8, <3>1, <3>3 DEF Moving, InDir, Idle, ByNumber
        <4>2. by_ino'[i].path = by_ino[i].path
          BY <1>6, <1>9, <2>1, <3>1, <3>3, <4>1
        <4>3. Moving(u)' /\ Child(u)' = Child(u) /\ Target(u)' = Target(u)
          BY <3>1, <4>1 DEF Moving, Child, Target
        <4> QED BY <3>1, <4>2, <4>3
      <3> QED BY <3>2, <3>3
    <2> QED BY <2>2, <2>3 DEF ServedInv, ServesInv
  <1> QED BY <1>1, <1>6, <1>7, <1>11, <1>12 DEF ServesInv, Plain

\* Requests when only the kernel's side changes.
LEMMA KernelOthers ==
    ASSUME ServesInv, NEW u \in Threads, req[u] # Idle, req'[u] = req[u], UNCHANGED tree,
           \A i \in Dirs(u) : i \in DOMAIN by_ino' /\ by_ino'[i].path = by_ino[i].path,
           req[u].op \in Enters /\ req[u].pc = "reply" =>
               Child(u) \in DOMAIN by_path' /\ by_path'[Child(u)] = by_path[Child(u)],
           DOMAIN by_path' \subseteq DOMAIN by_path,
           req[u].op = "setattr" => named'[req[u].ino] = named[req[u].ino]
    PROVE  Fine(u)'
  <1>1. Fine(u) /\ backing' = backing /\ dirs' = dirs
    BY DEF ServesInv, WorkInv, tree
  <1>2. Child(u)' = Child(u) /\ Target(u)' = Target(u)
    BY DEF Child, Target
  <1>3. InDir(u) => IsDir(req[u].path)' /\ IsDir(req[u].topath)'
    BY <1>1 DEF Fine, Resolved, IsDir
  <1>4. RenameInv(u)'
    <2>1. IsDir(Child(u))' = IsDir(Child(u)) /\ IsDir(Target(u))' = IsDir(Target(u))
      BY <1>1, <1>2 DEF IsDir
    <2> QED BY <1>1, <1>2, <2>1 DEF Fine, RenameInv
  <1>5. SetattrInv(u)'
    BY <1>1 DEF Fine, SetattrInv
  <1>6. req[u].op \in Enters /\ req[u].pc \in {"enter", "reply"} => Child(u) \in DOMAIN backing'
    BY <1>1 DEF Fine, ReportInv
  <1> QED BY <1>1, <1>3, <1>4, <1>5, <1>6, FineStays

LEMMA ReplyServes == ASSUME ServesInv, KnownInv', NEW t \in Threads, Reply(t) PROVE ServesInv'
  <1>1. PICK k, o : k = req[t].num /\ o = req[t].obj
    OBVIOUS
  <1>2. /\ req[t] # Idle /\ req[t].pc = "reply" /\ ~Moving(t)
        /\ known' = [known EXCEPT ![k] = known[k] + 1] /\ named' = [named EXCEPT ![k] = o]
        /\ UNCHANGED <<load, tree, table>>
    BY <1>1 DEF Reply, Idle, Moving
  <1>3. req'[t] = Idle /\ \A u \in Threads \ {t} : req'[u] = req[u]
    BY DEF Reply, End, ServesInv, KnownInv, ReqInv
  <1>4. /\ Fine(t) /\ req[t].op \in Enters /\ TableInv /\ PathInv /\ TreeInv /\ WorkInv
        /\ DOMAIN named = Inos /\ known \in [Inos -> Nat]
    BY <1>2 DEF ServesInv, WorkInv, Fine, Resolved, KnownInv, ServedInv
  <1>5. /\ backing' = backing /\ by_ino' = by_ino /\ by_path' = by_path
        /\ TreeInv' /\ \A p : InTree(p)' = InTree(p)
    BY <1>2, <1>4, SameTree DEF tree, table
  <1>6. Child(t) \in DOMAIN by_path /\ by_path[Child(t)] = k /\ Child(t) \in DOMAIN backing /\ backing[Child(t)] = o
    BY <1>1, <1>2, <1>4 DEF Fine, ReportInv
  <1>7. by_ino[k].path = Child(t)
    BY <1>4, <1>6 DEF TableInv
  <1>8. ASSUME NEW u \in Threads \ {t}, req[u] # Idle PROVE Fine(u)'
    <2>1. Fine(u) /\ req'[u] = req[u]
      BY <1>3, <1>4, <1>8 DEF WorkInv
    <2>2. req[u].op = "setattr" => named'[req[u].ino] = named[req[u].ino]
      <3> SUFFICES ASSUME req[u].op = "setattr", req[u].ino = k PROVE named'[k] = named[k]
        BY <1>2, <1>4, <2>1 DEF Fine, Resolved, Dirs
      <3>1. req[u].path = by_ino[k].path /\ backing[req[u].path] = named[k] /\ k \in Inos
        BY <2>1 DEF Fine, Resolved, SetattrInv, Dirs
      <3> QED BY <1>2, <1>4, <1>6, <1>7, <3>1
    <2>3. \A i \in Dirs(u) : i \in DOMAIN by_ino'
      BY <1>5, <2>1 DEF Fine, Resolved
    <2>4. req[u].op \in Enters /\ req[u].pc = "reply" => Child(u) \in DOMAIN by_path'
      BY <1>5, <2>1 DEF Fine, ReportInv
    <2> QED BY <1>2, <1>5, <1>8, <2>1, <2>2, <2>3, <2>4, KernelOthers
  <1>9. WorkInv'
    BY <1>2, <1>3, <1>4, <1>8, WorkStays
  <1>10. ServedInv'
    <2>1. DOMAIN named' = Inos
      BY <1>2, <1>4
    <2>2. ASSUME NEW i \in Inos \ {Root}, named'[i] # None PROVE known'[i] > 0
      <3>1. CASE i = k
        BY <1>2, <1>4, <3>1
      <3>2. CASE i # k
        BY <1>2, <1>4, <2>2, <3>2 DEF ServesInv, ServedInv
      <3> QED BY <3>1, <3>2
    <2>3. ASSUME NEW i \in Inos \ {Root}, NEW x, x = named'[i], InTree(x)'
          PROVE  \/ by_ino[i].path \in DOMAIN backing /\ backing[by_ino[i].path] = x
                 \/ \E u \in Threads : Moving(u)' /\ Child(u)' = by_ino[i].path /\ backing[Target(u)'] = x
      <3>1. CASE i = k
        BY <1>2, <1>4, <1>6, <1>7, <2>3, <3>1
      <3>2. CASE i # k
        <4>1. named[i] = x /\ InTree(x)
          BY <1>2, <1>4, <1>5, <2>3, <3>2
        <4>2. CASE by_ino[i].path \in DOMAIN backing /\ backing[by_ino[i].path] = named[i]
          BY <4>1, <4>2
        <4>3. CASE \E u \in Threads : Moving(u) /\ Child(u) = by_ino[i].path /\ backing[Target(u)] = named[i]
          <5>1. PICK u \in Threads : Moving(u) /\ Child(u) = by_ino[i].path /\ backing[Target(u)] = named[i]
            BY <4>3
          <5>2. req'[u] = req[u]
            BY <1>2, <1>3, <5>1
          <5>3. Moving(u)' /\ Child(u)' = Child(u) /\ Target(u)' = Target(u)
            BY <5>1, <5>2 DEF Moving, Child, Target
          <5> QED BY <4>1, <5>1, <5>3
        <4> QED BY <4>1, <4>2, <4>3 DEF ServesInv, ServedInv
      <3> QED BY <3>1, <3>2
    <2>4. ASSUME NEW i \in Inos \ {Root}, InTree(named[i])'
          PROVE  \/ by_ino'[i].path \in DOMAIN backing' /\ backing'[by_ino'[i].path] = named'[i]
                 \/ \E u \in Threads : Moving(u)' /\ Child(u)' = by_ino'[i].path /\ backing'[Target(u)'] = named'[i]
      <3>1. PICK x : x = named'[i]
        OBVIOUS
      <3>2. InTree(x)'
        BY <2>4, <3>1 DEF InTree
      <3> QED BY <1>5, <2>3, <3>1, <3>2
    <2> QED BY <2>1, <2>2, <2>4 DEF ServedInv
  <1>11. PathInv'
    BY <1>4, <1>5 DEF PathInv
  <1> QED BY <1>2, <1>5, <1>9, <1>10, <1>11 DEF ServesInv, Plain

\* A number goes with its path, and not while it is counted.
LEMMA ForgetPaths ==
    ASSUME TableInv, PathInv, NEW i \in DOMAIN by_ino, i # Root, NEW n \in Nat, SetTable(ForgetNumber(i, n))
    PROVE  /\ PathInv' /\ DOMAIN by_path' \subseteq DOMAIN by_path
           /\ \A j \in DOMAIN by_ino : j # i \/ Count(i) > n => j \in DOMAIN by_ino' /\ by_ino'[j].path = by_ino[j].path
           /\ \A q \in DOMAIN by_path : by_path[q] # i \/ Count(i) > n =>
                  q \in DOMAIN by_path' /\ by_path'[q] = by_path[q]
  <1>1. CASE by_ino[i].count > n
    <2>1. by_ino' = [by_ino EXCEPT ![i].count = by_ino[i].count + (-n)] /\ by_path' = by_path
      BY <1>1 DEF SetTable, TableOf, ForgetNumber, Counted
    <2>2. DOMAIN by_ino' = DOMAIN by_ino /\ \A j \in DOMAIN by_ino : by_ino'[j].path = by_ino[j].path
      BY <2>1 DEF TableInv
    <2> QED BY <2>1, <2>2 DEF PathInv
  <1>2. CASE ~(by_ino[i].count > n)
    <2>1. by_ino' = Without(by_ino, {i}) /\ by_path' = Without(by_path, {by_ino[i].path})
      BY <1>2 DEF SetTable, TableOf, ForgetNumber
    <2>2. DOMAIN by_ino' = DOMAIN by_ino \ {i} /\ \A j \in DOMAIN by_ino \ {i} : by_ino'[j] = by_ino[j]
      BY <2>1 DEF Without
    <2>3. DOMAIN by_path' = DOMAIN by_path \ {by_ino[i].path} /\ \A q \in DOMAIN by_path' : by_path'[q] = by_path[q]
      BY <2>1 DEF Without
    <2>4. by_path[by_ino[i].path] = i /\ ~(Count(i) > n)
      BY <1>2 DEF PathInv, Count
    <2>5. PathInv'
      BY <2>2, <2>3 DEF PathInv
    <2>6. \A q \in DOMAIN by_path : by_path[q] # i => q \in DOMAIN by_path'
      BY <2>3, <2>4
    <2> QED BY <2>2, <2>3, <2>4, <2>5, <2>6
  <1> QED BY <1>1, <1>2

LEMMA ForgetServes == ASSUME ServesInv, KnownInv', NEW i \in Inos, Forget(i) PROVE ServesInv'
  <1>1. PICK n \in {1, known[i]} :
            /\ i # Root /\ known[i] > 0 /\ known' = [known EXCEPT ![i] = known[i] - n]
            /\ IF i \in DOMAIN by_ino THEN SetTable(ForgetNumber(i, n)) ELSE UNCHANGED table
            /\ named' = IF n = known[i] THEN [named EXCEPT ![i] = None] ELSE named
            /\ UNCHANGED <<load, tree, req>>
            /\ \A t \in Threads : ~Uses(t, i)
    BY DEF Forget
  <1>2. /\ TableInv /\ PathInv /\ TreeInv /\ WorkInv /\ DOMAIN named = Inos /\ known \in [Inos -> Nat]
        /\ n \in Nat /\ n <= known[i]
    BY <1>1 DEF ServesInv, KnownInv, ServedInv
  <1>3. known[i] + Replies(i) <= Count(i) /\ Replies(i) \in Nat /\ known[i] \in Nat /\ Count(i) \in Nat
    BY <1>1, <1>2, RepliesType, CountType DEF ServesInv, KnownInv, Backed
  <1>4. i \in DOMAIN by_ino
    BY <1>1, <1>3 DEF Count
  <1>5. /\ PathInv' /\ DOMAIN by_path' \subseteq DOMAIN by_path
        /\ \A j \in DOMAIN by_ino : j # i \/ Count(i) > n => j \in DOMAIN by_ino' /\ by_ino'[j].path = by_ino[j].path
        /\ \A q \in DOMAIN by_path : by_path[q] # i \/ Count(i) > n => q \in DOMAIN by_path' /\ by_path'[q] = by_path[q]
    BY <1>1, <1>2, <1>4, ForgetPaths
  <1>6. TreeInv' /\ backing' = backing /\ \A p : InTree(p)' = InTree(p)
    BY <1>1, <1>2, SameTree DEF tree
  <1>7. ASSUME NEW u \in Threads, req[u] # Idle PROVE Fine(u)'
    <2>1. Fine(u) /\ req'[u] = req[u] /\ i \notin Dirs(u)
      BY <1>1, <1>2, <1>7 DEF WorkInv, Uses, Dirs
    <2>2. req[u].op \in Enters /\ req[u].pc = "reply" =>
              Child(u) \in DOMAIN by_path' /\ by_path'[Child(u)] = by_path[Child(u)]
      <3> SUFFICES ASSUME req[u].op \in Enters, req[u].pc = "reply"
                   PROVE  Child(u) \in DOMAIN by_path' /\ by_path'[Child(u)] = by_path[Child(u)]
        OBVIOUS
      <3>1. Child(u) \in DOMAIN by_path /\ by_path[Child(u)] = req[u].num
        BY <2>1 DEF Fine, ReportInv
      <3>2. CASE req[u].num = i
        <4>1. u \in Waiting(i) /\ IsFiniteSet(Waiting(i))
          BY <1>7, <3>2, RepliesType DEF Waiting
        <4>. HIDE DEF Waiting
        <4>2. Replies(i) # 0
          BY <4>1, FS_EmptySet DEF Replies
        <4>3. Count(i) > n
          BY <1>2, <1>3, <4>2
        <4> QED BY <1>5, <3>1, <4>3
      <3>3. CASE req[u].num # i
        BY <1>5, <3>1, <3>3
      <3> QED BY <3>2, <3>3
    <2>3. \A j \in Dirs(u) : j \in DOMAIN by_ino' /\ by_ino'[j].path = by_ino[j].path
      BY <1>5, <2>1 DEF Fine, Resolved
    <2>4. req[u].op = "setattr" => named'[req[u].ino] = named[req[u].ino]
      BY <1>1, <1>2, <2>1 DEF Fine, Resolved, Dirs
    <2> QED BY <1>1, <1>5, <1>7, <2>1, <2>2, <2>3, <2>4, KernelOthers
  <1>8. WorkInv'
    <2>1. \A u, v \in Threads : Apart(u, v)' = Apart(u, v)
      BY <1>1 DEF Apart, InDir, Dirs, Child
    <2> QED BY <1>1, <1>2, <1>7, <2>1 DEF WorkInv
  <1>9. ServedInv'
    <2>1. DOMAIN named' = Inos
      BY <1>1, <1>2
    <2>2. ASSUME NEW j \in Inos \ {Root}, named'[j] # None
          PROVE  named'[j] = named[j] /\ known'[j] > 0 /\ (j # i \/ Count(i) > n)
      <3>1. CASE j = i
        <4>1. n # known[i] /\ n = 1
          BY <1>1, <1>2, <2>2, <3>1
        <4> QED BY <1>1, <1>2, <1>3, <3>1, <4>1
      <3>2. CASE j # i
        <4>1. named'[j] = named[j] /\ known'[j] = known[j]
          BY <1>1, <1>2, <3>2
        <4>2. known[j] > 0
          BY <2>2, <4>1 DEF ServesInv, ServedInv
        <4> QED BY <3>2, <4>1, <4>2
      <3> QED BY <3>1, <3>2
    <2>3. ASSUME NEW j \in Inos \ {Root}, InTree(named[j])'
          PROVE  \/ by_ino'[j].path \in DOMAIN backing' /\ backing'[by_ino'[j].path] = named'[j]
                 \/ \E u \in Threads : Moving(u)' /\ Child(u)' = by_ino'[j].path /\ backing'[Target(u)'] = named'[j]
      <3>1. PICK x : x = named'[j]
        OBVIOUS
      <3>2. InTree(x)
        BY <1>6, <2>3, <3>1 DEF InTree
      <3>3. x # None
        BY <1>2, <3>2 DEF TreeInv
      <3>4. named[j] = x /\ (j # i \/ Count(i) > n)
        BY <2>2, <3>1, <3>3
      <3>5. j \in DOMAIN by_ino /\ by_ino'[j].path = by_ino[j].path
        <4>1. j \in DOMAIN by_ino
          BY <3>2, <3>4, NumberHere DEF ServesInv
        <4> QED BY <1>5, <3>4, <4>1
      <3>6. \A u : Moving(u)' = Moving(u) /\ Child(u)' = Child(u) /\ Target(u)' = Target(u)
        BY <1>1 DEF Moving, Child, Target
      <3> QED BY <1>6, <3>1, <3>2, <3>4, <3>5, <3>6 DEF ServesInv, ServedInv
    <2> QED BY <2>1, <2>2, <2>3 DEF ServedInv
  <1> QED BY <1>1, <1>5, <1>6, <1>8, <1>9 DEF ServesInv, Plain

\* A directory the kernel works in is one, whatever is being renamed.
LEMMA DirHere ==
    ASSUME ServesInv, NEW k \in DOMAIN by_ino \cap Inos, k # Root => named[k] \in dirs PROVE IsDir(by_ino[k].path)
  <1>1. CASE k = Root
    BY <1>1 DEF ServesInv, PathInv, IsDir
  <1>2. CASE k # Root
    <2>1. InTree(named[k])
      BY <1>2 DEF ServesInv, TreeInv
    <2>2. CASE by_ino[k].path \in DOMAIN backing /\ backing[by_ino[k].path] = named[k]
      BY <1>2, <2>2 DEF IsDir
    <2>3. CASE \E u \in Threads : Moving(u) /\ Child(u) = by_ino[k].path /\ backing[Target(u)] = named[k]
      <3>1. PICK u \in Threads : Moving(u) /\ backing[Target(u)] = named[k]
        BY <2>3
      <3>2. Target(u) \in DOMAIN backing /\ ~IsDir(Target(u))
        BY <3>1 DEF ServesInv, WorkInv, Fine, RenameInv, Moving, Idle
      <3> QED BY <1>2, <3>1, <3>2 DEF IsDir
    <2> QED BY <1>2, <2>1, <2>2, <2>3 DEF ServesInv, ServedInv
  <1> QED BY <1>1, <1>2

LEMMA RequestServes == ASSUME ServesInv, KnownInv', NEW t \in Threads, Request(t) PROVE ServesInv'
  <1>1. PICK op, i, n, j, m :
            /\ Arrive(t, op, i, n, j, m)
            /\ op \in ByNumber \cup Exclusive \cup {"lookup", "readdir"}
            /\ op \in ByNumber => j = i
            /\ op = "setattr" => i # Root /\ InTree(named[i])
            /\ op \notin ByNumber => Len(by_ino[i].path) < Depth /\ Len(by_ino[j].path) < Depth
            /\ op \notin ByNumber /\ op # "readdir" => n \in Names /\ m \in Names
            /\ op = "rename" => /\ ~IsDir(Append(by_ino[i].path, n))
                                /\ Append(by_ino[j].path, m) \notin DOMAIN by_path
    <2>1. PICK i \in DOMAIN by_ino :
            \/ Arrive(t, "open", i, None, i, None)
            \/ /\ i # Root /\ InTree(named[i])
               /\ Arrive(t, "setattr", i, None, i, None)
            \/ /\ Len(by_ino[i].path) < Depth
               /\ \/ Arrive(t, "readdir", i, None, i, None)
                  \/ \E op \in {"lookup", "create", "mkdir", "unlink", "rmdir"}, n \in Names : Arrive(t, op, i, n, i, n)
                  \/ \E n, m \in Names, j \in DOMAIN by_ino :
                        /\ Len(by_ino[j].path) < Depth
                        /\ ~IsDir(Append(by_ino[i].path, n)) /\ Append(by_ino[j].path, m) \notin DOMAIN by_path
                        /\ Arrive(t, "rename", i, n, j, m)
      BY DEF Request, ServesInv, Plain
    <2>2. CASE Arrive(t, "open", i, None, i, None)
      BY <2>2 DEF ByNumber
    <2>3. CASE i # Root /\ InTree(named[i]) /\ Arrive(t, "setattr", i, None, i, None)
      BY <2>3 DEF ByNumber
    <2>4. CASE Len(by_ino[i].path) < Depth /\ Arrive(t, "readdir", i, None, i, None)
      BY <2>4 DEF ByNumber
    <2>5. CASE /\ Len(by_ino[i].path) < Depth
               /\ \E op \in {"lookup", "create", "mkdir", "unlink", "rmdir"}, n \in Names : Arrive(t, op, i, n, i, n)
      BY <2>5 DEF ByNumber, Exclusive
    <2>6. CASE /\ Len(by_ino[i].path) < Depth
               /\ \E n, m \in Names, j \in DOMAIN by_ino :
                        /\ Len(by_ino[j].path) < Depth
                        /\ ~IsDir(Append(by_ino[i].path, n)) /\ Append(by_ino[j].path, m) \notin DOMAIN by_path
                        /\ Arrive(t, "rename", i, n, j, m)
      BY <2>6 DEF ByNumber, Exclusive
    <2> QED BY <2>1, <2>2, <2>3, <2>4, <2>5, <2>6
  <1> DEFINE p == by_ino[i].path
             q == by_ino[j].path
  <1>2. /\ req[t] = Idle /\ {i, j} \subseteq DOMAIN by_ino \cap Inos
        /\ op \notin ByNumber => KernelLock(t, op, {i, j}) /\ \A k \in {i, j} \ {Root} : named[k] \in dirs
        /\ FileLock(t, op, IF op = "setattr" THEN p ELSE Append(p, n), {p, q})
        /\ UNCHANGED <<load, tree, table, handles, known, named>>
    BY <1>1 DEF Arrive, Knows
  <1>3. /\ \A u \in Threads \ {t} : req'[u] = req[u]
        /\ req'[t] = [op |-> op, pc |-> "call", ino |-> i, name |-> n, to |-> j, toname |-> m,
                      path |-> p, topath |-> q, obj |-> None, todo |-> {}, num |-> None]
    BY <1>1 DEF Arrive, ServesInv, KnownInv, ReqInv
  <1>4. /\ DOMAIN req'[t] = Fields /\ req'[t].op = op /\ req'[t].pc = "call" /\ req'[t].ino = i /\ req'[t].to = j
        /\ req'[t].name = n /\ req'[t].toname = m /\ req'[t].path = p /\ req'[t].topath = q
        /\ req'[t].obj = None /\ req'[t].todo = {}
    BY <1>3 DEF Fields
  <1>5. /\ Child(t)' = Append(p, n) /\ Target(t)' = Append(q, m) /\ Dirs(t)' = {i, j}
        /\ InDir(t)' = (op \notin ByNumber) /\ req'[t] # Idle
    <2>1. DOMAIN Idle = {"op", "pc"}
      BY DEF Idle
    <2>2. req'[t] # Idle
      BY <1>4, <2>1 DEF Fields
    <2> QED BY <1>4, <2>2 DEF Child, Target, Dirs, InDir
  <1>6. backing' = backing /\ by_ino' = by_ino /\ by_path' = by_path /\ named' = named /\ \A x : IsDir(x)' = IsDir(x)
    BY <1>2, SameTree DEF tree, table, ServesInv
  <1>7. op \notin ByNumber => IsDir(p) /\ IsDir(q)
    BY <1>2, DirHere
  <1>8. Resolved(t)'
    <2>1. InDir(t)' => IsDir(req[t].path)' /\ IsDir(req[t].topath)'
      <3>1. PICK x, y : x = p /\ y = q
        OBVIOUS
      <3>2. InDir(t)' => IsDir(x)' /\ IsDir(y)'
        BY <1>5, <1>6, <1>7, <3>1
      <3> QED BY <1>4, <3>1, <3>2 DEF IsDir
    <2>. HIDE DEF p, q
    <2>2. InDir(t)' => Len(p) < Depth /\ Len(q) < Depth /\ (op # "readdir" => n \in Names /\ m \in Names)
      BY <1>1, <1>5 DEF p, q
    <2>3. by_ino'[i].path = p /\ by_ino'[j].path = q /\ {i, j} \subseteq DOMAIN by_ino' \cap Inos
      BY <1>2, <1>6 DEF p, q
    <2> QED BY <1>1, <1>4, <1>5, <2>1, <2>2, <2>3 DEF Resolved
  <1>9. SetattrInv(t)'
    <2> SUFFICES ASSUME op = "setattr" PROVE SetattrInv(t)'
      BY <1>4 DEF SetattrInv
    <2>1. i \in Inos \ {Root} /\ InTree(named[i])
      BY <1>1, <1>2
    <2>2. ~\E u \in Threads : Moving(u) /\ Child(u) = p
      <3> SUFFICES ASSUME NEW u \in Threads, Moving(u), Child(u) = p PROVE FALSE
        OBVIOUS
      <3>1. u # t /\ req[u] # Idle /\ req[u].op = "rename"
        BY <1>2 DEF Moving, Idle
      <3> QED BY <1>2, <3>1 DEF FileLock, Unnames
    <2>3. p \in DOMAIN backing /\ backing[p] = named[i]
      BY <2>1, <2>2 DEF ServesInv, ServedInv
    <2> QED BY <1>4, <1>6, <2>1, <2>3 DEF SetattrInv
  <1>10. RenameInv(t)'
    <2> SUFFICES ASSUME op = "rename" PROVE RenameInv(t)'
      BY <1>4 DEF RenameInv
    <2>1. ~IsDir(Child(t))'
      <3>1. PICK c : c = Append(p, n)
        OBVIOUS
      <3>2. ~IsDir(c)'
        BY <1>1, <1>6, <3>1
      <3> QED BY <1>5, <3>1, <3>2 DEF IsDir
    <2> QED BY <1>1, <1>4, <1>5, <1>6, <2>1 DEF RenameInv
  <1>11. Fine(t)'
    BY <1>4, <1>8, <1>9, <1>10 DEF Fine, ReportInv, ListInv
  <1>12. \A u \in Threads \ {t} : req[u] # Idle => Fine(u)'
    BY <1>2, <1>3, OthersFine DEF ServesInv
  <1>13. ASSUME NEW u \in Threads \ {t} PROVE Apart(t, u)' /\ Apart(u, t)'
    <2>1. /\ Child(u)' = Child(u) /\ Dirs(u)' = Dirs(u) /\ InDir(u)' = InDir(u) /\ req'[u] = req[u]
      BY <1>3 DEF Child, Dirs, InDir
    <2>2. op \notin ByNumber /\ InDir(u) /\ (op \in Exclusive \/ req[u].op \in Exclusive) => {i, j} \cap Dirs(u) = {}
      BY <1>2 DEF KernelLock, Holds, InDir, Dirs
    <2>3. req[u] # Idle =>
            /\ op = "setattr" /\ Unnames(req[u].op) => Child(u) # p
            /\ Unnames(op) /\ req[u].op = "setattr" => req[u].path # Append(p, n)
            /\ op \notin ByNumber /\ req[u].op = "rmdir" => Child(u) \notin {p, q}
            /\ op = "rmdir" /\ req[u].op \notin ByNumber => Append(p, n) \notin {req[u].path, req[u].topath}
      BY <1>2 DEF FileLock, Unnames
    <2>4. req[u].op \in {"setattr", "rmdir"} => req[u] # Idle
      BY DEF Idle
    <2>. HIDE DEF p, q
    <2>5. Apart(t, u)'
      BY <1>4, <1>5, <2>1, <2>2, <2>3, <2>4 DEF Apart, Unnames
    <2>6. Apart(u, t)'
      BY <1>4, <1>5, <2>1, <2>2, <2>3, <2>4 DEF Apart, Unnames, InDir
    <2> QED BY <2>5, <2>6
  <1>14. WorkInv'
    <2>1. \A u \in Threads : req'[u] # Idle => Fine(u)'
      BY <1>3, <1>11, <1>12
    <2>2. ASSUME NEW u \in Threads \ {t}, NEW v \in Threads \ {t}, u # v PROVE Apart(u, v)'
      <3>1. Apart(u, v) /\ req'[u] = req[u] /\ req'[v] = req[v]
        BY <1>3, <2>2 DEF ServesInv, WorkInv
      <3> QED BY <3>1 DEF Apart, InDir, Dirs, Child
    <2> QED BY <1>13, <2>1, <2>2 DEF WorkInv
  <1>15. \A u \in Threads : Moving(u) => req'[u] = req[u]
    BY <1>2, <1>3 DEF Moving, Idle
  <1>16. TreeInv' /\ PathInv' /\ ServedInv'
    BY <1>2, <1>15, ServedSame
  <1> QED BY <1>2, <1>14, <1>16 DEF ServesInv, Plain

LEMMA ServesInit == ASSUME Init, Plain PROVE ServesInv
  <1>1. KnownInv
    BY KnownInit
  <1>2. TreeInv
    BY DEF Init, TreeInv, InTree
  <1>3. PathInv
    <2>1. <<>> \in [1 .. 0 -> Names]
      OBVIOUS
    <2>2. <<>> \in Paths
      BY <2>1, DepthAssumption DEF Paths
    <2> QED BY <2>2 DEF Init, InitTable, TableOf, PathInv, Root
  <1>4. ServedInv
    BY DEF Init, ServedInv, InTree
  <1>5. WorkInv
    BY DEF Init, WorkInv, Apart, InDir, Idle
  <1> QED BY <1>1, <1>2, <1>3, <1>4, <1>5 DEF ServesInv

LEMMA ServesStep == ServesInv /\ [Next]_vars => ServesInv'
  <1> SUFFICES ASSUME ServesInv, [Next]_vars PROVE ServesInv'
    OBVIOUS
  <1>0. KnownInv'
    BY KnownStep DEF ServesInv
  <1>1. ASSUME NEW t \in Threads, Request(t) PROVE ServesInv'
    BY <1>0, <1>1, RequestServes
  <1>2. ASSUME NEW t \in Threads, Lookup(t) PROVE ServesInv'
    BY <1>0, <1>2, LookupServes
  <1>3. ASSUME NEW t \in Threads, Create(t) \/ Mkdir(t) PROVE ServesInv'
    BY <1>0, <1>3, MakeServes DEF Create, Mkdir
  <1>4. ASSUME NEW t \in Threads, Remove(t, "unlink") \/ Remove(t, "rmdir") PROVE ServesInv'
    BY <1>0, <1>4, RemoveServes
  <1>5. ASSUME NEW t \in Threads, RenameMove(t) PROVE ServesInv'
    BY <1>0, <1>5, RenameMoveServes
  <1>6. ASSUME NEW t \in Threads, Open(t) PROVE ServesInv'
    BY <1>0, <1>6, OpenServes
  <1>7. ASSUME NEW t \in Threads, Setattr(t) PROVE ServesInv'
    BY <1>0, <1>7, SetattrServes
  <1>8. ASSUME NEW t \in Threads, ReadDir(t) PROVE ServesInv'
    BY <1>0, <1>8, ReadDirServes
  <1>9. ASSUME NEW t \in Threads, List(t) PROVE ServesInv'
    BY <1>0, <1>9, ListServes
  <1>10. ASSUME NEW t \in Threads, Enter(t) PROVE ServesInv'
    BY <1>0, <1>10, EnterStepServes
  <1>11. ASSUME NEW t \in Threads, RenameEnter(t) PROVE ServesInv'
    BY <1>0, <1>11, RenameEnterServes
  <1>12. ASSUME NEW t \in Threads, Reply(t) PROVE ServesInv'
    BY <1>0, <1>12, ReplyServes
  <1>13. ASSUME NEW i \in Inos, Forget(i) PROVE ServesInv'
    BY <1>0, <1>13, ForgetServes
  <1>14. ASSUME UNCHANGED <<load, tree, table, req, known, named>> PROVE ServesInv'
    <2>1. TreeInv' /\ PathInv' /\ ServedInv'
      BY <1>14, ServedSame
    <2>2. \A t \in Threads : req[t] # Idle => Fine(t)'
      BY <1>14, OthersFine DEF ServesInv
    <2>3. \A t, u \in Threads : Apart(t, u)' = Apart(t, u)
      BY <1>14 DEF Apart, InDir, Dirs, Child
    <2>4. WorkInv'
      BY <1>14, <2>2, <2>3 DEF WorkInv, ServesInv
    <2> QED BY <1>0, <1>14, <2>1, <2>4 DEF ServesInv, Plain
  <1>15. ASSUME NEW o \in Objects, Release(o) PROVE ServesInv'
    BY <1>14, <1>15 DEF Release
  <1>16. CASE UNCHANGED vars
    BY <1>14, <1>16 DEF vars
  <1> QED BY <1>1, <1>2, <1>3, <1>4, <1>5, <1>6, <1>7, <1>8, <1>9, <1>10, <1>11, <1>12, <1>13, <1>15, <1>16 DEF Next

\* Whatever requests are under way: a number the kernel has of an object that is
\* in the tree leads to it, unless a rename has moved it and is about to say so,
\* and what sets attributes by a number sets those of its object.
THEOREM NumbersServe ==
    ASSUME \A w \in Workloads : w.renames = "fresh" /\ ~w.removed
    PROVE  Spec => []NumberServes
  <1>1. Init => ServesInv
    BY ServesInit DEF Plain, Init
  <1>2. ServesInv => NumberServes
    <2> SUFFICES ASSUME ServesInv PROVE NumberServes
      OBVIOUS
    <2>1. ASSUME NEW i \in Inos \ {Root}, InTree(named[i]),
                 \A t \in Threads : req[t].op = "rename" => req[t].pc # "enter"
          PROVE  /\ by_ino[i].path \in DOMAIN backing /\ backing[by_ino[i].path] = named[i]
                 /\ by_ino[i].path \in DOMAIN by_path /\ by_path[by_ino[i].path] = i
      <3>1. i \in DOMAIN by_ino
        BY <2>1, NumberHere DEF ServesInv
      <3>2. \A t \in Threads : ~Moving(t)
        BY <2>1 DEF Moving
      <3> QED BY <2>1, <3>1, <3>2 DEF ServesInv, ServedInv, PathInv
    <2>2. ASSUME NEW t \in Threads, req[t].op = "setattr" PROVE req[t].obj \in {None, named[req[t].ino]}
      BY <2>2 DEF ServesInv, WorkInv, Fine, SetattrInv, Idle
    <2> QED BY <2>1, <2>2 DEF NumberServes
  <1> QED BY <1>1, <1>2, ServesStep, PTL DEF Spec
=============================================================================
