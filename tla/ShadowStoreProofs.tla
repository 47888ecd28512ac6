-------------------------- MODULE ShadowStoreProofs --------------------------
(***************************************************************************)
(* Theorems about ShadowStore, for any number of files, numbers, threads    *)
(* and directories and any workloads: the state is well-typed               *)
(* (TypeCorrect); and where the workloads are Orderly, whoever looks a path *)
(* up finds what the calls have written (ViewsAreCurrent), and each archive *)
(* implements WriteBackStore (ShadowImplementsWriteBack).  Where also no    *)
(* file moves while it is read, a read of several steps finds what was      *)
(* there at some moment since it began (ReadsAreCurrent).                   *)
(*                                                                         *)
(* The invariant is BaseInv, types and the commit lock, with ViewInv: where *)
(* directories move, that nothing is written (StillInv); elsewhere          *)
(* NameInv, paths and numbers fit each other, but for a rename under way;   *)
(* CallInv, what a call knows of its file still holds when it comes to its  *)
(* session; SessionInv, a session fits the version it lies over; GrowInv;   *)
(* and DataInv, sessions over the archive are what the calls have written.  *)
(*                                                                         *)
(* For reads it takes ReadInv as well: CacheInv, a cached reader is of the  *)
(* archive as it is, or as it was where a commit has just written it and is *)
(* about to evict the reader; HeadInv, the copy of a head is the head; and  *)
(* SeenInv, whatever a read may still come to, in sessions, archive and     *)
(* readers, is among what its block was since it began.                     *)
(***************************************************************************)
EXTENDS ShadowStore, TLAPS

USE DEF Keep, Clear

-----------------------------------------------------------------------------
(* Contents                                                                 *)

LEMMA SizesAreNat == MaxSize \in Nat /\ MaxSize >= 1 /\ NoKeep = MaxSize + 1 /\ Idx = 0 .. MaxSize - 1
  BY BoundsAssumption DEF NoKeep, Idx

LEMMA NotNone ==
  /\ \A n \in Nat : n # None
  /\ \A p \in Paths : p # None
  /\ \A f \in Files : f # None
  /\ \A t \in Threads : t # None
  /\ \A s \in Sessions : s # None
  /\ \A a \in Archives : a # None
  /\ \A c \in Contents : c # None
  /\ \A v \in Vals : v \in Nat /\ v # 0 /\ v # None
  BY NoneAssumption, ValsAssumption

LEMMA ContentFacts ==
    ASSUME NEW c \in Contents
    PROVE  /\ Len(c) \in 0 .. MaxSize /\ DOMAIN c = 1 .. Len(c)
           /\ c \in [1 .. Len(c) -> Vals \cup {0}]
<1>1. PICK n \in 0 .. MaxSize : c \in [1 .. n -> Vals \cup {0}]
  BY DEF Contents
<1>2. n \in Nat
  BY SizesAreNat
<1>3. Len(c) = n
  BY <1>1, <1>2
<1>. QED
  BY <1>1, <1>3

LEMMA ContentIs ==
    ASSUME NEW n \in 0 .. MaxSize, NEW c \in [1 .. n -> Vals \cup {0}]
    PROVE  c \in Contents /\ Len(c) = n
<1>1. n \in Nat
  BY SizesAreNat
<1>. QED
  BY <1>1 DEF Contents

LEMMA BlockType ==
    ASSUME NEW c \in Contents, NEW k \in Nat
    PROVE  Block(c, k) \in Vals \cup {0} /\ (k >= Len(c) => Block(c, k) = 0)
  BY ContentFacts DEF Block

\* Two contents are equal if they have the same size and blocks.
LEMMA SameContent ==
    ASSUME NEW c \in Contents, NEW d \in Contents, Len(c) = Len(d),
           \A k \in Nat : k < Len(c) => Block(c, k) = Block(d, k)
    PROVE  c = d
<1>1. ASSUME NEW j \in 1 .. Len(c) PROVE c[j] = d[j]
  <2>1. j - 1 \in Nat /\ j - 1 < Len(c) /\ j - 1 + 1 = j
    BY ContentFacts
  <2>. QED
    BY <2>1 DEF Block
<1>. QED
  BY <1>1, ContentFacts

-----------------------------------------------------------------------------
(* Types                                                                    *)

Readings == [op : {"get", "head"}, step : {"lookup", "resolve", "open", "fill", "done"},
             ino : Inos, idx : Idx, path : Paths \cup {None}, reader : Archives \cup {None},
             value : Vals \cup {0, None}]
Stats    == [op : {"stat"}, step : {"sessions", "footer", "done"}, ino : Inos, path : Paths,
             value : 0 .. MaxSize \cup {None}]
Puts     == [op : {"put", "sethead"}, step : {"session", "first"}, ino : Inos, idx : Idx, value : Vals,
             size : 1 .. MaxSize, path : Paths \cup {None}]
Cuts     == [op : {"cut"}, step : {"session", "first"}, ino : Inos, idx : 0 .. MaxSize,
             value : {None}, size : 0 .. MaxSize, path : Paths \cup {None}]
Syncs    == [op : {"sync"}, step : {"commit", "bump", "evict", "end"}, ino : Inos]
Renames  == [op : {"rename"}, step : {"map"}, path : Paths, to : Paths]
Calls    == Readings \cup Stats \cup Puts \cup Cuts \cup Syncs \cup Renames \cup {Idle}

\* What a step of a path needs to go on.
StepOK(c) ==
    /\ c.op \in {"get", "head"} /\ c.step = "open" => c.path # None
    /\ c.op \in {"get", "head"} /\ c.step = "fill" => c.reader # None
    /\ c.op \in {"put", "cut", "sethead"} /\ c.step = "first" => c.path # None

TypeInv == TypeOK /\ call \in [Threads -> Calls] /\ \A t \in Threads : StepOK(call[t])

LEMMA CallFacts ==
    ASSUME NEW c \in Calls
    PROVE  /\ c.op \in {"get", "head"} => c \in Readings
           /\ c.op = "stat" => c \in Stats
           /\ c.op \in {"put", "sethead"} => c \in Puts
           /\ c.op = "cut" => c \in Cuts
           /\ c.op = "sync" => c \in Syncs
           /\ c.op = "rename" => c \in Renames
           /\ c.op \notin {"get", "head", "stat", "put", "cut", "sethead", "sync", "rename"} => c = Idle
           /\ c.op # "idle" => c # Idle
  BY DEF Calls, Readings, Stats, Puts, Cuts, Syncs, Renames, Idle

LEMMA SessionIs == \A n \in 0 .. MaxSize : Session(n) \in Sessions
  BY SizesAreNat, NotNone DEF Session, Sessions

LEMMA AppliedType ==
    ASSUME NEW c \in Calls, c.op \in {"put", "cut", "sethead"}, NEW s \in Sessions
    PROVE  Applied(c, s) \in Sessions
<1>1. CASE c.op = "put"
  <2>1. c \in Puts
    BY <1>1, CallFacts
  <2>2. c.idx \in Idx /\ c.value \in Vals /\ c.size \in 0 .. MaxSize
    BY <2>1, SizesAreNat DEF Puts
  <2>3. PutBlock(s, c.idx, c.value, c.size) \in Sessions
    BY <2>2 DEF Sessions, PutBlock
  <2>. QED
    BY <1>1, <2>3 DEF Applied
<1>2. CASE c.op = "sethead"
  <2>1. c \in Puts
    BY <1>2, CallFacts
  <2>. QED
    BY <1>2, <2>1, SizesAreNat DEF Puts, Sessions, Applied
<1>3. CASE c.op = "cut"
  <2>1. c \in Cuts
    BY <1>3, CallFacts
  <2>. DEFINE dirty == [k \in Idx |-> IF k < c.idx THEN s.dirty[k] ELSE None]
              keep == IF c.idx < s.keep THEN c.idx ELSE s.keep
              head == IF c.idx = 0 THEN Clear ELSE s.head
  <2>3. c.idx \in 0 .. MaxSize /\ c.size \in 0 .. MaxSize
    BY <2>1 DEF Cuts
  <2>4. dirty \in [Idx -> Vals \cup {0, None}] /\ keep \in 0 .. NoKeep /\ head \in {Keep, Clear} \cup Vals
    BY <2>3, SizesAreNat DEF Sessions
  <2>5. TruncateBlocks(s, c.idx, c.size) = [dirty |-> dirty, size |-> c.size, keep |-> keep, head |-> head]
    <3>1. s = [dirty |-> s.dirty, size |-> s.size, keep |-> s.keep, head |-> s.head]
      BY DEF Sessions
    <3>2. TruncateBlocks(s, c.idx, c.size)
              = [s EXCEPT !.dirty = dirty, !.keep = keep, !.size = c.size, !.head = head]
      BY DEF TruncateBlocks
    <3>. HIDE DEF dirty, keep, head
    <3>. QED
      BY <3>1, <3>2
  <2>2. TruncateBlocks(s, c.idx, c.size) \in Sessions
    BY <2>3, <2>4, <2>5 DEF Sessions
  <2>. QED
    BY <1>3, <2>2 DEF Applied
<1>. QED
  BY <1>1, <1>2, <1>3

LEMMA MergedType ==
    ASSUME NEW a \in Sessions, NEW f \in Sessions
    PROVE  Merged(a, f) \in Sessions
  BY SizesAreNat DEF Merged, Sessions

\* What a commit writes.
Changed(s) == s.keep # NoKeep \/ \E k \in Idx : s.dirty[k] # None
NewSize(s, a) == IF Changed(s) THEN s.size ELSE Len(a.blocks)
NewBlock(s, a, k) == IF s.dirty[k] # None THEN s.dirty[k] ELSE IF k < s.keep THEN Block(a.blocks, k) ELSE 0

LEMMA CommittedIs ==
    ASSUME NEW s \in Sessions, NEW a \in Archives
    PROVE  /\ Committed(s, a) \in Archives
           /\ Len(Committed(s, a).blocks) = NewSize(s, a)
           /\ \A k \in Idx : k < NewSize(s, a) => Block(Committed(s, a).blocks, k) = NewBlock(s, a, k)
<1>. DEFINE size == NewSize(s, a)
            b == [k \in 1 .. size |-> NewBlock(s, a, k - 1)]
<1>1. a.blocks \in Contents /\ size \in 0 .. MaxSize
  BY ContentFacts DEF Archives, Sessions, NewSize
<1>2. \A k \in Idx : NewBlock(s, a, k) \in Vals \cup {0}
  BY <1>1, BlockType, SizesAreNat DEF NewBlock, Sessions
<1>3. \A k \in 1 .. size : k - 1 \in Idx
  BY <1>1, SizesAreNat
<1>4. b \in [1 .. size -> Vals \cup {0}]
  BY <1>2, <1>3
<1>5. b \in Contents /\ Len(b) = size
  BY <1>1, <1>4, ContentIs
<1>6. Committed(s, a).blocks = b
  BY DEF Committed, Changed, NewSize, NewBlock
<1>7. Committed(s, a).head \in Vals \cup {None}
  BY DEF Committed, Sessions, Archives
<1>8. Committed(s, a) \in Archives
  BY <1>5, <1>6, <1>7 DEF Committed, Archives
<1>9. \A k \in Idx : k < size => Block(b, k) = NewBlock(s, a, k)
  <2>. SUFFICES ASSUME NEW k \in Idx, k < size PROVE Block(b, k) = NewBlock(s, a, k)
    OBVIOUS
  <2>1. k + 1 \in 1 .. size /\ k + 1 - 1 = k
    BY <1>1, SizesAreNat
  <2>3. \A j \in 1 .. size : b[j] = NewBlock(s, a, j - 1)
    OBVIOUS
  <2>. HIDE DEF b, size
  <2>2. b[k + 1] = NewBlock(s, a, k)
    BY <2>1, <2>3, SizesAreNat
  <2>. QED
    BY <2>2, <1>5 DEF Block
<1>. QED
  BY <1>5, <1>6, <1>8, <1>9

LEMMA WrittenIs ==
    ASSUME NEW c \in Contents, NEW k \in Idx, NEW v \in Vals
    PROVE  /\ Written(c, k, v) \in Contents
           /\ Len(Written(c, k, v)) = IF k < Len(c) THEN Len(c) ELSE k + 1
           /\ \A j \in Nat : Block(Written(c, k, v), j) = IF j = k THEN v ELSE Block(c, j)
<1>. DEFINE n == IF k < Len(c) THEN Len(c) ELSE k + 1
            b == [j \in 1 .. n |-> IF j = k + 1 THEN v ELSE Block(c, j - 1)]
<1>1. n \in 0 .. MaxSize /\ Len(c) \in Nat /\ k \in Nat
  BY ContentFacts, SizesAreNat
<1>2. b \in [1 .. n -> Vals \cup {0}]
  <2>1. ASSUME NEW j \in 1 .. n PROVE b[j] \in Vals \cup {0}
    <3>1. j - 1 \in Nat
      BY <1>1
    <3>. QED
      BY <3>1, BlockType
  <2>. QED
    BY <2>1
<1>3. b \in Contents /\ Len(b) = n
  BY <1>1, <1>2, ContentIs
<1>4. ASSUME NEW j \in Nat PROVE Block(b, j) = IF j = k THEN v ELSE Block(c, j)
  <2>1. CASE j < n
    <3>1. j + 1 \in 1 .. n /\ j + 1 - 1 = j
      BY <1>1, <2>1
    <3>2. b[j + 1] = IF j + 1 = k + 1 THEN v ELSE Block(c, j)
      BY <3>1
    <3>. QED
      BY <1>1, <1>3, <2>1, <3>2 DEF Block
  <2>2. CASE ~(j < n)
    BY <1>1, <1>3, <2>2 DEF Block
  <2>. QED
    BY <2>1, <2>2
<1>. QED
  BY <1>3, <1>4 DEF Written

\* A truncation, or an extension with zeros.
Resized(c, n) == [k \in 1 .. n |-> Block(c, k - 1)]
LEMMA ResizedIs ==
    ASSUME NEW c \in Contents, NEW n \in 0 .. MaxSize
    PROVE  /\ Resized(c, n) \in Contents /\ Len(Resized(c, n)) = n
           /\ \A j \in Nat : Block(Resized(c, n), j) = IF j < n THEN Block(c, j) ELSE 0
<1>1. Resized(c, n) \in [1 .. n -> Vals \cup {0}]
  <2>1. ASSUME NEW j \in 1 .. n PROVE Block(c, j - 1) \in Vals \cup {0}
    <3>1. j - 1 \in Nat
      BY SizesAreNat
    <3>. QED
      BY <3>1, BlockType
  <2>. QED
    BY <2>1 DEF Resized
<1>2. Resized(c, n) \in Contents /\ Len(Resized(c, n)) = n
  BY <1>1, ContentIs
<1>3. ASSUME NEW j \in Nat PROVE Block(Resized(c, n), j) = IF j < n THEN Block(c, j) ELSE 0
  <2>1. CASE j < n
    <3>1. j + 1 \in 1 .. n /\ j + 1 - 1 = j
      BY SizesAreNat, <2>1
    <3>. QED
      BY <1>2, <2>1, <3>1 DEF Block, Resized
  <2>2. CASE ~(j < n)
    BY <1>2, <2>2 DEF Block
  <2>. QED
    BY <2>1, <2>2
<1>. QED
  BY <1>2, <1>3

\* The commit lock: who commits or renames holds it, and a session is in
\* `flushing` as long as it is committed.
LockInv ==
    /\ \A t \in Threads : call[t].op \in {"sync", "rename"} => committer = t
    /\ \A t \in Threads : call[t].op = "sync" => flushing[call[t].ino] # None /\ Mapped(call[t].ino)
    /\ \A i \in Inos : flushing[i] # None => \E t \in Threads : call[t].op = "sync" /\ call[t].ino = i

LEMMA GotoType ==
    ASSUME TypeInv, NEW t \in Threads, NEW c \in Calls, StepOK(c), Goto(t, c)
    PROVE  call' \in [Threads -> Calls] /\ \A u \in Threads : StepOK(call'[u])
  BY DEF TypeInv, Goto

LEMMA IdleType == Idle \in Calls /\ StepOK(Idle)
  BY DEF Calls, StepOK, Idle

LEMMA ReturnType ==
    ASSUME TypeInv, NEW t \in Threads, Return(t)
    PROVE  call' \in [Threads -> Calls] /\ \A u \in Threads : StepOK(call'[u])
  BY GotoType, IdleType DEF Return

LEMMA AnswerType ==
    ASSUME TypeInv, NEW t \in Threads, call[t].op \in {"get", "head"},
           NEW r \in Archives \cup {None}, Answer(t, r)
    PROVE  call' \in [Threads -> Calls] /\ \A u \in Threads : StepOK(call'[u])
<1>. DEFINE end(v) == [call[t] EXCEPT !.step = "done", !.value = v]
<1>1. call[t] \in Readings
  BY CallFacts DEF TypeInv
<1>2. \A v \in Vals \cup {0, None} : end(v) \in Calls /\ StepOK(end(v))
  BY <1>1 DEF Readings, Calls, StepOK
<1>3. call[t].idx \in Nat
  BY <1>1, SizesAreNat DEF Readings
<1>4. ASSUME r # None PROVE Block(r.blocks, call[t].idx) \in Vals \cup {0} /\ r.head \in Vals \cup {None}
  <2>1. r \in Archives
    BY <1>4
  <2>2. r.blocks \in Contents /\ r.head \in Vals \cup {None}
    BY <2>1 DEF Archives
  <2>. QED
    BY <2>2, <1>3, BlockType
<1>5. CASE Return(t)
  BY <1>5, ReturnType
<1>6. CASE \E v \in Vals \cup {0, None} : Goto(t, end(v))
  BY <1>2, <1>6, GotoType
<1>7. Return(t) \/ \E v \in Vals \cup {0, None} : Goto(t, end(v))
  <2>. HIDE DEF end
  <2>1. CASE call[t].op = "get" /\ r = None
    BY <2>1 DEF Answer, end
  <2>2. CASE call[t].op = "get" /\ r # None
    BY <2>2, <1>4 DEF Answer, end
  <2>3. CASE call[t].op # "get"
    BY <2>3, <1>4 DEF Answer, end
  <2>. QED
    BY <2>1, <2>2, <2>3
<1>. QED
  BY <1>5, <1>6, <1>7

\* What a change of a session does to it.
LEMMA AppliedIs ==
    ASSUME NEW c \in Calls, c.op \in {"put", "cut", "sethead"}, NEW s \in Sessions
    PROVE  LET new == Applied(c, s) IN
           /\ c.op = "put" =>
                /\ \A k \in Idx : new.dirty[k] = IF k = c.idx THEN c.value ELSE s.dirty[k]
                /\ new.size = c.size /\ new.keep = s.keep
                /\ new.head = IF c.idx = 0 THEN Clear ELSE s.head
           /\ c.op = "cut" =>
                /\ \A k \in Idx : new.dirty[k] = IF k < c.idx THEN s.dirty[k] ELSE None
                /\ new.size = c.size /\ new.keep = IF c.idx < s.keep THEN c.idx ELSE s.keep
                /\ new.head = IF c.idx = 0 THEN Clear ELSE s.head
           /\ c.op = "sethead" =>
                /\ new.dirty = s.dirty /\ new.size = s.size /\ new.keep = s.keep
                /\ new.head = c.value
<1>1. CASE c.op = "put"
  BY <1>1 DEF Applied, PutBlock, Sessions
<1>2. CASE c.op = "sethead"
  BY <1>2 DEF Applied, Sessions
<1>3. CASE c.op = "cut"
  <2>. DEFINE dirty == [k \in Idx |-> IF k < c.idx THEN s.dirty[k] ELSE None]
              keep == IF c.idx < s.keep THEN c.idx ELSE s.keep
              head == IF c.idx = 0 THEN Clear ELSE s.head
              new == [s EXCEPT !.dirty = dirty, !.keep = keep, !.size = c.size, !.head = head]
  <2>1. Applied(c, s) = new
    BY <1>3 DEF Applied, TruncateBlocks
  <2>2. s = [dirty |-> s.dirty, size |-> s.size, keep |-> s.keep, head |-> s.head]
    BY DEF Sessions
  <2>3. \A k \in Idx : dirty[k] = IF k < c.idx THEN s.dirty[k] ELSE None
    OBVIOUS
  <2>. HIDE DEF dirty
  <2>4. new.dirty = dirty /\ new.size = c.size /\ new.keep = keep /\ new.head = head
    BY <2>2
  <2>. QED
    BY <1>3, <2>1, <2>3, <2>4
<1>. QED
  BY <1>1, <1>2, <1>3

LEMMA SessionFacts ==
    ASSUME NEW s \in Sessions
    PROVE  /\ s.size \in 0 .. MaxSize /\ s.keep \in 0 .. NoKeep
           /\ \A k \in Idx : s.dirty[k] \in Vals \cup {0, None}
           /\ s.head \in {Keep, Clear} \cup Vals
  BY DEF Sessions

LEMMA MergedIs ==
    ASSUME NEW a \in Sessions, NEW f \in Sessions
    PROVE  LET m == Merged(a, f) IN
           /\ \A k \in Idx : m.dirty[k] = IF a.dirty[k] # None THEN a.dirty[k]
                                          ELSE IF k < a.keep THEN f.dirty[k] ELSE None
           /\ m.size = a.size
           /\ m.keep = IF a.keep # NoKeep THEN a.keep ELSE f.keep
           /\ m.head = IF a.head # Keep THEN a.head
                       ELSE IF f.head \in Vals /\ a.size < 1 THEN Clear ELSE f.head
  BY DEF Merged

LEMMA FieldTypes ==
    ASSUME TypeInv, NEW t \in Threads
    PROVE  /\ call[t] \in Calls /\ StepOK(call[t])
           /\ call[t].op \in {"get", "head"} => call[t] \in Readings
           /\ call[t].op = "stat" => call[t] \in Stats
           /\ call[t].op \in {"put", "sethead"} => call[t] \in Puts
           /\ call[t].op = "cut" => call[t] \in Cuts
           /\ call[t].op = "sync" => call[t] \in Syncs
           /\ call[t].op = "rename" => call[t] \in Renames
           /\ call[t].op \in {"get", "head", "stat", "put", "sethead", "cut", "sync"} => call[t].ino \in Inos
<1>1. call[t] \in Calls /\ StepOK(call[t])
  BY DEF TypeInv
<1>. QED
  BY <1>1, CallFacts DEF Readings, Stats, Puts, Cuts, Syncs

LEMMA ReadingStep ==
    ASSUME TypeInv, NEW t \in Threads, Reading(t)
    PROVE  /\ call[t].step \in {"lookup", "resolve", "open", "fill"} => call[t] \in Readings
           /\ call[t].step \in {"sessions", "footer"} => call[t] \in Stats
  BY FieldTypes DEF Reading, Readings, Stats

LEMMA SizeType ==
    ASSUME TypeInv, NEW i \in Inos, NEW f \in Files PROVE Size(i, f) \in 0 .. MaxSize
<1>1. /\ active[i] \in Sessions \cup {None} /\ flushing[i] \in Sessions \cup {None}
      /\ disk[f].blocks \in Contents
  BY DEF TypeInv, TypeOK, Archives
<1>. QED
  BY <1>1, SessionFacts, ContentFacts DEF Size

LEMMA TypeGet ==
    ASSUME TypeInv, UNCHANGED workload, NEW t \in Threads, Get(t) PROVE TypeInv'
<1>0. call[t] \in Calls /\ StepOK(call[t])
  BY FieldTypes
<1>1. CASE LookupReader(t)
  <2>1. call[t] \in Readings /\ call[t].op \in {"get", "head"} /\ call[t].ino \in Inos
    BY <1>1, ReadingStep DEF LookupReader, Readings
  <2>2. readers[call[t].ino] \in Archives \cup {None}
    BY <2>1 DEF TypeInv, TypeOK
  <2>3. [call[t] EXCEPT !.step = "resolve"] \in Calls /\ StepOK([call[t] EXCEPT !.step = "resolve"])
    BY <2>1 DEF Readings, Calls, StepOK
  <2>4. call' \in [Threads -> Calls] /\ \A u \in Threads : StepOK(call'[u])
    BY <1>1, <2>1, <2>2, <2>3, AnswerType, GotoType DEF LookupReader, Step
  <2>5. fresh' \in [Threads -> BOOLEAN]
    BY <1>1 DEF LookupReader, TypeInv, TypeOK
  <2>. QED
    BY <1>1, <2>4, <2>5 DEF LookupReader, TypeInv, TypeOK, namespace, sessions, Mapped
<1>2. CASE Resolve(t)
  <2>1. call[t] \in Readings /\ call[t].op \in {"get", "head"} /\ call[t].ino \in Inos
    BY <1>2, ReadingStep DEF Resolve, Readings
  <2>2. by_ino[call[t].ino] \in Paths \cup {None}
    BY <2>1 DEF TypeInv, TypeOK
  <2>3. \A p \in Paths : /\ [call[t] EXCEPT !.step = "open", !.path = p] \in Calls
                         /\ StepOK([call[t] EXCEPT !.step = "open", !.path = p])
    BY <2>1, NotNone DEF Readings, Calls, StepOK
  <2>4. call' \in [Threads -> Calls] /\ \A u \in Threads : StepOK(call'[u])
    BY <1>2, <2>1, <2>2, <2>3, AnswerType, GotoType DEF Resolve
  <2>. QED
    BY <1>2, <2>4 DEF Resolve, TypeInv, TypeOK, namespace, sessions, Mapped
<1>3. CASE Open(t)
  <2>1. call[t] \in Readings /\ call[t].op \in {"get", "head"} /\ call[t].path \in Paths
    BY <1>0, <1>3, ReadingStep DEF Open, Readings, StepOK
  <2>2. tree[call[t].path] \in Files \cup {None} /\ disk \in [Files -> Archives]
    BY <2>1 DEF TypeInv, TypeOK
  <2>3. \A r \in Archives : /\ [call[t] EXCEPT !.step = "fill", !.reader = r] \in Calls
                            /\ StepOK([call[t] EXCEPT !.step = "fill", !.reader = r])
    BY <2>1, NotNone DEF Readings, Calls, StepOK
  <2>4. call' \in [Threads -> Calls] /\ \A u \in Threads : StepOK(call'[u])
    BY <1>3, <2>1, <2>2, <2>3, AnswerType, GotoType DEF Open
  <2>. QED
    BY <1>3, <2>4 DEF Open, TypeInv, TypeOK, namespace, sessions, Mapped
<1>4. CASE Fill(t)
  <2>1. call[t] \in Readings /\ call[t].op \in {"get", "head"} /\ call[t].ino \in Inos
        /\ call[t].reader \in Archives
    BY <1>0, <1>4, ReadingStep DEF Fill, Readings, StepOK
  <2>2. readers \in [Inos -> Archives \cup {None}]
    BY DEF TypeInv, TypeOK
  <2>. DEFINE r == IF readers[call[t].ino] # None THEN readers[call[t].ino] ELSE call[t].reader
  <2>3. r \in Archives \cup {None} /\ r \in Archives
    BY <2>1, <2>2
  <2>4. Answer(t, r) /\ readers' = (IF fresh[t] THEN [readers EXCEPT ![call[t].ino] = r] ELSE readers)
    BY <1>4 DEF Fill
  <2>5. call' \in [Threads -> Calls] /\ \A u \in Threads : StepOK(call'[u])
    BY <2>1, <2>3, <2>4, AnswerType
  <2>6. readers' \in [Inos -> Archives \cup {None}]
    BY <2>1, <2>2, <2>3, <2>4
  <2>. QED
    BY <1>4, <2>5, <2>6 DEF Fill, TypeInv, TypeOK, namespace, sessions, Mapped
<1>5. CASE Done(t)
  BY <1>5, ReturnType DEF Done, TypeInv, TypeOK, namespace, sessions, Mapped
<1>. QED
  BY <1>1, <1>2, <1>3, <1>4, <1>5 DEF Get

LEMMA TypeStat ==
    ASSUME TypeInv, UNCHANGED workload, NEW t \in Threads, Stat(t) PROVE TypeInv'
<1>1. call[t].op = "stat" /\ call[t] \in Stats
  BY FieldTypes DEF Stat, AttrFromMeta, ReadFooterGeometry, At
<1>2. \A n \in 0 .. MaxSize : /\ [call[t] EXCEPT !.step = "done", !.value = n] \in Calls
                             /\ StepOK([call[t] EXCEPT !.step = "done", !.value = n])
  BY <1>1 DEF Stats, Calls, StepOK
<1>3. [call[t] EXCEPT !.step = "footer"] \in Calls /\ StepOK([call[t] EXCEPT !.step = "footer"])
  BY <1>1 DEF Stats, Calls, StepOK
<1>4. /\ active[call[t].ino] \in Sessions \cup {None} /\ flushing[call[t].ino] \in Sessions \cup {None}
      /\ tree[call[t].path] \in Files \cup {None} /\ disk \in [Files -> Archives]
  BY <1>1 DEF Stats, TypeInv, TypeOK
<1>5. call' \in [Threads -> Calls] /\ \A u \in Threads : StepOK(call'[u])
  <2>1. CASE AttrFromMeta(t)
    BY <1>2, <1>3, <1>4, <2>1, SessionFacts, GotoType DEF AttrFromMeta, Step
  <2>2. CASE ReadFooterGeometry(t)
    <3>1. tree[call[t].path] # None => disk[tree[call[t].path]].blocks \in Contents
      BY <1>4 DEF Archives
    <3>. QED
      BY <1>2, <3>1, <2>2, ContentFacts, GotoType, ReturnType DEF ReadFooterGeometry
  <2>. QED
    BY <2>1, <2>2 DEF Stat
<1>. QED
  BY <1>5 DEF Stat, AttrFromMeta, ReadFooterGeometry, TypeInv, TypeOK, namespace, sessions, Mapped

LEMMA TypeStart ==
    ASSUME TypeInv, UNCHANGED workload, NEW t \in Threads, NEW i \in Inos,
           \/ StartHead(t, i) \/ StartStat(t, i) \/ \E k \in Idx : StartGet(t, i, k)
           \/ \E k \in Idx, v \in Vals : StartPut(t, i, k, v)
           \/ \E n \in 0 .. MaxSize : StartCut(t, i, n)
    PROVE  TypeInv'
<1>0. named[i] \in Files \cup {None} /\ workload.changes \in Nat /\ by_ino[i] \in Paths \cup {None}
  BY WorkloadsAssumption DEF TypeInv, TypeOK
<1>1. CASE StartHead(t, i) \/ \E k \in Idx : StartGet(t, i, k)
  <2>1. PICK c : Goto(t, c) /\ c \in Calls /\ StepOK(c)
    <3>1. 0 \in Idx
      BY SizesAreNat
    <3>2. \A op \in {"get", "head"}, k \in Idx :
            LET c == [op |-> op, step |-> "lookup", ino |-> i, idx |-> k, path |-> None,
                      reader |-> None, value |-> None]
            IN c \in Calls /\ StepOK(c)
      BY DEF Calls, Readings, StepOK
    <3>. QED
      BY <1>1, <3>1, <3>2 DEF StartHead, StartGet
  <2>2. call' \in [Threads -> Calls] /\ \A u \in Threads : StepOK(call'[u])
    BY <2>1, GotoType
  <2>. QED
    BY <1>1, <2>2 DEF StartHead, StartGet, TypeInv, TypeOK, namespace, sessions, Mapped
<1>2. CASE StartStat(t, i)
  <2>1. by_ino[i] \in Paths
    BY <1>0, <1>2 DEF StartStat, MayCall, Mapped
  <2>. DEFINE c == [op |-> "stat", step |-> "sessions", ino |-> i, path |-> by_ino[i], value |-> None]
  <2>2. c \in Calls /\ StepOK(c)
    BY <2>1 DEF Calls, Stats, StepOK
  <2>3. call' \in [Threads -> Calls] /\ \A u \in Threads : StepOK(call'[u])
    BY <1>2, <2>2, GotoType DEF StartStat
  <2>. QED
    BY <1>2, <2>3 DEF StartStat, TypeInv, TypeOK, namespace, sessions, Mapped
<1>3. ASSUME NEW k \in Idx, NEW v \in Vals, StartPut(t, i, k, v) PROVE TypeInv'
  <2>. DEFINE size == Size(i, named[i])
              c == [op |-> "put", step |-> "session", ino |-> i, idx |-> k, value |-> v,
                    size |-> IF k < size THEN size ELSE k + 1, path |-> None]
  <2>1. size \in 0 .. MaxSize
    BY <1>0, <1>3, SizeType DEF StartPut, Exists
  <2>2. (IF k < size THEN size ELSE k + 1) \in 1 .. MaxSize
    BY <2>1, SizesAreNat
  <2>3. c \in Calls /\ StepOK(c)
    BY <2>2 DEF Calls, Puts, StepOK
  <2>4. call' \in [Threads -> Calls] /\ \A u \in Threads : StepOK(call'[u])
    BY <1>3, <2>3, GotoType DEF StartPut
  <2>5. changes' \in 0 .. workload'.changes
    BY <1>0, <1>3 DEF StartPut, TypeInv, TypeOK
  <2>. QED
    BY <1>3, <2>4, <2>5 DEF StartPut, TypeInv, TypeOK, namespace, sessions, Mapped
<1>4. ASSUME NEW n \in 0 .. MaxSize, StartCut(t, i, n) PROVE TypeInv'
  <2>. DEFINE size == Size(i, named[i])
              c == [op |-> "cut", step |-> "session", ino |-> i, idx |-> IF n < size THEN n ELSE size,
                    value |-> None, size |-> n, path |-> None]
  <2>1. size \in 0 .. MaxSize
    BY <1>0, <1>4, SizeType DEF StartCut, Exists
  <2>2. c \in Calls /\ StepOK(c)
    BY <2>1 DEF Calls, Cuts, StepOK
  <2>3. call' \in [Threads -> Calls] /\ \A u \in Threads : StepOK(call'[u])
    BY <1>4, <2>2, GotoType DEF StartCut
  <2>4. changes' \in 0 .. workload'.changes
    BY <1>0, <1>4 DEF StartCut, TypeInv, TypeOK
  <2>. QED
    BY <1>4, <2>3, <2>4 DEF StartCut, TypeInv, TypeOK, namespace, sessions, Mapped
<1>. QED
  BY <1>1, <1>2, <1>3, <1>4

LEMMA ChangeType ==
    ASSUME TypeInv, NEW t \in Threads, call[t].op \in {"put", "cut", "sethead"},
           NEW s \in Sessions, Change(t, s)
    PROVE  /\ active' \in [Inos -> Sessions \cup {None}]
           /\ latest' \in [Files -> Contents]
           /\ call' \in [Threads -> Calls] /\ \A u \in Threads : StepOK(call'[u])
<1>. DEFINE c == call[t]
<1>1. c \in Calls /\ c.ino \in Inos /\ active \in [Inos -> Sessions \cup {None}]
      /\ latest \in [Files -> Contents]
  BY FieldTypes DEF TypeInv, TypeOK
<1>2. active' \in [Inos -> Sessions \cup {None}]
  <2>1. Applied(c, s) \in Sessions
    BY <1>1, AppliedType
  <2>. QED
    BY <1>1, <2>1 DEF Change
<1>3. latest' \in [Files -> Contents]
  <2>1. CASE c.op = "put"
    <3>1. c.idx \in Idx /\ c.value \in Vals
      BY <2>1, FieldTypes DEF Puts
    <3>2. \A b \in Contents : Written(b, c.idx, c.value) \in Contents
      BY <3>1, WrittenIs
    <3>. QED
      BY <1>1, <2>1, <3>2 DEF Change
  <2>2. CASE c.op = "cut"
    <3>1. c.size \in 0 .. MaxSize
      BY <2>2, FieldTypes DEF Cuts
    <3>2. \A b \in Contents : [k \in 1 .. c.size |-> Block(b, k - 1)] \in Contents
      BY <3>1, ResizedIs DEF Resized
    <3>. QED
      BY <1>1, <2>2, <3>2 DEF Change
  <2>3. CASE c.op = "sethead"
    BY <1>1, <2>3 DEF Change
  <2>. QED
    BY <2>1, <2>2, <2>3
<1>4. call' \in [Threads -> Calls] /\ \A u \in Threads : StepOK(call'[u])
  <2>1. CASE c.op = "put" /\ c.idx = 0 /\ c.size > 1
    <3>. DEFINE h == [c EXCEPT !.op = "sethead", !.step = "session", !.path = None]
    <3>1. c \in Puts
      BY <2>1, FieldTypes
    <3>2. h \in Puts /\ h.step = "session" /\ h.op = "sethead"
      BY <3>1 DEF Puts
    <3>3. h \in Calls /\ StepOK(h)
      BY <3>2 DEF Calls, StepOK
    <3>. QED
      BY <2>1, <3>3, GotoType DEF Change
  <2>. QED
    BY <2>1, ReturnType DEF Change
<1>. QED
  BY <1>2, <1>3, <1>4

LEMMA TypeWrite ==
    ASSUME TypeInv, UNCHANGED workload, NEW t \in Threads, Write(t) PROVE TypeInv'
<1>0. call[t].op \in {"put", "cut", "sethead"} /\ call[t] \in Calls /\ StepOK(call[t]) /\ call[t].ino \in Inos
  BY FieldTypes DEF Write, WithSession, FirstChange
<1>1. /\ active[call[t].ino] \in Sessions \cup {None} /\ flushing[call[t].ino] \in Sessions \cup {None}
      /\ by_ino[call[t].ino] \in Paths \cup {None} /\ disk \in [Files -> Archives]
  BY <1>0 DEF TypeInv, TypeOK
<1>2. CASE WithSession(t) /\ active[call[t].ino] # None
  <2>1. Change(t, active[call[t].ino]) /\ active[call[t].ino] \in Sessions
    BY <1>1, <1>2 DEF WithSession
  <2>. QED
    BY <1>0, <1>2, <2>1, ChangeType DEF WithSession, TypeInv, TypeOK, namespace, Mapped
<1>3. CASE WithSession(t) /\ active[call[t].ino] = None
  <2>1. \A p \in Paths : /\ [call[t] EXCEPT !.step = "first", !.path = p] \in Calls
                         /\ StepOK([call[t] EXCEPT !.step = "first", !.path = p])
    <3>1. call[t] \in Puts \/ call[t] \in Cuts
      BY <1>0, FieldTypes
    <3>. QED
      BY <3>1, NotNone DEF Puts, Cuts, Calls, StepOK
  <2>2. call' \in [Threads -> Calls] /\ \A u \in Threads : StepOK(call'[u])
    BY <1>1, <1>3, <2>1, GotoType, ReturnType DEF WithSession, Mapped
  <2>. QED
    BY <1>3, <2>2 DEF WithSession, TypeInv, TypeOK, namespace, Mapped
<1>4. CASE FirstChange(t)
  <2>. DEFINE f == tree[call[t].path]
              n == IF flushing[call[t].ino] # None THEN flushing[call[t].ino].size
                   ELSE IF f # None THEN Len(disk[f].blocks) ELSE 0
              s == IF active[call[t].ino] # None THEN active[call[t].ino] ELSE Session(n)
  <2>1. call[t].path \in Paths
    BY <1>0, <1>4, FieldTypes DEF FirstChange, StepOK, Puts, Cuts
  <2>2. f \in Files \cup {None}
    BY <2>1 DEF TypeInv, TypeOK
  <2>3. n \in 0 .. MaxSize
    <3>1. f # None => disk[f].blocks \in Contents
      BY <1>1, <2>2 DEF Archives
    <3>. QED
      BY <1>1, <3>1, SessionFacts, ContentFacts, SizesAreNat
  <2>4. s \in Sessions
    BY <1>1, <2>3, SessionIs
  <2>5. Change(t, s)
    BY <1>4 DEF FirstChange
  <2>. QED
    BY <1>0, <1>4, <2>4, <2>5, ChangeType DEF FirstChange, TypeInv, TypeOK, namespace, Mapped
<1>. QED
  BY <1>2, <1>3, <1>4 DEF Write, WithSession

LEMMA TypeSync ==
    ASSUME TypeInv, LockInv, UNCHANGED workload, NEW t \in Threads,
           Commit(t) \/ \E i \in Inos : Swap(t, i)
    PROVE  TypeInv'
<1>1. ASSUME NEW i \in Inos, Swap(t, i) PROVE TypeInv'
  <2>. DEFINE c == [op |-> "sync", step |-> "commit", ino |-> i]
  <2>1. c \in Calls /\ StepOK(c)
    BY DEF Calls, Syncs, StepOK
  <2>2. call' \in [Threads -> Calls] /\ \A u \in Threads : StepOK(call'[u])
    BY <1>1, <2>1, GotoType DEF Swap
  <2>. QED
    BY <1>1, <2>2 DEF Swap, TypeInv, TypeOK, namespace, Mapped
<1>2. ASSUME Commit(t) PROVE call[t] \in Syncs /\ call[t].ino \in Inos
  BY <1>2, FieldTypes DEF Commit, Publish, FailCommit, BumpEpoch, EvictReader, EndCommit, At, Syncs
<1>3. ASSUME Commit(t), NEW s \in {"bump", "evict", "end"}, Step(t, s)
      PROVE  call' \in [Threads -> Calls] /\ \A u \in Threads : StepOK(call'[u])
  <2>1. [call[t] EXCEPT !.step = s] \in Calls /\ StepOK([call[t] EXCEPT !.step = s])
    BY <1>2, <1>3 DEF Syncs, Calls, StepOK
  <2>. QED
    BY <1>3, <2>1, GotoType DEF Step
<1>4. CASE Publish(t)
  <2>1. /\ Target(t) \in Files \cup {None} /\ flushing[call[t].ino] \in Sessions \cup {None}
        /\ disk \in [Files -> Archives]
    BY <1>2, <1>4 DEF Commit, Target, Mapped, TypeInv, TypeOK
  <2>2. flushing[call[t].ino] \in Sessions /\ Target(t) \in Files
    BY <1>4, <2>1 DEF Publish, At, LockInv
  <2>3. disk' \in [Files -> Archives]
    BY <1>4, <2>1, <2>2, CommittedIs DEF Publish
  <2>4. call' \in [Threads -> Calls] /\ \A u \in Threads : StepOK(call'[u])
    BY <1>3, <1>4 DEF Publish, Commit
  <2>. QED
    BY <1>4, <2>3, <2>4 DEF Publish, TypeInv, TypeOK, namespace, sessions, Mapped
<1>5. CASE FailCommit(t)
  <2>1. flushing[call[t].ino] \in Sessions /\ active[call[t].ino] \in Sessions \cup {None}
    BY <1>2, <1>5 DEF Commit, FailCommit, At, LockInv, TypeInv, TypeOK
  <2>2. active' \in [Inos -> Sessions \cup {None}] /\ flushing' \in [Inos -> Sessions \cup {None}]
    BY <1>5, <2>1, MergedType DEF FailCommit, TypeInv, TypeOK
  <2>3. call' \in [Threads -> Calls] /\ \A u \in Threads : StepOK(call'[u])
    BY <1>5, ReturnType DEF FailCommit
  <2>. QED
    BY <1>5, <2>2, <2>3 DEF FailCommit, TypeInv, TypeOK, namespace, Mapped
<1>6. CASE BumpEpoch(t)
  BY <1>3, <1>6 DEF Commit, BumpEpoch, TypeInv, TypeOK, namespace, sessions, Mapped
<1>7. CASE EvictReader(t)
  BY <1>3, <1>7 DEF Commit, EvictReader, TypeInv, TypeOK, namespace, sessions, Mapped
<1>8. CASE EndCommit(t)
  BY <1>8, ReturnType DEF EndCommit, TypeInv, TypeOK, namespace, Mapped
<1>. QED
  BY <1>1, <1>4, <1>5, <1>6, <1>7, <1>8 DEF Commit

\* The namespace.
LEMMA TypeNames ==
    ASSUME TypeInv, UNCHANGED workload,
           \/ \E i \in Inos : Released(i)
           \/ \E p \in Paths, i \in Inos : Lookup(p, i) \/ \E f \in Files : Create(p, f, i)
           \/ \E p \in Paths : Unlink(p)
    PROVE  TypeInv'
<1>0. UNCHANGED call
  BY DEF Released, Lookup, Create, Unlink
<1>00. /\ tree \in [Paths -> Files \cup {None}] /\ by_ino \in [Inos -> Paths \cup {None}]
       /\ named \in [Inos -> Files \cup {None}] /\ readers \in [Inos -> Archives \cup {None}]
       /\ active \in [Inos -> Sessions \cup {None}] /\ flushing \in [Inos -> Sessions \cup {None}]
       /\ disk \in [Files -> Archives] /\ latest \in [Files -> Contents]
       /\ \A j, k \in Inos : Mapped(j) /\ by_ino[j] = by_ino[k] => j = k
  BY DEF TypeInv, TypeOK
<1>1. ASSUME NEW i \in Inos, Released(i) PROVE TypeInv'
  <2>1. fresh' \in [Threads -> BOOLEAN] /\ readers' \in [Inos -> Archives \cup {None}]
    BY <1>00, <1>1 DEF Released, Invalidated
  <2>. QED
    BY <1>1, <2>1 DEF Released, TypeInv, TypeOK, namespace, sessions, Mapped
<1>2. ASSUME NEW p \in Paths, NEW i \in Inos, NEW f \in Files, Intern(p, i, f)
      PROVE  /\ by_ino' \in [Inos -> Paths \cup {None}] /\ named' \in [Inos -> Files \cup {None}]
             /\ \A j, k \in Inos : Mapped(j)' /\ by_ino'[j] = by_ino'[k] => j = k
  <2>1. ASSUME NEW j \in Inos, by_ino[j] = p PROVE j = i
    BY <1>00, <1>2, <2>1, NotNone DEF Intern, InosAt, Mapped
  <2>. QED
    BY <1>00, <1>2, <2>1 DEF Intern, Mapped
<1>3. ASSUME NEW p \in Paths, NEW i \in Inos, Lookup(p, i) PROVE TypeInv'
  <2>1. tree[p] \in Files /\ Intern(p, i, tree[p])
    BY <1>00, <1>3 DEF Lookup
  <2>. QED
    BY <1>2, <1>3, <2>1 DEF Lookup, TypeInv, TypeOK, sessions
<1>4. ASSUME NEW p \in Paths, NEW i \in Inos, NEW f \in Files, Create(p, f, i) PROVE TypeInv'
  <2>1. Empty \in Archives /\ <<>> \in Contents
    <3>1. <<>> \in [1 .. 0 -> Vals \cup {0}] /\ 0 \in 0 .. MaxSize
      BY SizesAreNat
    <3>2. <<>> \in Contents
      BY <3>1 DEF Contents
    <3>. QED
      BY <3>2 DEF Empty, Archives
  <2>2. /\ tree' \in [Paths -> Files \cup {None}] /\ disk' \in [Files -> Archives]
        /\ latest' \in [Files -> Contents]
    BY <1>00, <1>4, <2>1 DEF Create
  <2>. QED
    BY <1>2, <1>4, <2>2 DEF Create, TypeInv, TypeOK, sessions
<1>5. ASSUME NEW p \in Paths, Unlink(p) PROVE TypeInv'
  <2>1. /\ tree' \in [Paths -> Files \cup {None}] /\ by_ino' \in [Inos -> Paths \cup {None}]
        /\ \A j, k \in Inos : Mapped(j)' /\ by_ino'[j] = by_ino'[k] => j = k
    BY <1>00, <1>5 DEF Unlink, Mapped
  <2>2. /\ active' \in [Inos -> Sessions \cup {None}] /\ flushing' \in [Inos -> Sessions \cup {None}]
        /\ readers' \in [Inos -> Archives \cup {None}] /\ fresh' \in [Threads -> BOOLEAN]
    <3>1. CASE InosAt(p) = {}
      BY <1>00, <1>5, <3>1 DEF Unlink, sessions, TypeInv, TypeOK
    <3>2. CASE InosAt(p) # {}
      <4>1. PICK j \in Inos : Dropped(j)
        BY <1>5, <3>2 DEF Unlink, InosAt
      <4>. QED
        BY <1>00, <4>1 DEF Dropped, Invalidated
    <3>. QED
      BY <3>1, <3>2
  <2>. QED
    BY <1>5, <2>1, <2>2 DEF Unlink, TypeInv, TypeOK
<1>. QED
  BY <1>1, <1>3, <1>4, <1>5

LEMMA TypeRename ==
    ASSUME TypeInv, UNCHANGED workload, NEW t \in Threads,
           RenameMap(t) \/ \E p, q \in Paths : RenameFile(t, p, q)
    PROVE  TypeInv'
<1>0. /\ tree \in [Paths -> Files \cup {None}] /\ by_ino \in [Inos -> Paths \cup {None}]
      /\ readers \in [Inos -> Archives \cup {None}]
      /\ active \in [Inos -> Sessions \cup {None}] /\ flushing \in [Inos -> Sessions \cup {None}]
      /\ \A j, k \in Inos : Mapped(j) /\ by_ino[j] = by_ino[k] => j = k
  BY DEF TypeInv, TypeOK
<1>1. ASSUME NEW p \in Paths, NEW q \in Paths, RenameFile(t, p, q) PROVE TypeInv'
  <2>. DEFINE c == [op |-> "rename", step |-> "map", path |-> p, to |-> q]
  <2>1. c \in Calls /\ StepOK(c)
    BY DEF Calls, Renames, StepOK
  <2>2. call' \in [Threads -> Calls] /\ \A u \in Threads : StepOK(call'[u])
    BY <1>1, <2>1, GotoType DEF RenameFile
  <2>3. tree' \in [Paths -> Files \cup {None}]
    BY <1>0, <1>1 DEF RenameFile
  <2>. QED
    BY <1>1, <2>2, <2>3 DEF RenameFile, TypeInv, TypeOK, sessions, Mapped
<1>2. CASE RenameMap(t)
  <2>0. call[t].path \in Paths /\ call[t].to \in Paths
    BY <1>2, FieldTypes DEF RenameMap, At, Renames
  <2>. DEFINE p == call[t].path
              q == call[t].to
  <2>1. /\ by_ino' \in [Inos -> Paths \cup {None}]
        /\ \A j, k \in Inos : Mapped(j)' /\ by_ino'[j] = by_ino'[k] => j = k
    <3>1. by_ino' = [i \in Inos |-> IF by_ino[i] = q THEN None ELSE IF by_ino[i] = p THEN q ELSE by_ino[i]]
      BY <1>2 DEF RenameMap
    <3>. QED
      BY <1>0, <2>0, <3>1, NotNone DEF Mapped
  <2>2. /\ active' \in [Inos -> Sessions \cup {None}] /\ flushing' \in [Inos -> Sessions \cup {None}]
        /\ readers' \in [Inos -> Archives \cup {None}] /\ fresh' \in [Threads -> BOOLEAN]
    <3>1. CASE InosAt(q) = {}
      BY <1>0, <1>2, <3>1 DEF RenameMap, sessions, TypeInv, TypeOK
    <3>2. CASE InosAt(q) # {}
      <4>1. PICK j \in Inos : Dropped(j)
        BY <1>2, <3>2 DEF RenameMap, InosAt
      <4>. QED
        BY <1>0, <4>1 DEF Dropped, Invalidated
    <3>. QED
      BY <3>1, <3>2
  <2>3. call' \in [Threads -> Calls] /\ \A u \in Threads : StepOK(call'[u])
    BY <1>2, ReturnType DEF RenameMap
  <2>. QED
    BY <1>2, <2>1, <2>2, <2>3 DEF RenameMap, TypeInv, TypeOK
<1>. QED
  BY <1>1, <1>2

LEMMA TypeDirs ==
    ASSUME TypeInv, UNCHANGED workload, NEW d \in Dirs,
           Mkdir(d) \/ Rmdir(d) \/ \E e \in Dirs : RenameDir(d, e)
    PROVE  TypeInv'
<1>1. tree' \in [Paths -> Files \cup {None}]
  <2>1. ASSUME NEW e \in Dirs, RenameDir(d, e) PROVE tree' \in [Paths -> Files \cup {None}]
    <3>1. tree \in [Paths -> Files \cup {None}]
      BY DEF TypeInv, TypeOK
    <3>2. ASSUME NEW p \in Paths
          PROVE  (CASE p[1] = e -> tree[<<d, p[2]>>] [] p[1] = d -> None [] OTHER -> tree[p]) \in Files \cup {None}
      BY <3>1 DEF Paths
    <3>. QED
      BY <2>1, <3>2 DEF RenameDir
  <2>. QED
    BY <2>1 DEF Mkdir, Rmdir, TypeInv, TypeOK
<1>2. dirs' \subseteq Dirs
  BY DEF Mkdir, Rmdir, RenameDir, TypeInv, TypeOK
<1>. QED
  BY <1>1, <1>2 DEF Mkdir, Rmdir, RenameDir, TypeInv, TypeOK, sessions, Mapped

LEMMA TypeCrash ==
    ASSUME TypeInv, UNCHANGED workload, Crash PROVE TypeInv'
<1>1. latest' \in [Files -> Contents]
  BY DEF Crash, TypeInv, TypeOK, Archives
<1>2. call' \in [Threads -> Calls] /\ \A u \in Threads : StepOK(call'[u])
  BY IdleType DEF Crash
<1>. QED
  BY <1>1, <1>2 DEF Crash, TypeInv, TypeOK, Mapped

-----------------------------------------------------------------------------
(* The commit lock                                                          *)

\* Steps that neither begin nor end a commit or a rename, and drop no session
\* that is being committed.
LEMMA LockFrame ==
    ASSUME TypeInv, LockInv, UNCHANGED <<flushing, committer>>,
           \A i \in Inos : Mapped(i) => Mapped(i)',
           \A t \in Threads : /\ call'[t].op = "rename" => call[t].op = "rename"
                              /\ call'[t].op = "sync" => call[t].op = "sync" /\ call'[t].ino = call[t].ino
                              /\ call[t].op = "sync" => call'[t].op = "sync" /\ call'[t].ino = call[t].ino
    PROVE  LockInv'
<1>1. \A t \in Threads : call[t].op = "sync" => call[t].ino \in Inos
  BY FieldTypes
<1>. QED
  BY <1>1 DEF LockInv

\* A thread whose call goes on, ends or begins, none of them a commit or a rename.
LEMMA LockGoto ==
    ASSUME TypeInv, LockInv, UNCHANGED <<flushing, committer>>,
           \A i \in Inos : Mapped(i) => Mapped(i)',
           NEW t \in Threads, call[t].op \notin {"sync", "rename"},
           NEW c, c.op \notin {"sync", "rename"}, Goto(t, c)
    PROVE  LockInv'
<1>1. call \in [Threads -> Calls]
  BY DEF TypeInv
<1>2. \A u \in Threads : call'[u] = IF u = t THEN c ELSE call[u]
  BY <1>1 DEF Goto
<1>. QED
  BY <1>2, LockFrame

LEMMA OpIdle == Idle.op = "idle"
  BY DEF Idle

LEMMA GotoIs ==
    ASSUME call \in [Threads -> Calls], NEW t \in Threads, NEW c, Goto(t, c)
    PROVE  call'[t] = c /\ \A u \in Threads \ {t} : call'[u] = call[u]
  BY DEF Goto

\* How a read goes on: it answers, or takes the next step of the cache's fill.
GoesTo(c, d) ==
    \/ \E v : d = [c EXCEPT !.step = "done", !.value = v]
    \/ d = [c EXCEPT !.step = "resolve"]
    \/ \E p : d = [c EXCEPT !.step = "open", !.path = p]
    \/ \E r : d = [c EXCEPT !.step = "fill", !.reader = r]

LEMMA GoesToIs ==
    ASSUME NEW c \in Readings, NEW d, GoesTo(c, d)
    PROVE  d.op = c.op /\ d.ino = c.ino /\ d.idx = c.idx
<1>1. ASSUME NEW v, d = [c EXCEPT !.step = "done", !.value = v] PROVE d.op = c.op /\ d.ino = c.ino /\ d.idx = c.idx
  BY <1>1 DEF Readings
<1>2. CASE d = [c EXCEPT !.step = "resolve"]
  BY <1>2 DEF Readings
<1>3. ASSUME NEW p, d = [c EXCEPT !.step = "open", !.path = p] PROVE d.op = c.op /\ d.ino = c.ino /\ d.idx = c.idx
  BY <1>3 DEF Readings
<1>4. ASSUME NEW r, d = [c EXCEPT !.step = "fill", !.reader = r] PROVE d.op = c.op /\ d.ino = c.ino /\ d.idx = c.idx
  BY <1>4 DEF Readings
<1>. QED
  BY <1>1, <1>2, <1>3, <1>4 DEF GoesTo

\* An answer ends a read or is its last step but one.
LEMMA AnswerGoes ==
    ASSUME call \in [Threads -> Calls], NEW t \in Threads, call[t] \in Readings, NEW r, Answer(t, r)
    PROVE  /\ call'[t] = Idle \/ (GoesTo(call[t], call'[t]) /\ call'[t].step = "done")
           /\ \A u \in Threads \ {t} : call'[u] = call[u]
<1>1. Return(t) \/ \E v : Goto(t, [call[t] EXCEPT !.step = "done", !.value = v])
  BY DEF Answer
<1>2. CASE Return(t)
  BY <1>2, GotoIs DEF Return
<1>3. ASSUME NEW v, Goto(t, [call[t] EXCEPT !.step = "done", !.value = v])
      PROVE  /\ GoesTo(call[t], call'[t]) /\ call'[t].step = "done"
             /\ \A u \in Threads \ {t} : call'[u] = call[u]
  <2>1. call'[t] = [call[t] EXCEPT !.step = "done", !.value = v] /\ \A u \in Threads \ {t} : call'[u] = call[u]
    BY <1>3, GotoIs
  <2>. QED
    BY <2>1 DEF GoesTo, Readings
<1>. QED
  BY <1>1, <1>2, <1>3

\* A read of a block or a head: what its next step is.
LEMMA GetNext ==
    ASSUME TypeInv, NEW t \in Threads, Get(t)
    PROVE  /\ call[t].op \in {"get", "head", "stat"} /\ (call'[t] # Idle => call[t] \in Readings)
           /\ call'[t] = Idle \/ GoesTo(call[t], call'[t])
           /\ Reading(t)' /\ call'[t].step = "fill" => Open(t)
           /\ \A u \in Threads \ {t} : call'[u] = call[u]
<1>0. call \in [Threads -> Calls] /\ call[t].op \in {"get", "head", "stat"} /\ Idle.op = "idle"
  BY OpIdle DEF TypeInv, Get, LookupReader, Resolve, Open, Fill, Done, Reading
<1>1. ASSUME LookupReader(t) \/ Resolve(t) \/ Open(t) \/ Fill(t) PROVE call[t] \in Readings
  BY <1>1, ReadingStep DEF LookupReader, Resolve, Open, Fill
<1>2. CASE LookupReader(t)
  <2>1. CASE \E r : Answer(t, r)
    BY <1>0, <1>1, <1>2, <2>1, AnswerGoes DEF Reading
  <2>2. CASE Goto(t, [call[t] EXCEPT !.step = "resolve"])
    <3>1. call'[t] = [call[t] EXCEPT !.step = "resolve"] /\ \A u \in Threads \ {t} : call'[u] = call[u]
      BY <1>0, <2>2, GotoIs
    <3>2. call'[t].step = "resolve"
      BY <1>1, <1>2, <3>1 DEF Readings
    <3>. QED
      BY <1>0, <1>1, <1>2, <3>1, <3>2 DEF GoesTo
  <2>. QED
    BY <1>2, <2>1, <2>2 DEF LookupReader, Step
<1>3. CASE Resolve(t)
  <2>1. CASE \E r : Answer(t, r)
    BY <1>0, <1>1, <1>3, <2>1, AnswerGoes DEF Reading
  <2>2. ASSUME NEW p, Goto(t, [call[t] EXCEPT !.step = "open", !.path = p])
        PROVE  GoesTo(call[t], call'[t]) /\ call'[t].step = "open" /\ \A u \in Threads \ {t} : call'[u] = call[u]
    <3>1. call'[t] = [call[t] EXCEPT !.step = "open", !.path = p] /\ \A u \in Threads \ {t} : call'[u] = call[u]
      BY <1>0, <2>2, GotoIs
    <3>2. call'[t].step = "open"
      BY <1>1, <1>3, <3>1 DEF Readings
    <3>. QED
      BY <3>1, <3>2 DEF GoesTo
  <2>3. (\E r : Answer(t, r)) \/ \E p : Goto(t, [call[t] EXCEPT !.step = "open", !.path = p])
    BY <1>3 DEF Resolve
  <2>. QED
    BY <1>0, <1>1, <1>3, <2>1, <2>2, <2>3
<1>4. CASE Open(t)
  <2>1. CASE \E r : Answer(t, r)
    BY <1>0, <1>1, <1>4, <2>1, AnswerGoes
  <2>2. ASSUME NEW r, Goto(t, [call[t] EXCEPT !.step = "fill", !.reader = r])
        PROVE  GoesTo(call[t], call'[t]) /\ \A u \in Threads \ {t} : call'[u] = call[u]
    <3>1. call'[t] = [call[t] EXCEPT !.step = "fill", !.reader = r] /\ \A u \in Threads \ {t} : call'[u] = call[u]
      BY <1>0, <2>2, GotoIs
    <3>. QED
      BY <3>1 DEF GoesTo
  <2>3. (\E r : Answer(t, r)) \/ \E r : Goto(t, [call[t] EXCEPT !.step = "fill", !.reader = r])
    BY <1>4 DEF Open
  <2>. QED
    BY <1>0, <1>1, <1>4, <2>1, <2>2, <2>3
<1>5. CASE Fill(t)
  <2>1. \E r : Answer(t, r)
    BY <1>5 DEF Fill
  <2>. QED
    BY <1>0, <1>1, <1>5, <2>1, AnswerGoes DEF Reading
<1>6. CASE Done(t)
  BY <1>0, <1>6, GotoIs DEF Done, Return, Reading
<1>. QED
  BY <1>2, <1>3, <1>4, <1>5, <1>6 DEF Get

\* A read goes on or ends.
LEMMA ReadGoes ==
    ASSUME TypeInv, NEW t \in Threads, Get(t) \/ Stat(t)
    PROVE  /\ call[t].op \in {"get", "head", "stat"} /\ call'[t].op \in {"idle", call[t].op}
           /\ call'[t].op # "idle" => call'[t].ino = call[t].ino
           /\ \A u \in Threads \ {t} : call'[u] = call[u]
           /\ UNCHANGED <<namespace, disk, sessions, committer, latest, changes>>
<1>1. call[t].op \in {"get", "head", "stat"} /\ UNCHANGED <<namespace, disk, sessions, committer, latest, changes>>
  BY DEF Get, Stat, LookupReader, Resolve, Open, Fill, Done, AttrFromMeta, ReadFooterGeometry, Reading, At,
         sessions, namespace
<1>2. call \in [Threads -> Calls] /\ call[t] \in Readings \cup Stats
  BY <1>1, FieldTypes DEF TypeInv
<1>3. /\ call'[t].op \in {"idle", call[t].op} /\ (call'[t].op # "idle" => call'[t].ino = call[t].ino)
      /\ \A u \in Threads \ {t} : call'[u] = call[u]
  <2>2. CASE Get(t)
    BY <2>2, GetNext, GoesToIs, OpIdle
  <2>3. CASE AttrFromMeta(t)
    <3>1. call[t] \in Stats /\ call[t].op = "stat"
      BY <2>3, FieldTypes DEF AttrFromMeta, At
    <3>2. \/ \E v : Goto(t, [call[t] EXCEPT !.step = "done", !.value = v])
          \/ Goto(t, [call[t] EXCEPT !.step = "footer"])
      BY <2>3 DEF AttrFromMeta, Step
    <3>3. ASSUME NEW v, Goto(t, [call[t] EXCEPT !.step = "done", !.value = v])
          PROVE  call'[t].op = call[t].op /\ call'[t].ino = call[t].ino /\ \A u \in Threads \ {t} : call'[u] = call[u]
      BY <1>2, <3>1, <3>3 DEF Goto, Stats
    <3>4. ASSUME Goto(t, [call[t] EXCEPT !.step = "footer"])
          PROVE  call'[t].op = call[t].op /\ call'[t].ino = call[t].ino /\ \A u \in Threads \ {t} : call'[u] = call[u]
      BY <1>2, <3>1, <3>4 DEF Goto, Stats
    <3>. QED
      BY <3>2, <3>3, <3>4
  <2>4. CASE ReadFooterGeometry(t)
    <3>1. call[t] \in Stats /\ call[t].op = "stat"
      BY <2>4, FieldTypes DEF ReadFooterGeometry, At
    <3>2. Return(t) \/ \E v : Goto(t, [call[t] EXCEPT !.step = "done", !.value = v])
      BY <2>4 DEF ReadFooterGeometry
    <3>. QED
      BY <1>2, <3>1, <3>2, OpIdle DEF Return, Goto, Stats
  <2>. QED
    BY <2>2, <2>3, <2>4 DEF Stat
<1>. QED
  BY <1>1, <1>3

LEMMA LockRead ==
    ASSUME TypeInv, LockInv, NEW t \in Threads, Get(t) \/ Stat(t) PROVE LockInv'
<1>1. /\ call[t].op \in {"get", "head", "stat"} /\ call'[t].op \notin {"sync", "rename"}
      /\ UNCHANGED <<flushing, committer, by_ino>> /\ \A u \in Threads \ {t} : call'[u] = call[u]
  <2>1. call[t].op \in {"get", "head", "stat"} /\ call'[t].op \in {"idle", call[t].op}
    BY ReadGoes
  <2>2. UNCHANGED <<namespace, sessions, committer>> /\ \A u \in Threads \ {t} : call'[u] = call[u]
    BY ReadGoes
  <2>. QED
    BY <2>1, <2>2 DEF namespace, sessions
<1>2. \A u \in Threads : /\ call'[u].op = "rename" => call[u].op = "rename"
                         /\ call'[u].op = "sync" => call[u].op = "sync" /\ call'[u].ino = call[u].ino
                         /\ call[u].op = "sync" => call'[u].op = "sync" /\ call'[u].ino = call[u].ino
  BY <1>1
<1>3. \A i \in Inos : Mapped(i) => Mapped(i)'
  BY <1>1 DEF Mapped
<1>4. UNCHANGED <<flushing, committer>>
  BY <1>1
<1>. QED
  BY <1>2, <1>3, <1>4, LockFrame

LEMMA LockStart ==
    ASSUME TypeInv, LockInv, NEW t \in Threads, NEW i \in Inos,
           \/ StartHead(t, i) \/ StartStat(t, i) \/ \E k \in Idx : StartGet(t, i, k)
           \/ \E k \in Idx, v \in Vals : StartPut(t, i, k, v)
           \/ \E n \in 0 .. MaxSize : StartCut(t, i, n)
    PROVE  LockInv'
<1>1. call[t].op = "idle" /\ UNCHANGED <<flushing, committer, by_ino>>
  BY OpIdle DEF StartHead, StartStat, StartGet, StartPut, StartCut, MayCall, sessions, namespace
<1>2. call \in [Threads -> Calls]
  BY DEF TypeInv
<1>3. call'[t].op \notin {"sync", "rename"} /\ \A u \in Threads \ {t} : call'[u] = call[u]
  <2>1. CASE StartHead(t, i)
    BY <1>2, <2>1 DEF StartHead, Goto
  <2>2. CASE StartStat(t, i)
    BY <1>2, <2>2 DEF StartStat, Goto
  <2>3. CASE \E k \in Idx : StartGet(t, i, k)
    BY <1>2, <2>3 DEF StartGet, Goto
  <2>4. CASE \E k \in Idx, v \in Vals : StartPut(t, i, k, v)
    BY <1>2, <2>4 DEF StartPut, Goto
  <2>5. CASE \E n \in 0 .. MaxSize : StartCut(t, i, n)
    BY <1>2, <2>5 DEF StartCut, Goto
  <2>. QED
    BY <2>1, <2>2, <2>3, <2>4, <2>5
<1>. QED
  BY <1>1, <1>3, LockFrame DEF Mapped

\* What a change does to its thread: it goes on with the head or ends.
LEMMA ChangeGoes ==
    ASSUME TypeInv, NEW t \in Threads, NEW s, Change(t, s), call[t].op \in {"put", "cut", "sethead"}
    PROVE  \/ /\ call[t].op = "put" /\ call[t].idx = 0 /\ call[t].size > 1
              /\ Goto(t, [call[t] EXCEPT !.op = "sethead", !.step = "session", !.path = None])
           \/ ~(call[t].op = "put" /\ call[t].idx = 0 /\ call[t].size > 1) /\ Goto(t, Idle)
  BY DEF Change, Return

LEMMA LockWrite ==
    ASSUME TypeInv, LockInv, NEW t \in Threads, Write(t) PROVE LockInv'
<1>1. call[t].op \in {"put", "cut", "sethead"} /\ UNCHANGED <<flushing, committer, by_ino>>
  BY DEF Write, WithSession, FirstChange, namespace
<1>2. PICK c : Goto(t, c) /\ c.op \notin {"sync", "rename"}
  <2>1. call[t] \in Puts \cup Cuts
    BY <1>1, FieldTypes
  <2>2. /\ \A p : [call[t] EXCEPT !.step = "first", !.path = p].op = call[t].op
        /\ [call[t] EXCEPT !.op = "sethead", !.step = "session", !.path = None].op = "sethead"
    BY <2>1 DEF Puts, Cuts
  <2>3. ASSUME NEW s, Change(t, s) PROVE \E c : Goto(t, c) /\ c.op \notin {"sync", "rename"}
    BY <1>1, <2>2, <2>3, ChangeGoes, OpIdle
  <2>4. (\E s : Change(t, s)) \/ Return(t) \/ \E p : Goto(t, [call[t] EXCEPT !.step = "first", !.path = p])
    BY DEF Write, WithSession, FirstChange
  <2>. QED
    BY <1>1, <2>2, <2>3, <2>4, OpIdle DEF Return
<1>. QED
  BY <1>1, <1>2, LockGoto DEF Mapped

LEMMA LockSync ==
    ASSUME TypeInv, LockInv, NEW t \in Threads,
           Commit(t) \/ \E i \in Inos : Swap(t, i)
    PROVE  LockInv'
<1>0. /\ call \in [Threads -> Calls] /\ active \in [Inos -> Sessions \cup {None}]
      /\ flushing \in [Inos -> Sessions \cup {None}] /\ t # None
      /\ \A u \in Threads : call[u].op = "sync" => call[u].ino \in Inos
      /\ \A u \in Threads : call[u].op = "sync" => u = committer
  BY FieldTypes, NotNone DEF TypeInv, TypeOK, LockInv
<1>1. ASSUME NEW i \in Inos, Swap(t, i) PROVE LockInv'
  <2>1. /\ call'[t].op = "sync" /\ call'[t].ino = i /\ \A u \in Threads \ {t} : call'[u] = call[u]
        /\ committer' = t /\ committer = None /\ UNCHANGED by_ino /\ Mapped(i)
        /\ flushing' = [flushing EXCEPT ![i] = active[i]] /\ active[i] # None
    BY <1>0, <1>1 DEF Swap, Goto, MayCall, namespace
  <2>2. \A u \in Threads : call[u].op \notin {"sync", "rename"}
    BY <2>1, NotNone DEF LockInv
  <2>3. \A j \in Inos : flushing[j] = None
    BY <2>2 DEF LockInv
  <2>. QED
    BY <1>0, <2>1, <2>2, <2>3 DEF LockInv, Mapped
<1>2. CASE Publish(t) \/ BumpEpoch(t) \/ EvictReader(t)
  <2>1. call[t].op = "sync" /\ call[t] \in Syncs
    BY <1>2, FieldTypes DEF Publish, BumpEpoch, EvictReader, At
  <2>2. /\ call'[t].op = "sync" /\ call'[t].ino = call[t].ino /\ \A u \in Threads \ {t} : call'[u] = call[u]
        /\ UNCHANGED <<flushing, committer, by_ino>>
    BY <1>0, <1>2, <2>1 DEF Publish, BumpEpoch, EvictReader, Step, Goto, Syncs, namespace, sessions
  <2>. QED
    BY <2>1, <2>2, LockFrame DEF Mapped
<1>3. CASE FailCommit(t) \/ EndCommit(t)
  <2>1. call[t].op = "sync" /\ committer = t
    BY <1>3 DEF FailCommit, EndCommit, At, LockInv
  <2>2. /\ call'[t].op = "idle" /\ \A u \in Threads \ {t} : call'[u] = call[u]
        /\ flushing' = [flushing EXCEPT ![call[t].ino] = None] /\ UNCHANGED by_ino
    BY <1>0, <1>3, OpIdle DEF FailCommit, EndCommit, Return, Goto, namespace
  <2>3. \A u \in Threads \ {t} : call[u].op \notin {"sync", "rename"}
    BY <2>1 DEF LockInv
  <2>. QED
    BY <1>0, <2>1, <2>2, <2>3 DEF LockInv, Mapped
<1>. QED
  BY <1>1, <1>2, <1>3 DEF Commit

LEMMA LockNames ==
    ASSUME TypeInv, LockInv,
           \/ \E i \in Inos : Released(i)
           \/ \E p \in Paths, i \in Inos : Lookup(p, i) \/ \E f \in Files : Create(p, f, i)
           \/ \E p \in Paths : Unlink(p)
    PROVE  LockInv'
<1>1. ASSUME NEW i \in Inos, Released(i) PROVE LockInv'
  BY <1>1, LockFrame DEF Released, namespace, sessions, Mapped
<1>2. ASSUME NEW p \in Paths, NEW i \in Inos, Lookup(p, i) \/ \E f \in Files : Create(p, f, i)
      PROVE  LockInv'
  <2>1. UNCHANGED <<flushing, committer, call>> /\ by_ino' = [by_ino EXCEPT ![i] = p]
    BY <1>2 DEF Lookup, Create, sessions, Intern
  <2>2. \A j \in Inos : Mapped(j) => Mapped(j)'
    BY <2>1, NotNone DEF Mapped
  <2>. QED
    BY <2>1, <2>2, LockFrame
<1>3. ASSUME NEW p \in Paths, Unlink(p) PROVE LockInv'
  <2>1. \A t \in Threads : call[t].op \notin {"sync", "rename"}
    BY <1>3, NotNone DEF Unlink, LockInv
  <2>2. \A j \in Inos : flushing[j] = None
    BY <2>1 DEF LockInv
  <2>3. \A j \in Inos : flushing'[j] = None
    <3>1. CASE InosAt(p) = {}
      BY <1>3, <2>2, <3>1 DEF Unlink, sessions
    <3>2. CASE InosAt(p) # {}
      <4>1. PICK j \in Inos : Dropped(j)
        BY <1>3, <3>2 DEF Unlink, InosAt
      <4>. QED
        BY <2>2, <4>1 DEF Dropped, TypeInv, TypeOK
    <3>. QED
      BY <3>1, <3>2
  <2>. QED
    BY <1>3, <2>1, <2>3 DEF LockInv, Unlink
<1>. QED
  BY <1>1, <1>2, <1>3

LEMMA LockRename ==
    ASSUME TypeInv, LockInv, NEW t \in Threads,
           RenameMap(t) \/ \E p, q \in Paths : RenameFile(t, p, q)
    PROVE  LockInv'
<1>0. call \in [Threads -> Calls] /\ flushing \in [Inos -> Sessions \cup {None}]
  BY DEF TypeInv, TypeOK
<1>1. ASSUME NEW p \in Paths, NEW q \in Paths, RenameFile(t, p, q) PROVE LockInv'
  <2>1. /\ call'[t].op = "rename" /\ \A u \in Threads \ {t} : call'[u] = call[u]
        /\ committer' = t /\ committer = None /\ UNCHANGED <<flushing, by_ino>>
    BY <1>0, <1>1 DEF RenameFile, Goto, sessions
  <2>2. \A u \in Threads : call[u].op \notin {"sync", "rename"}
    BY <2>1, NotNone DEF LockInv
  <2>. QED
    BY <2>1, <2>2 DEF LockInv
<1>2. CASE RenameMap(t)
  <2>1. \A u \in Threads \ {t} : call[u].op \notin {"sync", "rename"}
    BY <1>2 DEF RenameMap, At, LockInv
  <2>2. call[t].op = "rename"
    BY <1>2 DEF RenameMap, At
  <2>3. \A j \in Inos : flushing[j] = None
    BY <2>1, <2>2 DEF LockInv
  <2>4. \A j \in Inos : flushing'[j] = None
    <3>1. CASE InosAt(call[t].to) = {}
      BY <1>2, <2>3, <3>1 DEF RenameMap, sessions
    <3>2. CASE InosAt(call[t].to) # {}
      <4>1. PICK j \in Inos : Dropped(j)
        BY <1>2, <3>2 DEF RenameMap, InosAt
      <4>. QED
        BY <1>0, <2>3, <4>1 DEF Dropped
    <3>. QED
      BY <3>1, <3>2
  <2>5. call'[t].op = "idle" /\ \A u \in Threads \ {t} : call'[u] = call[u]
    BY <1>0, <1>2, OpIdle DEF RenameMap, Return, Goto
  <2>. QED
    BY <2>1, <2>4, <2>5 DEF LockInv
<1>. QED
  BY <1>1, <1>2

LEMMA LockDirs ==
    ASSUME TypeInv, LockInv, NEW d \in Dirs,
           Mkdir(d) \/ Rmdir(d) \/ \E e \in Dirs : RenameDir(d, e)
    PROVE  LockInv'
  BY LockFrame DEF Mkdir, Rmdir, RenameDir, sessions, Mapped

LEMMA LockCrash == ASSUME Crash PROVE LockInv'
  BY OpIdle DEF Crash, LockInv

BaseInv == TypeInv /\ LockInv

LEMMA InitBase == Init => BaseInv
<1>. SUFFICES ASSUME Init PROVE BaseInv
  OBVIOUS
<1>1. PICK f \in Files, v \in Vals :
         /\ tree = [p \in Paths |-> IF p = Home THEN f ELSE None]
         /\ disk = [g \in Files |-> IF g = f THEN [blocks |-> [k \in 1 .. MaxSize |-> v], head |-> v]
                                    ELSE Empty]
  <2>. DEFINE f == CHOOSE f \in Files : TRUE
              v == CHOOSE v \in Vals : TRUE
  <2>1. f \in Files /\ v \in Vals
    BY HomeAssumption, ValsAssumption
  <2>. QED
    BY <2>1 DEF Init
<1>2. /\ Empty \in Archives /\ [blocks |-> [k \in 1 .. MaxSize |-> v], head |-> v] \in Archives
  <2>1. <<>> \in [1 .. 0 -> Vals \cup {0}] /\ 0 \in 0 .. MaxSize /\ MaxSize \in 0 .. MaxSize
    BY SizesAreNat
  <2>2. <<>> \in Contents
    BY <2>1 DEF Contents
  <2>3. [k \in 1 .. MaxSize |-> v] \in Contents
    BY <2>1, ContentIs
  <2>. QED
    BY <2>2, <2>3 DEF Empty, Archives
<1>3. disk \in [Files -> Archives] /\ tree \in [Paths -> Files \cup {None}]
  BY <1>1, <1>2
<1>4. latest \in [Files -> Contents]
  BY <1>3 DEF Init, Archives
<1>5. changes \in 0 .. workload.changes /\ dirs \subseteq Dirs
  BY WorkloadsAssumption, HomeAssumption DEF Init
<1>6. call \in [Threads -> Calls] /\ \A t \in Threads : StepOK(call[t])
  BY IdleType DEF Init
<1>7. LockInv
  BY OpIdle DEF Init, LockInv
<1>. QED
  BY <1>3, <1>4, <1>5, <1>6, <1>7 DEF Init, BaseInv, TypeInv, TypeOK, Mapped

LEMMA NextBase == BaseInv /\ [Next]_vars => BaseInv'
<1>. SUFFICES ASSUME BaseInv, [Next]_vars PROVE BaseInv'
  OBVIOUS
<1>. USE DEF BaseInv
<1>1. CASE UNCHANGED vars
  BY <1>1 DEF vars, namespace, TypeInv, TypeOK, LockInv, Mapped
<1>2. CASE Next
  <2>. UNCHANGED workload
    BY <1>2 DEF Next
  <2>1. ASSUME NEW t \in Threads, Get(t) PROVE BaseInv'
    BY <2>1, TypeGet, LockRead
  <2>2. ASSUME NEW t \in Threads, Stat(t) PROVE BaseInv'
    BY <2>2, TypeStat, LockRead
  <2>3. ASSUME NEW t \in Threads, Write(t) PROVE BaseInv'
    BY <2>3, TypeWrite, LockWrite
  <2>4. ASSUME NEW t \in Threads, Commit(t) \/ \E i \in Inos : Swap(t, i) PROVE BaseInv'
    BY <2>4, TypeSync, LockSync
  <2>5. ASSUME NEW t \in Threads, RenameMap(t) \/ \E p, q \in Paths : RenameFile(t, p, q) PROVE BaseInv'
    BY <2>5, TypeRename, LockRename
  <2>6. ASSUME NEW t \in Threads, NEW i \in Inos,
               \/ StartHead(t, i) \/ StartStat(t, i) \/ \E k \in Idx : StartGet(t, i, k)
               \/ \E k \in Idx, v \in Vals : StartPut(t, i, k, v)
               \/ \E n \in 0 .. MaxSize : StartCut(t, i, n)
        PROVE  BaseInv'
    BY <2>6, TypeStart, LockStart
  <2>7. ASSUME \/ \E i \in Inos : Released(i)
               \/ \E p \in Paths, i \in Inos : Lookup(p, i) \/ \E f \in Files : Create(p, f, i)
               \/ \E p \in Paths : Unlink(p)
        PROVE  BaseInv'
    BY <2>7, TypeNames, LockNames
  <2>8. ASSUME NEW d \in Dirs, Mkdir(d) \/ Rmdir(d) \/ \E e \in Dirs : RenameDir(d, e) PROVE BaseInv'
    BY <2>8, TypeDirs, LockDirs
  <2>9. CASE Crash
    BY <2>9, TypeCrash, LockCrash
  <2>. QED
    BY <1>2, <2>1, <2>2, <2>3, <2>4, <2>5, <2>6, <2>7, <2>8, <2>9 DEF Next
<1>. QED
  BY <1>1, <1>2

\* The state is well-typed, and by_path, of which by_ino is the inverse, has one
\* number for a path.
THEOREM TypeCorrect == Spec => []TypeOK
<1>1. BaseInv => TypeOK
  BY DEF BaseInv, TypeInv
<1>. QED
  BY <1>1, InitBase, NextBase, PTL DEF Spec

-----------------------------------------------------------------------------
(* The invariant of what readers get                                         *)

\* Directories move while nothing is written.
Moving == "renamedir" \in Ops

\* Where directories move.
StillInv ==
    /\ \A i \in Inos : active[i] = None /\ flushing[i] = None
    /\ \A t \in Threads : call[t].op \notin {"put", "cut", "sethead", "sync"}
    /\ \A f \in Files : disk[f].blocks = latest[f]

-----------------------------------------------------------------------------
(* Elsewhere: names and numbers                                             *)

Alive(i) == Exists(named[i])

\* A file has one path and one number, and the number the path of the file,
\* but for the two paths a rename under way has not entered yet.
NameInv ==
    /\ \A p, q \in Paths : tree[p] # None /\ tree[p] = tree[q] => p = q
    /\ \A i, j \in Inos : named[i] # None /\ named[i] = named[j] => i = j
    /\ \A i \in Inos : (Mapped(i) => ~New(i)) /\ (Alive(i) => Mapped(i))
    /\ NsFree => \A i \in Inos : Mapped(i) => tree[by_ino[i]] = named[i]
    /\ \A t \in Threads : call[t].op = "rename" =>
         /\ workload.locked /\ tree[call[t].path] = None /\ call[t].path # call[t].to
         /\ \A i \in Inos : Mapped(i) =>
              /\ by_ino[i] = call[t].path => tree[call[t].to] = named[i]
              /\ by_ino[i] = call[t].to => ~Alive(i)
              /\ by_ino[i] \notin {call[t].path, call[t].to} => tree[by_ino[i]] = named[i]

-----------------------------------------------------------------------------
(* Calls                                                                    *)

Changes(t, i) == call[t].op \in {"put", "cut", "sethead"} /\ call[t].ino = i
Uses(t, i) == (Reading(t) \/ call[t].op \in {"put", "cut", "sethead", "sync"}) /\ call[t].ino = i

\* What a change knows of the file when it comes to its session.
Known(c, content) ==
    /\ c.op = "put" => /\ c.idx <= Len(content)
                       /\ c.size = IF c.idx < Len(content) THEN Len(content) ELSE c.idx + 1
    /\ c.op = "cut" => c.idx = IF c.size < Len(content) THEN c.size ELSE Len(content)
    /\ c.op = "sethead" => c.idx = 0 /\ Len(content) >= 1 /\ Block(content, 0) = c.value

CallInv ==
    /\ \A t \in Threads, i \in Inos : Uses(t, i) => ~New(i)
    /\ \A t, u \in Threads, i \in Inos : Changes(t, i) /\ Changes(u, i) => t = u
    /\ workload.locked => \A t, u \in Threads, i \in Inos : Uses(t, i) /\ Uses(u, i) => t = u
    /\ \A t \in Threads, i \in Inos : Changes(t, i) /\ Alive(i) =>
         /\ Known(call[t], latest[named[i]])
         /\ workload.locked /\ call[t].op = "sethead" => active[i] # None
         /\ ~workload.locked /\ call[t].step = "first" => call[t].path = by_ino[i]

-----------------------------------------------------------------------------
(* Sessions                                                                 *)

\* A session over something of `base` blocks.
SessionOver(s, base) ==
    /\ \A k \in Idx : s.dirty[k] # None => k < s.size
    /\ ~Changed(s) => s.size = base
    /\ IF s.keep = NoKeep THEN s.size >= base ELSE s.keep <= s.size
    /\ \A k \in Idx : k < s.size /\ k < s.keep /\ k >= base => s.dirty[k] # None

\* It shows zeros where nothing was written.
Holed(s) == \E k \in Idx : k < s.size /\ k >= s.keep /\ s.dirty[k] = None

\* The session of the commit under way is in the archive.
Landed(i) == \E t \in Threads : call[t].op = "sync" /\ call[t].ino = i /\ call[t].step # "commit"

Holds(s, blocks) ==
    /\ Len(blocks) = s.size
    /\ \A k \in Idx : Shows(s, k) # None => Block(blocks, k) = Shows(s, k)

SessionInv ==
    \A i \in Inos :
        /\ Alive(i) =>
             LET blocks == disk[named[i]].blocks IN
             /\ flushing[i] # None => IF Landed(i) THEN Holds(flushing[i], blocks)
                                      ELSE SessionOver(flushing[i], Len(blocks))
             /\ active[i] # None =>
                  SessionOver(active[i], IF flushing[i] # None THEN flushing[i].size ELSE Len(blocks))
        /\ New(i) => active[i] = None /\ flushing[i] = None
        /\ workload.locked => active[i] = None \/ flushing[i] = None
        /\ \/ workload.locked \/ ~Alive(i)
           \/ /\ active[i] # None /\ flushing[i] # None => ~Holed(flushing[i])
              /\ \/ active[i] # None /\ Holed(active[i])
                 \/ flushing[i] # None /\ Holed(flushing[i])
                 => changes = workload.changes /\ Changing(i) = {}

\* Where a file is about to grow, nothing else begins.
GrowInv ==
    workload.locked \/
    \A t \in Threads, i \in Inos :
        Changes(t, i) /\ Alive(i) /\ call[t].op = "cut" /\ call[t].size > call[t].idx =>
            changes = workload.changes

Shown(i, f, k) == IF Buffered(i, k) # None THEN Buffered(i, k) ELSE Block(disk[f].blocks, k)

\* What a reader gets is what the calls have written.
DataInv ==
    /\ \A i \in Inos : Alive(i) =>
         LET f == named[i] IN
         /\ Size(i, f) = Len(latest[f])
         /\ \A k \in Idx : k < Size(i, f) => Shown(i, f, k) = Block(latest[f], k)
    /\ \A f \in Files : Exists(f) /\ (\A i \in Inos : named[i] # f) => disk[f].blocks = latest[f]

ViewInv ==
    IF Moving THEN StillInv ELSE NameInv /\ CallInv /\ SessionInv /\ GrowInv /\ DataInv

LEMMA OrderlyOps ==
    ASSUME Orderly(Workloads), TypeInv
    PROVE  /\ "rename" \in Ops \/ "hole" \in Ops => workload.locked
           /\ Moving => Ops \cap {"put", "cut", "grow"} = {}
           /\ workload.changes \in Nat /\ workload.locked \in BOOLEAN
  BY WorkloadsAssumption DEF Orderly, TypeInv, TypeOK, Ops, Moving

\* Where directories move nothing is written.
LEMMA StillStep ==
    ASSUME Orderly(Workloads), BaseInv, Moving, StillInv, Next PROVE StillInv'
<1>0. /\ call \in [Threads -> Calls] /\ UNCHANGED workload
      /\ active \in [Inos -> Sessions \cup {None}] /\ flushing \in [Inos -> Sessions \cup {None}]
      /\ disk \in [Files -> Archives] /\ latest \in [Files -> Contents]
      /\ \A op \in {"put", "cut", "grow"} : op \notin Ops
  BY OrderlyOps DEF BaseInv, TypeInv, TypeOK, Next
<1>1. ASSUME \A t \in Threads : call'[t].op \notin {"put", "cut", "sethead", "sync"},
             UNCHANGED <<active, flushing, disk, latest>>
      PROVE  StillInv'
  BY <1>1 DEF StillInv
<1>2. ASSUME NEW t \in Threads, Get(t) \/ Stat(t) PROVE StillInv'
  <2>1. call'[t].op \notin {"put", "cut", "sethead", "sync"} /\ \A u \in Threads \ {t} : call'[u] = call[u]
    BY <1>2, ReadGoes DEF BaseInv
  <2>2. UNCHANGED <<active, flushing, disk, latest>>
    BY <1>2 DEF Get, Stat, LookupReader, Resolve, Open, Fill, Done, AttrFromMeta, ReadFooterGeometry, sessions
  <2>. QED
    BY <1>1, <2>1, <2>2 DEF StillInv
<1>3. ASSUME NEW t \in Threads, NEW i \in Inos,
             StartHead(t, i) \/ StartStat(t, i) \/ \E k \in Idx : StartGet(t, i, k)
      PROVE  StillInv'
  <2>1. call'[t].op \notin {"put", "cut", "sethead", "sync"} /\ \A u \in Threads \ {t} : call'[u] = call[u]
    BY <1>0, <1>3 DEF StartHead, StartStat, StartGet, Goto
  <2>. QED
    BY <1>1, <1>3, <2>1 DEF StillInv, StartHead, StartStat, StartGet, sessions
<1>4. ASSUME NEW t \in Threads, NEW i \in Inos,
             \/ Swap(t, i) \/ \E k \in Idx, v \in Vals : StartPut(t, i, k, v)
             \/ \E n \in 0 .. MaxSize : StartCut(t, i, n)
      PROVE  FALSE
  BY <1>0, <1>4 DEF StillInv, Swap, StartPut, StartCut, MayCall
<1>5. ASSUME NEW t \in Threads, Write(t) \/ Commit(t) PROVE FALSE
  BY <1>5 DEF StillInv, Write, WithSession, FirstChange, Commit, Publish, FailCommit, BumpEpoch, EvictReader,
              EndCommit, At
<1>6. ASSUME NEW i \in Inos, Released(i) PROVE StillInv'
  BY <1>1, <1>6 DEF Released, sessions, StillInv
<1>7. ASSUME NEW p \in Paths, NEW i \in Inos, Lookup(p, i) \/ \E f \in Files : Create(p, f, i) PROVE StillInv'
  BY <1>0, <1>7 DEF Lookup, Create, sessions, StillInv, Empty
<1>8. ASSUME NEW p \in Paths, Unlink(p) PROVE StillInv'
  <2>1. \A i \in Inos : active'[i] = None /\ flushing'[i] = None
    BY <1>0, <1>8 DEF Unlink, Dropped, sessions, StillInv, InosAt
  <2>. QED
    BY <1>8, <2>1 DEF Unlink, StillInv
<1>9. ASSUME NEW t \in Threads, RenameMap(t) PROVE StillInv'
  <2>1. \A i \in Inos : active'[i] = None /\ flushing'[i] = None
    BY <1>0, <1>9 DEF RenameMap, Dropped, sessions, StillInv, InosAt
  <2>2. \A u \in Threads : call'[u].op \notin {"put", "cut", "sethead", "sync"}
    BY <1>0, <1>9, OpIdle DEF RenameMap, Return, Goto, StillInv
  <2>. QED
    BY <1>9, <2>1, <2>2 DEF RenameMap, StillInv
<1>10. ASSUME NEW t \in Threads, NEW p \in Paths, NEW q \in Paths, RenameFile(t, p, q) PROVE StillInv'
  <2>1. \A u \in Threads : call'[u].op \notin {"put", "cut", "sethead", "sync"}
    BY <1>0, <1>10 DEF RenameFile, Goto, StillInv
  <2>. QED
    BY <1>1, <1>10, <2>1 DEF RenameFile, sessions
<1>11. ASSUME NEW d \in Dirs, Mkdir(d) \/ Rmdir(d) \/ \E e \in Dirs : RenameDir(d, e) PROVE StillInv'
  BY <1>1, <1>11 DEF Mkdir, Rmdir, RenameDir, sessions, StillInv
<1>12. ASSUME Crash PROVE StillInv'
  BY <1>0, <1>12, OpIdle DEF Crash, StillInv
<1>. QED
  BY <1>2, <1>3, <1>4, <1>5, <1>6, <1>7, <1>8, <1>9, <1>10, <1>11, <1>12 DEF Next

WriteInv == NameInv /\ CallInv /\ SessionInv /\ GrowInv /\ DataInv

LEMMA Users ==
    ASSUME NEW i \in Inos
    PROVE  /\ Using(i) = {t \in Threads : Uses(t, i)} /\ Changing(i) = {t \in Threads : Changes(t, i)}
           /\ \A t \in Threads : Changes(t, i) => Uses(t, i)
           /\ Changing(i)' = {t \in Threads : Changes(t, i)'}
  BY DEF Using, Changing, Uses, Changes, Reading

LEMMA AliveFile == ASSUME BaseInv PROVE \A i \in Inos : Alive(i) => named[i] \in Files
  BY DEF BaseInv, TypeInv, TypeOK, Alive, Exists

\* Steps that touch no file: reads, and commits but for the swap and their end.
Quiet(t) ==
    /\ UNCHANGED <<workload, tree, by_ino, named, disk, active, flushing, latest, changes>>
    /\ \A u \in Threads \ {t} : call'[u] = call[u]
    /\ call[t].op \notin {"put", "cut", "sethead", "rename"} /\ call'[t].op \notin {"put", "cut", "sethead", "rename"}
    /\ call[t].op = "sync" <=> call'[t].op = "sync"
    /\ call[t].op = "sync" => /\ call'[t].ino = call[t].ino
                              /\ call[t].step = "commit" <=> call'[t].step = "commit"
    /\ \A i \in Inos : Uses(t, i)' =>
         Uses(t, i) \/ (~New(i) /\ (workload.locked => \A u \in Threads : ~Uses(u, i)))

LEMMA QuietKeeps ==
    ASSUME BaseInv, WriteInv, NEW t \in Threads, Quiet(t) PROVE WriteInv'
<1>1. \A i \in Inos : Alive(i)' = Alive(i) /\ New(i)' = New(i) /\ Mapped(i)' = Mapped(i)
  BY DEF Quiet, Alive, Exists, PathsOf, New, Mapped
<1>2. \A u \in Threads, i \in Inos : Changes(u, i)' = Changes(u, i)
  BY DEF Quiet, Changes
<1>3. \A i \in Inos : Changing(i)' = Changing(i)
  BY <1>2, Users
<1>4. \A i \in Inos : Landed(i)' = Landed(i)
  BY DEF Quiet, Landed
<1>5. \A u \in Threads : call[u].op = "rename" \/ call'[u].op = "rename" => call'[u] = call[u]
  BY DEF Quiet
<1>6. NsFree' = NsFree
  BY <1>5 DEF NsFree
<1>7. NameInv'
  BY <1>1, <1>5, <1>6 DEF NameInv, WriteInv, Quiet
<1>8. CallInv'
  <2>1. ASSUME NEW u \in Threads, NEW i \in Inos, Uses(u, i)' PROVE ~New(i)'
    BY <1>1, <2>1 DEF Quiet, CallInv, WriteInv, Uses, Reading
  <2>2. \A u \in Threads \ {t}, i \in Inos : Uses(u, i)' = Uses(u, i)
    BY DEF Quiet, Uses, Reading
  <2>3. workload.locked => \A u, v \in Threads, i \in Inos : Uses(u, i)' /\ Uses(v, i)' => u = v
    BY <2>2 DEF Quiet, CallInv, WriteInv
  <2>4. ASSUME NEW u \in Threads, NEW i \in Inos, Changes(u, i) PROVE call'[u] = call[u]
    BY <2>4 DEF Changes, Quiet
  <2>. QED
    BY <1>1, <1>2, <2>1, <2>3, <2>4 DEF Quiet, CallInv, WriteInv
<1>9. SessionInv'
  BY <1>1, <1>3, <1>4 DEF Quiet, SessionInv, WriteInv
<1>10. GrowInv'
  <2>1. ASSUME NEW u \in Threads, NEW i \in Inos, Changes(u, i) PROVE call'[u] = call[u]
    BY <2>1 DEF Changes, Quiet
  <2>. QED
    BY <1>1, <1>2, <2>1 DEF Quiet, GrowInv, WriteInv
<1>11. DataInv'
  <2>1. \A f \in Files, i \in Inos : Size(i, f)' = Size(i, f)
    BY DEF Quiet, Size
  <2>2. \A f \in Files, i \in Inos, k \in Idx : Shown(i, f, k)' = Shown(i, f, k)
    BY DEF Quiet, Shown, Buffered
  <2>3. \A f \in Files : Exists(f)' = Exists(f)
    BY DEF Quiet, Exists, PathsOf
  <2>4. \A i \in Inos : Alive(i) => named[i] \in Files
    BY AliveFile
  <2>5. UNCHANGED <<named, latest, disk>>
    BY DEF Quiet
  <2>. QED
    BY <1>1, <2>1, <2>2, <2>3, <2>4, <2>5 DEF DataInv, WriteInv
<1>. QED
  BY <1>7, <1>8, <1>9, <1>10, <1>11 DEF WriteInv

LEMMA NothingChanges ==
    ASSUME BaseInv, WriteInv,
           UNCHANGED <<workload, tree, by_ino, named, disk, active, flushing, latest, changes, call>>
    PROVE  WriteInv'
<1>1. NameInv' /\ GrowInv'
  BY DEF WriteInv, NameInv, GrowInv, Alive, Exists, PathsOf, New, Mapped, NsFree, Changes
<1>2. CallInv'
  BY DEF WriteInv, CallInv, Alive, Exists, PathsOf, New, Changes, Uses, Reading
<1>3. SessionInv'
  BY DEF WriteInv, SessionInv, Alive, Exists, PathsOf, New, Landed, Changing, Using, Reading
<1>4. DataInv'
  BY DEF WriteInv, DataInv, Alive, Exists, PathsOf, Size, Shown, Buffered
<1>. QED
  BY <1>1, <1>2, <1>3, <1>4 DEF WriteInv

LEMMA ReadsAreQuiet ==
    ASSUME BaseInv, UNCHANGED workload, NEW t \in Threads, Get(t) \/ Stat(t) PROVE Quiet(t)
<1>1. /\ call[t].op \in {"get", "head", "stat"} /\ call'[t].op \in {"idle", call[t].op}
      /\ call'[t].op # "idle" => call'[t].ino = call[t].ino
      /\ UNCHANGED <<namespace, disk, sessions, latest, changes>>
      /\ \A u \in Threads \ {t} : call'[u] = call[u]
  BY ReadGoes DEF BaseInv
<1>2. \A i \in Inos : Uses(t, i)' => Uses(t, i)
  BY <1>1 DEF Uses, Reading
<1>. QED
  BY <1>1, <1>2 DEF Quiet, namespace, sessions

LEMMA StartsAreQuiet ==
    ASSUME BaseInv, WriteInv, UNCHANGED workload, NEW t \in Threads, NEW i \in Inos,
           StartHead(t, i) \/ StartStat(t, i) \/ \E k \in Idx : StartGet(t, i, k)
    PROVE  Quiet(t)
<1>1. /\ \E op \in Ops : MayCall(t, op, i)
      /\ UNCHANGED <<namespace, disk, sessions, latest, changes>>
  BY DEF StartHead, StartStat, StartGet, MayCall
<1>2. call \in [Threads -> Calls]
  BY DEF BaseInv, TypeInv
<1>3. /\ call'[t].op \in {"get", "head", "stat"} /\ call'[t].ino = i
      /\ \A u \in Threads \ {t} : call'[u] = call[u]
  <2>1. CASE StartHead(t, i)
    BY <1>2, <2>1 DEF StartHead, Goto
  <2>2. CASE StartStat(t, i)
    BY <1>2, <2>2 DEF StartStat, Goto
  <2>3. CASE \E k \in Idx : StartGet(t, i, k)
    BY <1>2, <2>3 DEF StartGet, Goto
  <2>. QED
    BY <2>1, <2>2, <2>3
<1>4. call[t].op = "idle" /\ Mapped(i) /\ (workload.locked => Using(i) = {})
  BY <1>1, OpIdle DEF MayCall
<1>5. ~New(i) /\ (workload.locked => \A u \in Threads : ~Uses(u, i))
  BY <1>4, Users DEF WriteInv, NameInv
<1>6. \A j \in Inos : Uses(t, j)' => j = i
  BY <1>3 DEF Uses
<1>. QED
  BY <1>1, <1>3, <1>4, <1>5, <1>6 DEF Quiet, namespace, sessions

LEMMA InvalidationsAreQuiet ==
    ASSUME BaseInv, UNCHANGED workload, NEW t \in Threads, BumpEpoch(t) \/ EvictReader(t) PROVE Quiet(t)
<1>1. call[t].op = "sync" /\ call[t] \in Syncs /\ call[t].step # "commit"
  BY FieldTypes DEF BumpEpoch, EvictReader, At, BaseInv
<1>2. call \in [Threads -> Calls]
  BY DEF BaseInv, TypeInv
<1>3. /\ call'[t].op = "sync" /\ call'[t].ino = call[t].ino /\ call'[t].step # "commit"
      /\ UNCHANGED <<namespace, disk, sessions, latest, changes>>
      /\ \A u \in Threads \ {t} : call'[u] = call[u]
  BY <1>1, <1>2 DEF BumpEpoch, EvictReader, Step, Goto, Syncs
<1>4. \A i \in Inos : Uses(t, i)' => Uses(t, i)
  BY <1>1, <1>3 DEF Uses
<1>. QED
  BY <1>1, <1>3, <1>4 DEF Quiet, namespace, sessions

\* A write or a truncation begins.
LEMMA StartWriteKeeps ==
    ASSUME Orderly(Workloads), BaseInv, WriteInv, UNCHANGED workload, NEW t \in Threads, NEW i \in Inos,
           \/ \E k \in Idx, v \in Vals : StartPut(t, i, k, v)
           \/ \E n \in 0 .. MaxSize : StartCut(t, i, n)
    PROVE  WriteInv'
<1>0. /\ call \in [Threads -> Calls] /\ workload.changes \in Nat /\ changes \in Nat
  BY WorkloadsAssumption DEF BaseInv, TypeInv, TypeOK
<1>1. /\ UNCHANGED <<tree, by_ino, named, disk, active, flushing, latest>>
      /\ changes' = changes + 1 /\ changes < workload.changes
      /\ call[t] = Idle /\ Mapped(i) /\ Alive(i) /\ named[i] \in Files
      /\ IF workload.locked THEN Using(i) = {} ELSE Changing(i) = {}
  BY AliveFile DEF StartPut, StartCut, MayCall, namespace, sessions, Alive
<1>2. Len(latest[named[i]]) = Size(i, named[i]) /\ Size(i, named[i]) \in 0 .. MaxSize
  BY <1>1, SizeType DEF WriteInv, DataInv, BaseInv
<1>. DEFINE size == Size(i, named[i])
            put(k, v) == [op |-> "put", step |-> "session", ino |-> i, idx |-> k, value |-> v,
                          size |-> IF k < size THEN size ELSE k + 1, path |-> None]
            cut(n) == [op |-> "cut", step |-> "session", ino |-> i, idx |-> IF n < size THEN n ELSE size,
                       value |-> None, size |-> n, path |-> None]
<1>3. /\ call'[t].op \in {"put", "cut"} /\ call'[t].ino = i /\ call'[t].step = "session"
      /\ Known(call'[t], latest[named[i]])
      /\ call'[t].op = "cut" /\ call'[t].size > call'[t].idx =>
           workload.locked \/ changes' = workload.changes
      /\ \A u \in Threads \ {t} : call'[u] = call[u]
  <2>1. ASSUME NEW k \in Idx, NEW v \in Vals
        PROVE  /\ put(k, v).op = "put" /\ put(k, v).ino = i /\ put(k, v).step = "session"
               /\ k <= size => Known(put(k, v), latest[named[i]])
    BY <1>2 DEF Known
  <2>2. ASSUME NEW n \in 0 .. MaxSize
        PROVE  /\ cut(n).op = "cut" /\ cut(n).ino = i /\ cut(n).step = "session"
               /\ Known(cut(n), latest[named[i]]) /\ (cut(n).size > cut(n).idx => n > size)
    BY <1>2, SizesAreNat DEF Known
  <2>3. ASSUME NEW k \in Idx, NEW v \in Vals, StartPut(t, i, k, v)
        PROVE  k <= size /\ call'[t] = put(k, v) /\ \A u \in Threads \ {t} : call'[u] = call[u]
    BY <1>0, <2>3 DEF StartPut, Goto
  <2>4. ASSUME NEW n \in 0 .. MaxSize, StartCut(t, i, n)
        PROVE  /\ call'[t] = cut(n) /\ \A u \in Threads \ {t} : call'[u] = call[u]
               /\ n > size => "hole" \in Ops \/ changes + 1 = workload.changes
    BY <1>0, <2>4 DEF StartCut, Goto
  <2>5. "hole" \in Ops => workload.locked
    BY OrderlyOps DEF BaseInv
  <2>. HIDE DEF put, cut, size
  <2>6. CASE \E k \in Idx, v \in Vals : StartPut(t, i, k, v)
    BY <2>1, <2>3, <2>6
  <2>7. CASE \E n \in 0 .. MaxSize : StartCut(t, i, n)
    BY <1>1, <2>2, <2>4, <2>5, <2>7
  <2>. QED
    BY <2>6, <2>7
<1>4. \A j \in Inos : (Alive(j)' <=> Alive(j)) /\ (New(j)' <=> New(j)) /\ (Mapped(j)' <=> Mapped(j))
  BY <1>1 DEF Alive, Exists, PathsOf, New, Mapped
<1>5. call[t].op = "idle"
  BY <1>1, OpIdle
<1>6. \A u \in Threads, j \in Inos :
        /\ u # t => (Changes(u, j)' <=> Changes(u, j)) /\ (Uses(u, j)' <=> Uses(u, j))
        /\ Uses(t, j)' \/ Changes(t, j)' => j = i
        /\ ~Changes(t, j)
  BY <1>3, <1>5 DEF Changes, Uses, Reading
<1>7. NameInv'
  <2>1. NsFree' = NsFree /\ \A u \in Threads : call'[u].op = "rename" => call'[u] = call[u]
    BY <1>3, <1>5 DEF NsFree
  <2>. QED
    BY <1>1, <1>4, <2>1 DEF NameInv, WriteInv
<1>8. CallInv'
  <2>. DEFINE Ready(u, j) == /\ Known(call[u], latest[named[j]])
                             /\ workload.locked /\ call[u].op = "sethead" => active[j] # None
                             /\ ~workload.locked /\ call[u].step = "first" => call[u].path = by_ino[j]
  <2>0. /\ \A u \in Threads, j \in Inos : Uses(u, j) => ~New(j)
        /\ \A u, v \in Threads, j \in Inos : Changes(u, j) /\ Changes(v, j) => u = v
        /\ workload.locked => \A u, v \in Threads, j \in Inos : Uses(u, j) /\ Uses(v, j) => u = v
        /\ \A u \in Threads, j \in Inos : Changes(u, j) /\ Alive(j) => Ready(u, j)
    BY DEF CallInv, WriteInv
  <2>1. ~New(i)
    BY <1>1 DEF NameInv, WriteInv
  <2>2. workload.locked => \A u \in Threads : ~Uses(u, i)
    BY <1>1, Users
  <2>3. \A u \in Threads : ~Changes(u, i)
    BY <1>1, <2>2, Users
  <2>4. ASSUME NEW u \in Threads, NEW j \in Inos, Uses(u, j)' PROVE ~New(j)
    BY <1>6, <2>0, <2>1, <2>4
  <2>5. ASSUME NEW u \in Threads, NEW v \in Threads, NEW j \in Inos, Changes(u, j)', Changes(v, j)' PROVE u = v
    BY <1>6, <2>0, <2>3, <2>5
  <2>6. ASSUME workload.locked, NEW u \in Threads, NEW v \in Threads, NEW j \in Inos, Uses(u, j)', Uses(v, j)'
        PROVE  u = v
    BY <1>6, <2>0, <2>2, <2>6
  <2>7. ASSUME NEW u \in Threads, NEW j \in Inos, Changes(u, j)', Alive(j) PROVE Ready(u, j)'
    <3>1. CASE u = t
      <4>1. j = i
        BY <1>6, <2>7, <3>1
      <4>. QED
        BY <1>1, <1>3, <3>1, <4>1
    <3>2. CASE u # t
      <4>1. call'[u] = call[u] /\ Changes(u, j)
        BY <1>3, <1>6, <2>7, <3>2
      <4>. QED
        BY <1>1, <2>0, <2>7, <4>1
    <3>. QED
      BY <3>1, <3>2
  <2>. QED
    BY <1>1, <1>4, <2>4, <2>5, <2>6, <2>7 DEF CallInv
<1>9. SessionInv'
  <2>1. \A j \in Inos : Landed(j)' <=> Landed(j)
    BY <1>3, <1>5 DEF Landed
  <2>2. ~(changes = workload.changes)
    BY <1>0, <1>1
  <2>. QED
    BY <1>1, <1>4, <2>1, <2>2 DEF SessionInv, WriteInv
<1>10. GrowInv'
  <2>1. ASSUME ~workload.locked, NEW u \in Threads, NEW j \in Inos, Changes(u, j), Alive(j), call[u].op = "cut"
        PROVE  ~(call[u].size > call[u].idx)
    BY <1>0, <1>1, <2>1 DEF GrowInv, WriteInv
  <2>2. ASSUME ~workload.locked, NEW u \in Threads, NEW j \in Inos, Changes(u, j)', Alive(j)',
               call'[u].op = "cut", call'[u].size > call'[u].idx
        PROVE  changes' = workload.changes
    <3>1. CASE u = t
      BY <1>3, <2>2, <3>1
    <3>2. CASE u # t
      <4>1. call'[u] = call[u] /\ Changes(u, j) /\ Alive(j)
        BY <1>3, <1>4, <1>6, <2>2, <3>2
      <4>. QED
        BY <2>1, <2>2, <4>1
    <3>. QED
      BY <3>1, <3>2
  <2>. QED
    BY <2>2 DEF GrowInv
<1>11. DataInv'
  <2>1. \A f \in Files, j \in Inos : Size(j, f)' = Size(j, f)
    BY <1>1 DEF Size
  <2>2. \A f \in Files, j \in Inos, k \in Idx : Shown(j, f, k)' = Shown(j, f, k)
    BY <1>1 DEF Shown, Buffered
  <2>3. \A f \in Files : Exists(f)' = Exists(f)
    BY <1>1 DEF Exists, PathsOf
  <2>4. \A j \in Inos : Alive(j) => named[j] \in Files
    BY AliveFile
  <2>. QED
    BY <1>1, <1>4, <2>1, <2>2, <2>3, <2>4 DEF DataInv, WriteInv
<1>. QED
  BY <1>7, <1>8, <1>9, <1>10, <1>11 DEF WriteInv

-----------------------------------------------------------------------------
(* A change of a session                                                    *)

\* The content after the call.
After(c, content) ==
    CASE c.op = "put" -> Written(content, c.idx, c.value)
      [] c.op = "cut" -> Resized(content, c.size)
      [] OTHER        -> content

LEMMA KnownType ==
    ASSUME NEW c \in Calls, c.op \in {"put", "cut", "sethead"}
    PROVE  /\ c.op \in {"put", "sethead"} => c.idx \in Idx /\ c.value \in Vals
           /\ c.idx \in 0 .. MaxSize /\ c.size \in 0 .. MaxSize /\ c.ino \in Inos
  BY CallFacts, SizesAreNat DEF Puts, Cuts

LEMMA AfterIs ==
    ASSUME NEW c \in Calls, c.op \in {"put", "cut", "sethead"}, NEW content \in Contents, Known(c, content)
    PROVE  /\ After(c, content) \in Contents
           /\ Len(After(c, content)) = IF c.op = "sethead" THEN Len(content) ELSE c.size
           /\ \A k \in Nat : Block(After(c, content), k) =
                IF c.op = "put" THEN IF k = c.idx THEN c.value ELSE Block(content, k)
                ELSE IF c.op = "cut" THEN IF k < c.size THEN Block(content, k) ELSE 0
                ELSE Block(content, k)
<1>1. CASE c.op = "put"
  <2>1. c.idx \in Idx /\ c.value \in Vals /\ After(c, content) = Written(content, c.idx, c.value)
    BY <1>1, KnownType DEF After
  <2>2. Len(content) \in Nat
    BY ContentFacts
  <2>. QED
    BY <1>1, <2>1, <2>2, WrittenIs DEF Known
<1>2. CASE c.op = "cut"
  <2>1. c.size \in 0 .. MaxSize /\ After(c, content) = Resized(content, c.size)
    BY <1>2, KnownType DEF After
  <2>. QED
    BY <1>2, <2>1, ResizedIs
<1>3. CASE c.op = "sethead"
  BY <1>3 DEF After
<1>. QED
  BY <1>1, <1>2, <1>3

\* A session over `base` blocks that shows what it should is one after a change.
LEMMA ChangedSession ==
    ASSUME NEW c \in Calls, c.op \in {"put", "cut", "sethead"}, NEW s \in Sessions, NEW content \in Contents,
           NEW base \in 0 .. MaxSize, Known(c, content), SessionOver(s, base), s.size = Len(content)
    PROVE  LET new == Applied(c, s) IN
           /\ SessionOver(new, base)
           /\ new.size = Len(After(c, content))
           /\ Holed(new) => Holed(s) \/ (c.op = "cut" /\ c.size > c.idx)
<1>. DEFINE new == Applied(c, s)
<1>0. /\ s.size \in Nat /\ s.keep \in 0 .. NoKeep /\ c.idx \in 0 .. MaxSize /\ c.size \in 0 .. MaxSize
      /\ \A k \in Idx : k \in Nat /\ k <= MaxSize - 1
      /\ MaxSize \in Nat /\ NoKeep = MaxSize + 1
  BY SessionFacts, KnownType, SizesAreNat
<1>1. new.size = Len(After(c, content))
  BY AppliedIs, AfterIs
<1>2. CASE c.op = "put"
  <2>1. /\ c.idx \in Idx /\ c.value # None /\ c.size >= s.size /\ c.idx < c.size
        /\ \A k \in Idx : k < c.size /\ k # c.idx => k < s.size
    BY <1>0, <1>2, KnownType, NotNone DEF Known
  <2>2. /\ \A k \in Idx : new.dirty[k] = IF k = c.idx THEN c.value ELSE s.dirty[k]
        /\ new.size = c.size /\ new.keep = s.keep
    BY <1>2, AppliedIs
  <2>. HIDE DEF new
  <2>3. Changed(new)
    BY <2>1, <2>2 DEF Changed
  <2>4. SessionOver(new, base)
    BY <1>0, <2>1, <2>2, <2>3 DEF SessionOver
  <2>5. Holed(new) => Holed(s)
    BY <1>0, <2>1, <2>2 DEF Holed
  <2>. QED
    BY <1>1, <2>4, <2>5 DEF new
<1>3. CASE c.op = "cut"
  <2>1. /\ c.idx <= c.size /\ c.idx <= s.size
    BY <1>0, <1>3 DEF Known
  <2>2. /\ \A k \in Idx : new.dirty[k] = IF k < c.idx THEN s.dirty[k] ELSE None
        /\ new.size = c.size /\ new.keep = IF c.idx < s.keep THEN c.idx ELSE s.keep
    BY <1>3, AppliedIs
  <2>. HIDE DEF new
  <2>3. new.keep # NoKeep /\ new.keep <= c.idx /\ Changed(new)
    BY <1>0, <2>2 DEF Changed
  <2>4. SessionOver(new, base)
    <3>1. \A k \in Idx : new.dirty[k] # None => k < new.size
      BY <1>0, <2>1, <2>2
    <3>2. new.keep <= new.size
      BY <1>0, <2>1, <2>2
    <3>3. ASSUME NEW k \in Idx, k < new.size, k < new.keep, k >= base PROVE new.dirty[k] # None
      <4>1. k < c.idx /\ k < s.keep /\ k < s.size
        BY <1>0, <2>1, <2>2, <3>3
      <4>2. s.keep # NoKeep => s.dirty[k] # None
        BY <3>3, <4>1 DEF SessionOver
      <4>3. s.keep = NoKeep => s.dirty[k] # None
        BY <3>3, <4>1 DEF SessionOver
      <4>. QED
        BY <2>2, <4>1, <4>2, <4>3
    <3>. QED
      BY <2>3, <3>1, <3>2, <3>3 DEF SessionOver
  <2>5. Holed(new) => Holed(s) \/ c.size > c.idx
    BY <1>0, <2>1, <2>2 DEF Holed
  <2>. QED
    BY <1>1, <1>3, <2>4, <2>5 DEF new
<1>4. CASE c.op = "sethead"
  <2>1. new.dirty = s.dirty /\ new.size = s.size /\ new.keep = s.keep
    BY <1>4, AppliedIs
  <2>. QED
    BY <1>1, <2>1 DEF SessionOver, Holed, Changed
<1>. QED
  BY <1>2, <1>3, <1>4

LEMMA ChangedShows ==
    ASSUME NEW c \in Calls, c.op \in {"put", "cut", "sethead"}, NEW s \in Sessions, NEW content \in Contents,
           Known(c, content), s.size = Len(content), s # None, Applied(c, s) # None,
           NEW k \in Idx, k < Len(After(c, content)),
           k < Len(content) /\ Shows(s, k) # None => Shows(s, k) = Block(content, k)
    PROVE  IF Shows(Applied(c, s), k) # None THEN Shows(Applied(c, s), k) = Block(After(c, content), k)
           ELSE Shows(s, k) = None /\ k < Len(content) /\ Block(After(c, content), k) = Block(content, k)
<1>. DEFINE new == Applied(c, s)
<1>0. /\ s.size \in Nat /\ s.keep \in 0 .. NoKeep /\ c.idx \in 0 .. MaxSize /\ c.size \in 0 .. MaxSize
      /\ k \in Nat /\ k <= MaxSize - 1 /\ MaxSize \in Nat /\ NoKeep = MaxSize + 1
      /\ s.dirty[k] \in Vals \cup {0, None} /\ 0 # None
  BY SessionFacts, KnownType, SizesAreNat, NotNone
<1>2. CASE c.op = "put"
  <2>1. c.value # None /\ (k # c.idx => k < s.size)
    BY <1>0, <1>2, KnownType, NotNone, AfterIs DEF Known
  <2>2. /\ new.dirty[k] = IF k = c.idx THEN c.value ELSE s.dirty[k]
        /\ new.keep = s.keep
    BY <1>2, AppliedIs
  <2>3. Block(After(c, content), k) = IF k = c.idx THEN c.value ELSE Block(content, k)
    BY <1>0, <1>2, AfterIs
  <2>. HIDE DEF new
  <2>4. Shows(new, k) = IF k = c.idx THEN c.value ELSE Shows(s, k)
    BY <2>1, <2>2 DEF Shows, new
  <2>. QED
    BY <2>1, <2>3, <2>4 DEF new
<1>3. CASE c.op = "cut"
  <2>1. /\ c.idx <= s.size /\ k < c.size /\ (k >= c.idx => k >= s.size)
    BY <1>0, <1>3, AfterIs DEF Known
  <2>2. /\ new.dirty[k] = IF k < c.idx THEN s.dirty[k] ELSE None
        /\ new.keep = IF c.idx < s.keep THEN c.idx ELSE s.keep
    BY <1>3, AppliedIs
  <2>3. Block(After(c, content), k) = Block(content, k) /\ (k >= s.size => Block(content, k) = 0)
    BY <1>0, <1>3, <2>1, AfterIs, BlockType
  <2>. HIDE DEF new
  <2>4. Shows(new, k) = IF k < c.idx THEN Shows(s, k) ELSE 0
    BY <1>0, <2>1, <2>2 DEF Shows, new
  <2>. QED
    BY <1>0, <2>1, <2>3, <2>4 DEF new
<1>4. CASE c.op = "sethead"
  <2>1. new.dirty = s.dirty /\ new.size = s.size /\ new.keep = s.keep /\ After(c, content) = content
    BY <1>4, AppliedIs DEF After
  <2>. HIDE DEF new
  <2>2. Shows(new, k) = Shows(s, k)
    BY <2>1 DEF Shows, new
  <2>. QED
    BY <2>1, <2>2 DEF new
<1>. QED
  BY <1>2, <1>3, <1>4

\* A new session over the whole file shows nothing.
LEMMA SessionShows ==
    ASSUME NEW n \in 0 .. MaxSize
    PROVE  /\ SessionOver(Session(n), n) /\ ~Holed(Session(n)) /\ Session(n).size = n
           /\ \A k \in Idx : Shows(Session(n), k) = None
<1>1. Session(n) \in Sessions /\ Session(n) # None
  BY SessionIs, NotNone
<1>2. /\ \A k \in Idx : Session(n).dirty[k] = None
      /\ Session(n).size = n /\ Session(n).keep = NoKeep
  BY DEF Session
<1>3. \A k \in Idx : k \in Nat /\ k < NoKeep
  BY SizesAreNat
<1>. QED
  BY <1>1, <1>2, <1>3, SizesAreNat DEF SessionOver, Holed, Changed, Shows

\* A write or a truncation sets the size itself.
LEMMA AnySession ==
    ASSUME NEW c \in Calls, c.op \in {"put", "cut"}, NEW m \in 0 .. MaxSize, NEW n \in 0 .. MaxSize
    PROVE  Applied(c, Session(m)) = Applied(c, Session(n))
<1>. DEFINE none == [k \in Idx |-> None]
<1>1. CASE c.op = "put"
  <2>1. \A l \in 0 .. MaxSize : Applied(c, Session(l)) =
          [dirty |-> [none EXCEPT ![c.idx] = c.value], size |-> c.size, keep |-> NoKeep,
           head |-> IF c.idx = 0 THEN Clear ELSE Keep]
    <3>. HIDE DEF none
    <3>. QED
      BY <1>1 DEF Applied, Session, PutBlock, none
  <2>. QED
    BY <2>1
<1>2. CASE c.op = "cut"
  <2>. DEFINE cut(s) == [k \in Idx |-> IF k < c.idx THEN s.dirty[k] ELSE None]
              keep(s) == IF c.idx < s.keep THEN c.idx ELSE s.keep
              head(s) == IF c.idx = 0 THEN Clear ELSE s.head
  <2>1. \A s : Applied(c, s) = [s EXCEPT !.dirty = cut(s), !.keep = keep(s), !.size = c.size, !.head = head(s)]
    BY <1>2 DEF Applied, TruncateBlocks
  <2>2. ASSUME NEW l \in 0 .. MaxSize, NEW s, s = Session(l)
        PROVE  Applied(c, s) =
                 [dirty |-> none, size |-> c.size, keep |-> IF c.idx < NoKeep THEN c.idx ELSE NoKeep,
                  head |-> IF c.idx = 0 THEN Clear ELSE Keep]
    <3>1. s.dirty = none /\ s.keep = NoKeep /\ s.head = Keep
      BY <2>2 DEF Session
    <3>2. s = [dirty |-> s.dirty, size |-> s.size, keep |-> s.keep, head |-> s.head]
      BY <2>2 DEF Session
    <3>3. cut(s) = none
      BY <3>1
    <3>. DEFINE newkeep == IF c.idx < NoKeep THEN c.idx ELSE NoKeep
                newhead == IF c.idx = 0 THEN Clear ELSE Keep
    <3>4. keep(s) = newkeep /\ head(s) = newhead
      BY <3>1
    <3>. HIDE DEF none, cut, keep, head, newkeep, newhead
    <3>5. Applied(c, s) = [s EXCEPT !.dirty = none, !.keep = newkeep, !.size = c.size, !.head = newhead]
      BY <2>1, <3>3, <3>4
    <3>6. Applied(c, s) = [dirty |-> none, size |-> c.size, keep |-> newkeep, head |-> newhead]
      BY <3>2, <3>5
    <3>. QED
      BY <3>6 DEF newkeep, newhead
  <2>. QED
    BY <2>2
<1>. QED
  BY <1>1, <1>2

\* What a new session is over.
Base(i) == IF flushing[i] # None THEN flushing[i].size ELSE Len(disk[named[i]].blocks)

LEMMA BaseType ==
    ASSUME BaseInv, NEW i \in Inos, named[i] \in Files
    PROVE  Base(i) \in 0 .. MaxSize /\ disk[named[i]].blocks \in Contents /\ latest[named[i]] \in Contents
<1>1. disk[named[i]].blocks \in Contents /\ latest[named[i]] \in Contents
  BY DEF BaseInv, TypeInv, TypeOK, Archives
<1>2. flushing[i] # None => flushing[i] \in Sessions
  BY DEF BaseInv, TypeInv, TypeOK
<1>. QED
  BY <1>1, <1>2, SessionFacts, ContentFacts DEF Base

\* The session a change goes to is what a reader sees of the file.
SeenBy(s, i) ==
    /\ SessionOver(s, Base(i)) /\ s.size = Len(latest[named[i]])
    /\ \A k \in Idx : k < s.size =>
         (IF Shows(s, k) # None THEN Shows(s, k)
          ELSE IF Shows(flushing[i], k) # None THEN Shows(flushing[i], k)
          ELSE Block(disk[named[i]].blocks, k)) = Block(latest[named[i]], k)

LEMMA SeenBySession ==
    ASSUME BaseInv, WriteInv, NEW i \in Inos, Alive(i), NEW s \in Sessions,
           s = active[i] \/ (active[i] = None /\ s = Session(Base(i)))
    PROVE  SeenBy(s, i)
<1>0. named[i] \in Files /\ Base(i) \in 0 .. MaxSize /\ s # None
  BY AliveFile, BaseType, NotNone
<1>1. /\ Size(i, named[i]) = Len(latest[named[i]])
      /\ \A k \in Idx : k < Size(i, named[i]) => Shown(i, named[i], k) = Block(latest[named[i]], k)
  BY DEF WriteInv, DataInv
<1>2. CASE s = active[i]
  <2>1. SessionOver(s, Base(i))
    BY <1>0, <1>2 DEF WriteInv, SessionInv, Base
  <2>2. s.size = Size(i, named[i])
    BY <1>0, <1>2 DEF Size
  <2>3. \A k \in Idx : Shown(i, named[i], k) =
          IF Shows(s, k) # None THEN Shows(s, k)
          ELSE IF Shows(flushing[i], k) # None THEN Shows(flushing[i], k)
          ELSE Block(disk[named[i]].blocks, k)
    BY <1>2 DEF Shown, Buffered
  <2>. QED
    BY <1>1, <2>1, <2>2, <2>3 DEF SeenBy
<1>3. CASE active[i] = None /\ s = Session(Base(i))
  <2>1. SessionOver(s, Base(i)) /\ s.size = Base(i) /\ \A k \in Idx : Shows(s, k) = None
    BY <1>0, <1>3, SessionShows
  <2>2. s.size = Size(i, named[i])
    BY <1>3, <2>1 DEF Size, Base
  <2>3. \A k \in Idx : Shown(i, named[i], k) =
          IF Shows(s, k) # None THEN Shows(s, k)
          ELSE IF Shows(flushing[i], k) # None THEN Shows(flushing[i], k)
          ELSE Block(disk[named[i]].blocks, k)
    <3>1. \A k \in Idx : Shows(active[i], k) = None
      BY <1>3 DEF Shows
    <3>. QED
      BY <2>1, <3>1 DEF Shown, Buffered
  <2>. QED
    BY <1>1, <2>1, <2>2, <2>3 DEF SeenBy
<1>. QED
  BY <1>2, <1>3

LEMMA SeenByChanged ==
    ASSUME BaseInv, WriteInv, NEW i \in Inos, Alive(i), NEW s \in Sessions, SeenBy(s, i),
           NEW c \in Calls, c.op \in {"put", "cut", "sethead"}, Known(c, latest[named[i]])
    PROVE  LET new == Applied(c, s)
               content == After(c, latest[named[i]])
           IN /\ new.size = Len(content)
              /\ \A k \in Idx : k < new.size =>
                   (IF Shows(new, k) # None THEN Shows(new, k)
                    ELSE IF Shows(flushing[i], k) # None THEN Shows(flushing[i], k)
                    ELSE Block(disk[named[i]].blocks, k)) = Block(content, k)
<1>. DEFINE new == Applied(c, s)
            old == latest[named[i]]
            content == After(c, old)
<1>0. /\ named[i] \in Files /\ Base(i) \in 0 .. MaxSize /\ s # None /\ old \in Contents
      /\ Known(c, old)
  BY AliveFile, BaseType, NotNone
<1>1. new \in Sessions /\ new # None
  BY AppliedType, NotNone
<1>2. /\ SessionOver(s, Base(i)) /\ s.size = Len(old)
      /\ \A k \in Idx : k < s.size =>
         (IF Shows(s, k) # None THEN Shows(s, k)
          ELSE IF Shows(flushing[i], k) # None THEN Shows(flushing[i], k)
          ELSE Block(disk[named[i]].blocks, k)) = Block(old, k)
  BY DEF SeenBy
<1>3. new.size = Len(content)
  BY <1>0, <1>2, ChangedSession
<1>4. ASSUME NEW k \in Idx, k < new.size
      PROVE  IF Shows(new, k) # None THEN Shows(new, k) = Block(content, k)
             ELSE Shows(s, k) = None /\ k < Len(old) /\ Block(content, k) = Block(old, k)
  <2>1. k < Len(old) /\ Shows(s, k) # None => Shows(s, k) = Block(old, k)
    BY <1>2
  <2>2. k < Len(After(c, old))
    BY <1>3, <1>4
  <2>. HIDE DEF new, content, old
  <2>. QED
    BY <1>0, <1>1, <1>2, <2>1, <2>2, ChangedShows DEF new, content
<1>. HIDE DEF new, content, old
<1>5. \A k \in Idx : k < new.size =>
         (IF Shows(new, k) # None THEN Shows(new, k)
          ELSE IF Shows(flushing[i], k) # None THEN Shows(flushing[i], k)
          ELSE Block(disk[named[i]].blocks, k)) = Block(content, k)
  BY <1>2, <1>4
<1>. QED
  BY <1>3, <1>5 DEF new, content, old

\* A change goes to the session of a file and to no other.
LEMMA ChangeKeeps ==
    ASSUME BaseInv, WriteInv, UNCHANGED <<workload, tree, by_ino, named, disk, flushing, changes>>,
           NEW t \in Threads, NEW i \in Inos, Changes(t, i), NEW s \in Sessions, Change(t, s),
           Alive(i) => s = active[i] \/ (active[i] = None /\ s = Session(Base(i)))
    PROVE  WriteInv'
<1>. DEFINE c == call[t]
            f == named[i]
            new == Applied(c, s)
            content == After(c, latest[f])
<1>0. /\ call \in [Threads -> Calls] /\ c \in Calls /\ c.op \in {"put", "cut", "sethead"} /\ c.ino = i
      /\ active \in [Inos -> Sessions \cup {None}] /\ latest \in [Files -> Contents]
      /\ flushing \in [Inos -> Sessions \cup {None}]
      /\ c.op \in {"put", "sethead"} => c \in Puts
  BY CallFacts DEF Changes, BaseInv, TypeInv, TypeOK
<1>1. f \in Files /\ f # None
  <2>1. f # None
    BY Users DEF WriteInv, CallInv, New
  <2>. QED
    BY <2>1 DEF BaseInv, TypeInv, TypeOK
<1>2. /\ active' = [active EXCEPT ![i] = new] /\ latest' = [latest EXCEPT ![f] = content]
  BY <1>0, <1>1 DEF Change, After, Resized
<1>3. /\ \A u \in Threads \ {t} : call'[u] = call[u]
      /\ \/ call'[t] = Idle
         \/ /\ c.op = "put" /\ c.idx = 0
            /\ call'[t].op = "sethead" /\ call'[t].ino = i /\ call'[t].idx = 0
            /\ call'[t].value = c.value /\ call'[t].step = "session"
      /\ c.op # "put" => call'[t] = Idle
  <2>1. CASE c.op = "put" /\ c.idx = 0 /\ c.size > 1
    <3>1. c \in Puts
      BY <1>0, <2>1
    <3>2. Goto(t, [c EXCEPT !.op = "sethead", !.step = "session", !.path = None])
      BY <1>0, <2>1, ChangeGoes DEF BaseInv
    <3>. QED
      BY <1>0, <2>1, <3>1, <3>2 DEF Goto, Puts
  <2>2. CASE ~(c.op = "put" /\ c.idx = 0 /\ c.size > 1)
    <3>1. Goto(t, Idle)
      BY <1>0, <2>2, ChangeGoes DEF BaseInv
    <3>. QED
      BY <1>0, <3>1 DEF Goto
  <2>. QED
    BY <2>1, <2>2
<1>4. \A j \in Inos : (Alive(j)' <=> Alive(j)) /\ (New(j)' <=> New(j)) /\ (Mapped(j)' <=> Mapped(j))
  BY DEF Alive, Exists, PathsOf, New, Mapped
<1>5. /\ ~New(i) /\ \A j \in Inos : j # i => named[j] # f
      /\ \A u \in Threads : Changes(u, i) => u = t
      /\ workload.locked => \A u \in Threads : Uses(u, i) => u = t
      /\ Alive(i) => Known(c, latest[f])
  BY <1>1, Users DEF WriteInv, NameInv, CallInv, New
<1>6. /\ new \in Sessions /\ new # None
      /\ \A j \in Inos : j # i => active'[j] = active[j]
      /\ \A g \in Files : g # f => latest'[g] = latest[g]
      /\ latest'[f] = content /\ active'[i] = new
  BY <1>0, <1>1, <1>2, AppliedType, NotNone
<1>7. \A u \in Threads, j \in Inos :
        /\ (Changes(u, j)' => Changes(u, j)) /\ (Uses(u, j)' => Uses(u, j))
        /\ u # t => (Changes(u, j)' <=> Changes(u, j)) /\ (Uses(u, j)' <=> Uses(u, j))
  BY <1>0, <1>3, OpIdle DEF Changes, Uses, Reading
<1>8. NameInv'
  <2>1. NsFree' = NsFree /\ \A u \in Threads : call'[u].op = "rename" => call'[u] = call[u]
    BY <1>0, <1>3, OpIdle DEF NsFree
  <2>. QED
    BY <1>4, <2>1 DEF NameInv, WriteInv
<1>9. ASSUME Alive(i)
      PROVE  /\ SeenBy(s, i) /\ SessionOver(new, Base(i))
             /\ new.size = Len(content)
             /\ \A k \in Idx : k < new.size =>
                  (IF Shows(new, k) # None THEN Shows(new, k)
                   ELSE IF Shows(flushing[i], k) # None THEN Shows(flushing[i], k)
                   ELSE Block(disk[named[i]].blocks, k)) = Block(content, k)
             /\ Holed(new) => Holed(s) \/ (c.op = "cut" /\ c.size > c.idx)
  <2>1. SeenBy(s, i)
    BY <1>9, SeenBySession
  <2>2. SessionOver(s, Base(i)) /\ s.size = Len(latest[f]) /\ Base(i) \in 0 .. MaxSize /\ latest[f] \in Contents
    BY <1>1, <2>1, BaseType DEF SeenBy
  <2>3. Known(c, latest[named[i]]) /\ c \in Calls /\ c.op \in {"put", "cut", "sethead"}
    BY <1>0, <1>5, <1>9
  <2>4. SessionOver(new, Base(i)) /\ (Holed(new) => Holed(s) \/ (c.op = "cut" /\ c.size > c.idx))
    BY <1>0, <2>3, <2>2, ChangedSession
  <2>5. /\ new.size = Len(content)
        /\ \A k \in Idx : k < new.size =>
             (IF Shows(new, k) # None THEN Shows(new, k)
              ELSE IF Shows(flushing[i], k) # None THEN Shows(flushing[i], k)
              ELSE Block(disk[named[i]].blocks, k)) = Block(content, k)
    BY <1>9, <2>1, <2>3, SeenByChanged
  <2>. HIDE DEF new, content
  <2>. QED
    BY <2>1, <2>4, <2>5
<1>. HIDE DEF new, content
<1>10. CallInv'
  <2>1. ASSUME NEW u \in Threads, NEW j \in Inos, Changes(u, j)', Alive(j)
        PROVE  /\ Known(call[u], latest[named[j]])'
               /\ workload.locked /\ call'[u].op = "sethead" => active'[j] # None
               /\ ~workload.locked /\ call'[u].step = "first" => call'[u].path = by_ino[j]
    <3>1. CASE u # t
      <4>1. Changes(u, j) /\ call'[u] = call[u] /\ j # i
        BY <1>3, <1>5, <1>7, <2>1, <3>1
      <4>2. named[j] \in Files /\ named[j] # f
        BY <1>5, <2>1, <4>1, AliveFile
      <4>3. latest'[named[j]] = latest[named[j]] /\ active'[j] = active[j]
        BY <1>6, <4>1, <4>2
      <4>. QED
        BY <2>1, <4>1, <4>3 DEF WriteInv, CallInv
    <3>2. CASE u = t
      <4>1. /\ j = i /\ c.op = "put" /\ c.idx = 0
            /\ call'[t].op = "sethead" /\ call'[t].idx = 0
            /\ call'[t].value = c.value /\ call'[t].step = "session"
        BY <1>0, <1>3, <1>7, <2>1, <3>2, OpIdle DEF Changes
      <4>2. Len(content) >= 1 /\ Block(content, 0) = c.value
        <5>1. Known(c, latest[f]) /\ latest[f] \in Contents /\ Len(latest[f]) \in Nat
          BY <1>0, <1>1, <1>5, <2>1, <4>1, ContentFacts
        <5>2. /\ Len(content) = c.size
              /\ \A k \in Nat : Block(content, k) = IF k = c.idx THEN c.value ELSE Block(latest[f], k)
          BY <1>0, <4>1, <5>1, AfterIs DEF content
        <5>3. c.size >= 1
          BY <1>0, <4>1, SizesAreNat DEF Puts
        <5>. QED
          BY <4>1, <5>2, <5>3
      <4>. QED
        BY <1>6, <3>2, <4>1, <4>2 DEF Known
    <3>. QED
      BY <3>1, <3>2
  <2>2. /\ \A u \in Threads, j \in Inos : Uses(u, j) => ~New(j)
        /\ \A u, v \in Threads, j \in Inos : Changes(u, j) /\ Changes(v, j) => u = v
        /\ workload.locked => \A u, v \in Threads, j \in Inos : Uses(u, j) /\ Uses(v, j) => u = v
    BY DEF WriteInv, CallInv
  <2>3. \A u \in Threads, j \in Inos : Uses(u, j)' => ~New(j)'
    BY <1>4, <1>7, <2>2
  <2>4. \A u, v \in Threads, j \in Inos : Changes(u, j)' /\ Changes(v, j)' => u = v
    BY <1>7, <2>2
  <2>5. workload.locked => \A u, v \in Threads, j \in Inos : Uses(u, j)' /\ Uses(v, j)' => u = v
    BY <1>7, <2>2
  <2>. QED
    BY <1>4, <2>1, <2>3, <2>4, <2>5 DEF CallInv
<1>11. SessionInv'
  <2>1. \A j \in Inos : Landed(j)' <=> Landed(j)
    BY <1>0, <1>3, OpIdle DEF Landed
  <2>2. \A j \in Inos : j # i => Changing(j)' = Changing(j)
    <3>1. \A u \in Threads, j \in Inos : j # i => (Changes(u, j)' <=> Changes(u, j))
      BY <1>0, <1>7 DEF Changes
    <3>. QED
      BY <3>1, Users
  <2>3. \A j \in Inos : Alive(j) => named[j] \in Files
    BY AliveFile
  <2>4. workload.locked => flushing[i] = None
    <3>1. \A u \in Threads : call[u].op = "sync" => ~(workload.locked /\ call[u].ino = i)
      BY <1>0, <1>5 DEF Uses
    <3>. QED
      BY <3>1 DEF BaseInv, LockInv
  <2>5. t \in Changing(i)
    BY Users
  <2>6. ASSUME ~workload.locked, Alive(i)
        PROVE  /\ flushing[i] = None \/ ~Holed(flushing[i])
               /\ Holed(new) => changes = workload.changes /\ Changing(i)' = {}
    <3>1. (flushing[i] = None \/ ~Holed(flushing[i])) /\ (active[i] = None \/ ~Holed(active[i]))
      BY <2>5, <2>6 DEF WriteInv, SessionInv
    <3>2. ~Holed(s)
      <4>1. Base(i) \in 0 .. MaxSize /\ s # None
        BY <1>1, BaseType, NotNone
      <4>. QED
        BY <2>6, <3>1, <4>1, SessionShows
    <3>3. ASSUME Holed(new) PROVE changes = workload.changes /\ Changing(i)' = {}
      <4>1. c.op = "cut" /\ c.size > c.idx
        BY <1>9, <2>6, <3>2, <3>3
      <4>2. changes = workload.changes
        BY <2>6, <4>1 DEF WriteInv, GrowInv
      <4>3. \A u \in Threads : ~Changes(u, i)'
        <5>1. \A u \in Threads : Changes(u, i)' => u = t
          BY <1>5, <1>7
        <5>2. ~Changes(t, i)'
          BY <1>3, <4>1, OpIdle DEF Changes
        <5>. QED
          BY <5>1, <5>2
      <4>. QED
        BY <4>2, <4>3, Users
    <3>. QED
      BY <3>1, <3>3
  <2>7. ASSUME NEW j \in Inos
        PROVE  /\ Alive(j) =>
                    LET blocks == disk[named[j]].blocks IN
                    /\ flushing[j] # None => IF Landed(j) THEN Holds(flushing[j], blocks)
                                             ELSE SessionOver(flushing[j], Len(blocks))
                    /\ active'[j] # None =>
                         SessionOver(active'[j], IF flushing[j] # None THEN flushing[j].size ELSE Len(blocks))
               /\ New(j) => active'[j] = None /\ flushing[j] = None
               /\ workload.locked => active'[j] = None \/ flushing[j] = None
               /\ \/ workload.locked \/ ~Alive(j)
                  \/ /\ active'[j] # None /\ flushing[j] # None => ~Holed(flushing[j])
                     /\ \/ active'[j] # None /\ Holed(active'[j])
                        \/ flushing[j] # None /\ Holed(flushing[j])
                        => changes = workload.changes /\ Changing(j)' = {}
    <3>1. CASE j # i
      <4>1. active'[j] = active[j] /\ Changing(j)' = Changing(j)
        BY <1>6, <2>2, <3>1
      <4>. QED
        BY <4>1 DEF WriteInv, SessionInv
    <3>2. CASE j = i
      <4>1. Alive(i) =>
              LET blocks == disk[named[i]].blocks IN
              /\ flushing[i] # None => IF Landed(i) THEN Holds(flushing[i], blocks)
                                       ELSE SessionOver(flushing[i], Len(blocks))
              /\ SessionOver(new, IF flushing[i] # None THEN flushing[i].size ELSE Len(blocks))
        BY <1>9 DEF WriteInv, SessionInv, Base
      <4>2. ~New(i)
        BY <1>5
      <4>. QED
        BY <1>6, <2>4, <2>6, <3>2, <4>1, <4>2
    <3>. QED
      BY <3>1, <3>2
  <2>8. \A j \in Inos : disk[named[j]]' = disk[named[j]]
    OBVIOUS
  <2>. HIDE DEF SessionInv
  <2>. QED
    BY <1>4, <2>1, <2>7 DEF SessionInv
<1>12. GrowInv'
  <2>1. ASSUME NEW u \in Threads, NEW j \in Inos, Changes(u, j)', call'[u].op = "cut"
        PROVE  Changes(u, j) /\ call'[u] = call[u]
    BY <1>3, <1>7, <2>1, OpIdle
  <2>. QED
    BY <1>4, <2>1 DEF WriteInv, GrowInv
<1>13. DataInv'
  <2>1. ASSUME NEW j \in Inos, Alive(j), j # i
        PROVE  /\ Size(j, named[j])' = Len(latest'[named[j]])
               /\ \A k \in Idx : k < Size(j, named[j])' => Shown(j, named[j], k)' = Block(latest'[named[j]], k)
    <3>1. named[j] \in Files /\ named[j] # f
      BY <1>5, <2>1, AliveFile
    <3>2. latest'[named[j]] = latest[named[j]] /\ active'[j] = active[j]
      BY <1>6, <2>1, <3>1
    <3>3. Size(j, named[j])' = Size(j, named[j]) /\ \A k \in Idx : Shown(j, named[j], k)' = Shown(j, named[j], k)
      BY <3>2 DEF Size, Shown, Buffered
    <3>. QED
      BY <2>1, <3>2, <3>3 DEF WriteInv, DataInv
  <2>2. ASSUME Alive(i)
        PROVE  /\ Size(i, f)' = Len(latest'[f])
               /\ \A k \in Idx : k < Size(i, f)' => Shown(i, f, k)' = Block(latest'[f], k)
    <3>1. Size(i, f)' = new.size
      BY <1>6 DEF Size
    <3>2. \A k \in Idx : Shown(i, f, k)' = IF Shows(new, k) # None THEN Shows(new, k)
                        ELSE IF Shows(flushing[i], k) # None THEN Shows(flushing[i], k)
                        ELSE Block(disk[named[i]].blocks, k)
      BY <1>6 DEF Shown, Buffered
    <3>. QED
      BY <1>6, <1>9, <2>2, <3>1, <3>2
  <2>3. ASSUME NEW g \in Files, Exists(g), \A j \in Inos : named[j] # g PROVE disk[g].blocks = latest'[g]
    <3>1. g # f
      BY <2>3
    <3>. QED
      BY <1>6, <2>3, <3>1 DEF WriteInv, DataInv
  <2>4. \A g \in Files : Exists(g)' = Exists(g)
    BY DEF Exists, PathsOf
  <2>. QED
    BY <1>4, <2>1, <2>2, <2>3, <2>4 DEF DataInv
<1>. QED
  BY <1>8, <1>10, <1>11, <1>12, <1>13 DEF WriteInv

\* A change that has no session to go to yet, or has lost its file.
LEMMA WaitKeeps ==
    ASSUME BaseInv, WriteInv, NEW t \in Threads,
           UNCHANGED <<workload, tree, by_ino, named, disk, active, flushing, latest, changes>>,
           \A u \in Threads \ {t} : call'[u] = call[u],
           call[t].op \in {"put", "cut", "sethead"},
           \/ call'[t] = Idle
           \/ /\ call'[t].op = call[t].op /\ call'[t].ino = call[t].ino /\ call'[t].idx = call[t].idx
              /\ call'[t].size = call[t].size /\ call'[t].value = call[t].value
              /\ call'[t].path = by_ino[call[t].ino]
    PROVE  WriteInv'
<1>1. \A i \in Inos : (Alive(i)' <=> Alive(i)) /\ (New(i)' <=> New(i)) /\ (Mapped(i)' <=> Mapped(i))
  BY DEF Alive, Exists, PathsOf, New, Mapped
<1>2. \A u \in Threads, i \in Inos :
        /\ (Changes(u, i)' => Changes(u, i)) /\ (Uses(u, i)' => Uses(u, i))
        /\ Changes(u, i)' => call'[u] = call[u] \/ (u = t /\ call'[t].op # "idle")
  BY OpIdle DEF Changes, Uses, Reading
<1>3. NameInv'
  <2>1. NsFree' = NsFree /\ \A u \in Threads : call'[u].op = "rename" => call'[u] = call[u]
    BY OpIdle DEF NsFree
  <2>. QED
    BY <1>1, <2>1 DEF NameInv, WriteInv
<1>4. CallInv'
  <2>1. ASSUME NEW u \in Threads, NEW i \in Inos, Changes(u, i)', Alive(i)
        PROVE  /\ Known(call'[u], latest[named[i]])
               /\ workload.locked /\ call'[u].op = "sethead" => active[i] # None
               /\ ~workload.locked /\ call'[u].step = "first" => call'[u].path = by_ino[i]
    <3>1. /\ Known(call[u], latest[named[i]])
          /\ workload.locked /\ call[u].op = "sethead" => active[i] # None
          /\ ~workload.locked /\ call[u].step = "first" => call[u].path = by_ino[i]
      BY <1>2, <2>1 DEF WriteInv, CallInv
    <3>2. CASE call'[u] = call[u]
      BY <3>1, <3>2
    <3>3. CASE u = t /\ call'[t].op # "idle"
      <4>1. call[t].ino = i
        BY <1>2, <2>1, <3>3 DEF Changes
      <4>. QED
        BY <3>1, <3>3, <4>1, OpIdle DEF Known
    <3>. QED
      BY <1>2, <2>1, <3>2, <3>3
  <2>. QED
    BY <1>1, <1>2, <2>1 DEF CallInv, WriteInv
<1>5. SessionInv'
  <2>1. \A i \in Inos : Landed(i)' <=> Landed(i)
    BY OpIdle DEF Landed
  <2>2. \A i \in Inos : Changing(i) = {} => Changing(i)' = {}
    BY <1>2, Users
  <2>. QED
    BY <1>1, <2>1, <2>2 DEF SessionInv, WriteInv
<1>6. GrowInv'
  <2>1. \A u \in Threads : call[u].op = "cut" /\ call'[u].op = "cut" => /\ call'[u].size = call[u].size
                                                                      /\ call'[u].idx = call[u].idx
    BY OpIdle
  <2>2. \A u \in Threads : call'[u].op = "cut" => call[u].op = "cut"
    BY OpIdle
  <2>. QED
    BY <1>1, <1>2, <2>1, <2>2 DEF GrowInv, WriteInv
<1>7. DataInv'
  <2>1. \A f \in Files, j \in Inos : Size(j, f)' = Size(j, f)
    BY DEF Size
  <2>2. \A f \in Files, j \in Inos, k \in Idx : Shown(j, f, k)' = Shown(j, f, k)
    BY DEF Shown, Buffered
  <2>3. \A f \in Files : Exists(f)' = Exists(f)
    BY DEF Exists, PathsOf
  <2>. QED
    BY <1>1, <2>1, <2>2, <2>3, AliveFile DEF DataInv, WriteInv
<1>. QED
  BY <1>3, <1>4, <1>5, <1>6, <1>7 DEF WriteInv

LEMMA WriteKeeps ==
    ASSUME BaseInv, WriteInv, UNCHANGED workload, NEW t \in Threads, Write(t) PROVE WriteInv'
<1>. DEFINE i == call[t].ino
<1>0. /\ call[t].op \in {"put", "cut", "sethead"} /\ Changes(t, i) /\ i \in Inos
      /\ UNCHANGED <<tree, by_ino, named, disk, flushing, changes>>
      /\ call \in [Threads -> Calls] /\ call[t] \in Calls /\ call[t] \in Puts \cup Cuts
      /\ active[i] \in Sessions \cup {None} /\ flushing[i] \in Sessions \cup {None}
  <2>1. call[t].op \in {"put", "cut", "sethead"} /\ UNCHANGED <<tree, by_ino, named, disk, flushing, changes>>
    BY DEF Write, WithSession, FirstChange, namespace
  <2>2. i \in Inos /\ call[t] \in Puts \cup Cuts
    BY <2>1, FieldTypes DEF BaseInv
  <2>. QED
    BY <2>1, <2>2 DEF Changes, BaseInv, TypeInv, TypeOK
<1>1. CASE WithSession(t) /\ active[i] # None /\ Change(t, active[i])
  BY <1>0, <1>1, ChangeKeeps
<1>2. CASE WithSession(t) /\ ~(active[i] # None /\ Change(t, active[i]))
  <2>1. /\ UNCHANGED <<active, latest>>
        /\ \/ Goto(t, [call[t] EXCEPT !.step = "first", !.path = by_ino[i]])
           \/ Goto(t, Idle)
    BY <1>2 DEF WithSession, Return
  <2>2. \A u \in Threads \ {t} : call'[u] = call[u]
    BY <1>0, <2>1 DEF Goto
  <2>3. CASE Goto(t, Idle)
    <3>1. call'[t] = Idle
      BY <1>0, <2>3 DEF Goto
    <3>. QED
      BY <1>0, <2>1, <2>2, <3>1, WaitKeeps
  <2>4. CASE Goto(t, [call[t] EXCEPT !.step = "first", !.path = by_ino[i]])
    <3>1. call'[t] = [call[t] EXCEPT !.step = "first", !.path = by_ino[i]]
      BY <1>0, <2>4 DEF Goto
    <3>2. /\ call'[t].op = call[t].op /\ call'[t].ino = call[t].ino /\ call'[t].idx = call[t].idx
          /\ call'[t].size = call[t].size /\ call'[t].value = call[t].value
          /\ call'[t].path = by_ino[call[t].ino]
      BY <1>0, <3>1 DEF Puts, Cuts
    <3>. QED
      BY <1>0, <2>1, <2>2, <3>2, WaitKeeps
  <2>. QED
    BY <2>1, <2>3, <2>4
<1>3. CASE FirstChange(t)
  <2>. DEFINE f == tree[call[t].path]
              n == IF flushing[i] # None THEN flushing[i].size ELSE IF f # None THEN Len(disk[f].blocks) ELSE 0
              s == IF active[i] # None THEN active[i] ELSE Session(n)
  <2>1. Change(t, s) /\ call[t].step = "first"
    BY <1>3 DEF FirstChange
  <2>2. n \in 0 .. MaxSize
    <3>1. call[t].path \in Paths
      BY <1>0, <2>1, NotNone DEF BaseInv, TypeInv, StepOK, Puts, Cuts
    <3>2. f # None => f \in Files /\ disk[f].blocks \in Contents
      BY <3>1 DEF BaseInv, TypeInv, TypeOK, Archives
    <3>3. flushing[i] # None => flushing[i].size \in 0 .. MaxSize
      BY <1>0, SessionFacts
    <3>. QED
      BY <3>2, <3>3, ContentFacts, SizesAreNat
  <2>3. s \in Sessions
    BY <1>0, <2>2, SessionIs
  <2>4. CASE active[i] # None \/ ~Alive(i)
    BY <1>0, <2>1, <2>3, <2>4, ChangeKeeps
  <2>5. CASE active[i] = None /\ Alive(i)
    <3>1. named[i] \in Files /\ Base(i) \in 0 .. MaxSize
      BY <1>0, <2>5, AliveFile, BaseType
    <3>2. CASE call[t].op \in {"put", "cut"}
      <4>1. s = Session(n)
        BY <2>5
      <4>2. Applied(call[t], Session(n)) = Applied(call[t], Session(Base(i)))
        BY <1>0, <2>2, <3>1, <3>2, AnySession
      <4>3. Change(t, Session(Base(i)))
        <5>. HIDE DEF s, n
        <5>. QED
          BY <2>1, <4>1, <4>2 DEF Change
      <4>4. Session(Base(i)) \in Sessions
        BY <3>1, SessionIs
      <4>. QED
        BY <1>0, <2>5, <4>3, <4>4, ChangeKeeps
    <3>3. CASE call[t].op = "sethead"
      <4>1. ~workload.locked /\ call[t].path = by_ino[i] /\ NsFree
        BY <1>0, <2>1, <2>5, <3>3 DEF WriteInv, CallInv, NameInv, NsFree
      <4>2. f = named[i] /\ f # None
        BY <1>0, <2>5, <4>1 DEF WriteInv, NameInv, Alive, Exists
      <4>3. n = Base(i)
        BY <4>2 DEF Base
      <4>. QED
        BY <1>0, <2>1, <2>3, <2>5, <4>3, ChangeKeeps
    <3>. QED
      BY <1>0, <3>2, <3>3
  <2>. QED
    BY <2>4, <2>5
<1>. QED
  BY <1>1, <1>2, <1>3 DEF Write

-----------------------------------------------------------------------------
(* Commits                                                                  *)

\* Where the commit lock is free no rename is under way.
LEMMA FreeLock ==
    ASSUME BaseInv, WriteInv, committer = None
    PROVE  /\ NsFree /\ \A i \in Inos : flushing[i] = None
           /\ \A t \in Threads : call[t].op \notin {"sync", "rename"}
  BY NotNone DEF BaseInv, LockInv, NsFree, TypeInv

LEMMA SwapKeeps ==
    ASSUME BaseInv, WriteInv, UNCHANGED workload, NEW t \in Threads, NEW i \in Inos, Swap(t, i) PROVE WriteInv'
<1>0. /\ call \in [Threads -> Calls]
      /\ active \in [Inos -> Sessions \cup {None}] /\ flushing \in [Inos -> Sessions \cup {None}]
  BY DEF BaseInv, TypeInv, TypeOK
<1>1. /\ UNCHANGED <<tree, by_ino, named, disk, latest, changes>>
      /\ call[t] = Idle /\ Mapped(i) /\ (workload.locked => Using(i) = {})
      /\ active[i] # None /\ committer = None
      /\ active' = [active EXCEPT ![i] = None] /\ flushing' = [flushing EXCEPT ![i] = active[i]]
      /\ call' = [call EXCEPT ![t] = [op |-> "sync", step |-> "commit", ino |-> i]]
  BY DEF Swap, MayCall, Goto, namespace
<1>2. /\ NsFree /\ \A j \in Inos : flushing[j] = None
      /\ \A u \in Threads : call[u].op \notin {"sync", "rename"}
  BY <1>1, FreeLock
<1>3. /\ call'[t].op = "sync" /\ call'[t].step = "commit" /\ call'[t].ino = i
      /\ \A u \in Threads \ {t} : call'[u] = call[u]
      /\ call[t].op = "idle"
  BY <1>0, <1>1, OpIdle
<1>4. \A j \in Inos : (Alive(j)' <=> Alive(j)) /\ (New(j)' <=> New(j)) /\ (Mapped(j)' <=> Mapped(j))
  BY <1>1 DEF Alive, Exists, PathsOf, New, Mapped
<1>5. \A u \in Threads, j \in Inos :
        /\ Changes(u, j)' <=> Changes(u, j)
        /\ Uses(u, j)' <=> Uses(u, j) \/ (u = t /\ j = i)
        /\ Changes(u, j) => call'[u] = call[u]
  BY <1>3 DEF Changes, Uses, Reading
<1>6. /\ active'[i] = None /\ flushing'[i] = active[i]
      /\ \A j \in Inos : j # i => active'[j] = active[j] /\ flushing'[j] = flushing[j]
  BY <1>0, <1>1
<1>7. NameInv'
  <2>1. NsFree' = NsFree /\ \A u \in Threads : call'[u].op = "rename" => call'[u] = call[u]
    BY <1>3 DEF NsFree
  <2>. QED
    BY <1>1, <1>4, <2>1 DEF NameInv, WriteInv
<1>8. CallInv'
  <2>1. ~New(i) /\ (workload.locked => \A u \in Threads : ~Uses(u, i))
    BY <1>1, Users DEF WriteInv, NameInv
  <2>2. ASSUME NEW u \in Threads, NEW j \in Inos, Changes(u, j), Alive(j)
        PROVE  workload.locked => active'[j] = active[j]
    <3>1. workload.locked => j # i
      BY <2>1, <2>2, Users
    <3>. QED
      BY <1>6, <3>1
  <2>3. /\ \A u \in Threads, j \in Inos : Uses(u, j) => ~New(j)
        /\ \A u, v \in Threads, j \in Inos : Changes(u, j) /\ Changes(v, j) => u = v
        /\ workload.locked => \A u, v \in Threads, j \in Inos : Uses(u, j) /\ Uses(v, j) => u = v
        /\ \A u \in Threads, j \in Inos : Changes(u, j) /\ Alive(j) =>
             /\ Known(call[u], latest[named[j]])
             /\ workload.locked /\ call[u].op = "sethead" => active[j] # None
             /\ ~workload.locked /\ call[u].step = "first" => call[u].path = by_ino[j]
    BY DEF WriteInv, CallInv
  <2>4. workload.locked => \A u, v \in Threads, j \in Inos : Uses(u, j)' /\ Uses(v, j)' => u = v
    BY <1>5, <2>1, <2>3
  <2>. QED
    BY <1>1, <1>4, <1>5, <2>1, <2>2, <2>3, <2>4 DEF CallInv
<1>9. SessionInv'
  <2>1. \A j \in Inos : ~Landed(j)' /\ ~Landed(j)
    BY <1>2, <1>3 DEF Landed
  <2>2. \A j \in Inos : Changing(j)' = Changing(j)
    BY <1>5, Users
  <2>3. ~New(i)
    BY <1>1 DEF WriteInv, NameInv
  <2>4. ASSUME NEW j \in Inos
        PROVE  /\ Alive(j) =>
                    LET blocks == disk[named[j]].blocks IN
                    /\ flushing'[j] # None => SessionOver(flushing'[j], Len(blocks))
                    /\ active'[j] # None =>
                         SessionOver(active'[j], IF flushing'[j] # None THEN flushing'[j].size ELSE Len(blocks))
               /\ New(j) => active'[j] = None /\ flushing'[j] = None
               /\ workload.locked => active'[j] = None \/ flushing'[j] = None
               /\ \/ workload.locked \/ ~Alive(j)
                  \/ /\ active'[j] # None /\ flushing'[j] # None => ~Holed(flushing'[j])
                     /\ \/ active'[j] # None /\ Holed(active'[j])
                        \/ flushing'[j] # None /\ Holed(flushing'[j])
                        => changes = workload.changes /\ Changing(j) = {}
    <3>1. CASE j # i
      BY <1>2, <1>6, <3>1 DEF WriteInv, SessionInv
    <3>2. CASE j = i
      BY <1>1, <1>2, <1>6, <2>3, <3>2 DEF WriteInv, SessionInv
    <3>. QED
      BY <3>1, <3>2
  <2>. QED
    BY <1>1, <1>4, <2>1, <2>2, <2>4 DEF SessionInv
<1>10. GrowInv'
  BY <1>1, <1>4, <1>5 DEF WriteInv, GrowInv
<1>11. DataInv'
  <2>1. \A f \in Files, j \in Inos : Size(j, f)' = Size(j, f)
    BY <1>1, <1>2, <1>6 DEF Size
  <2>2. ASSUME NEW f \in Files, NEW j \in Inos, NEW k \in Idx PROVE Shown(j, f, k)' = Shown(j, f, k)
    <3>1. CASE j # i
      BY <1>1, <1>6, <3>1 DEF Shown, Buffered
    <3>2. CASE j = i
      <4>1. Shows(flushing[i], k) = None /\ Shows(None, k) = None
        BY <1>2 DEF Shows
      <4>. QED
        BY <1>1, <1>6, <3>2, <4>1 DEF Shown, Buffered
    <3>. QED
      BY <3>1, <3>2
  <2>3. \A f \in Files : Exists(f)' = Exists(f)
    BY <1>1 DEF Exists, PathsOf
  <2>. QED
    BY <1>1, <1>4, <2>1, <2>2, <2>3, AliveFile DEF DataInv, WriteInv
<1>. QED
  BY <1>7, <1>8, <1>9, <1>10, <1>11 DEF WriteInv

\* The one commit under way.
LEMMA CommitFacts ==
    ASSUME BaseInv, WriteInv, NEW t \in Threads, call[t].op = "sync"
    PROVE  LET i == call[t].ino IN
           /\ i \in Inos /\ call[t] \in Syncs /\ flushing[i] \in Sessions /\ flushing[i] # None
           /\ \A j \in Inos : j # i => flushing[j] = None
           /\ \A u \in Threads : call[u].op \in {"sync", "rename"} => u = t
           /\ NsFree /\ ~New(i) /\ Mapped(i) /\ tree[by_ino[i]] = named[i]
           /\ (Landed(i) <=> call[t].step # "commit")
           /\ active[i] \in Sessions \cup {None}
<1>. DEFINE i == call[t].ino
<1>1. i \in Inos /\ call[t] \in Syncs
  BY FieldTypes DEF BaseInv
<1>2. /\ \A u \in Threads : call[u].op \in {"sync", "rename"} => u = t
      /\ flushing[i] # None /\ Mapped(i)
      /\ \A j \in Inos : flushing[j] # None => \E u \in Threads : call[u].op = "sync" /\ call[u].ino = j
  BY DEF BaseInv, LockInv
<1>3. \A j \in Inos : j # i => flushing[j] = None
  BY <1>2
<1>4. NsFree
  BY <1>2 DEF NsFree
<1>5. ~New(i) /\ tree[by_ino[i]] = named[i]
  BY <1>1, <1>2, <1>4 DEF WriteInv, NameInv
<1>6. Landed(i) <=> call[t].step # "commit"
  BY <1>2 DEF Landed
<1>7. flushing[i] \in Sessions /\ active[i] \in Sessions \cup {None}
  BY <1>1, <1>2 DEF BaseInv, TypeInv, TypeOK
<1>. QED
  BY <1>1, <1>2, <1>3, <1>4, <1>5, <1>6, <1>7

LEMMA CommitFrame ==
    ASSUME BaseInv, WriteInv, UNCHANGED <<workload, tree, by_ino, named, latest, changes>>,
           NEW t \in Threads, call[t].op = "sync", \A u \in Threads \ {t} : call'[u] = call[u],
           call'[t] = Idle \/ (call'[t].op = "sync" /\ call'[t].ino = call[t].ino),
           \A i \in Inos : active[i] # None => active'[i] # None
    PROVE  /\ NameInv' /\ CallInv' /\ GrowInv'
           /\ \A i \in Inos : /\ (Alive(i)' <=> Alive(i)) /\ (New(i)' <=> New(i))
                              /\ Changing(i)' = Changing(i)
           /\ \A f \in Files : Exists(f)' = Exists(f)
<1>1. \A i \in Inos : (Alive(i)' <=> Alive(i)) /\ (New(i)' <=> New(i)) /\ (Mapped(i)' <=> Mapped(i))
  BY DEF Alive, Exists, PathsOf, New, Mapped
<1>2. \A u \in Threads, i \in Inos :
        /\ Changes(u, i)' <=> Changes(u, i)
        /\ Uses(u, i)' => Uses(u, i)
        /\ Changes(u, i) => call'[u] = call[u]
  BY OpIdle DEF Changes, Uses, Reading
<1>3. \A i \in Inos : Changing(i)' = Changing(i)
  BY <1>2, Users
<1>4. NameInv'
  <2>1. NsFree' = NsFree /\ \A u \in Threads : call'[u].op = "rename" => call'[u] = call[u]
    BY OpIdle DEF NsFree
  <2>. QED
    BY <1>1, <2>1 DEF NameInv, WriteInv
<1>5. CallInv'
  BY <1>1, <1>2 DEF WriteInv, CallInv
<1>6. GrowInv'
  BY <1>1, <1>2 DEF WriteInv, GrowInv
<1>7. \A f \in Files : Exists(f)' = Exists(f)
  BY DEF Exists, PathsOf
<1>. QED
  BY <1>1, <1>3, <1>4, <1>5, <1>6, <1>7

\* What a session is over becomes what it shows.
LEMMA CommittedHolds ==
    ASSUME NEW s \in Sessions, NEW a \in Archives, SessionOver(s, Len(a.blocks))
    PROVE  /\ Holds(s, Committed(s, a).blocks)
           /\ \A k \in Idx : k < s.size /\ Shows(s, k) = None => Block(Committed(s, a).blocks, k) = Block(a.blocks, k)
<1>. DEFINE b == Committed(s, a).blocks
<1>1. /\ b \in Contents /\ Len(b) = NewSize(s, a) /\ s # None
      /\ \A k \in Idx : k < NewSize(s, a) => Block(b, k) = NewBlock(s, a, k)
  BY CommittedIs, NotNone DEF Archives
<1>2. NewSize(s, a) = s.size
  BY DEF NewSize, SessionOver
<1>3. s.size \in Nat /\ s.keep \in Nat /\ \A k \in Idx : k \in Nat /\ s.dirty[k] \in Vals \cup {0, None}
  BY SessionFacts, SizesAreNat
<1>4. \A k \in Idx : k >= s.size => Block(b, k) = 0
  BY <1>1, <1>2, <1>3, BlockType
<1>. HIDE DEF b
<1>5. ASSUME NEW k \in Idx, Shows(s, k) # None PROVE Block(b, k) = Shows(s, k)
  <2>1. CASE s.dirty[k] # None
    BY <1>1, <1>2, <2>1 DEF Shows, NewBlock, SessionOver
  <2>2. CASE s.dirty[k] = None
    <3>1. k >= s.keep /\ Shows(s, k) = 0
      BY <1>1, <1>5, <2>2 DEF Shows
    <3>. QED
      BY <1>1, <1>2, <1>3, <1>4, <2>2, <3>1 DEF NewBlock
  <2>. QED
    BY <2>1, <2>2
<1>6. ASSUME NEW k \in Idx, k < s.size, Shows(s, k) = None PROVE Block(b, k) = Block(a.blocks, k)
  <2>1. s.dirty[k] = None /\ k < s.keep
    BY <1>1, <1>3, <1>6, NotNone DEF Shows
  <2>. QED
    BY <1>1, <1>2, <1>6, <2>1 DEF NewBlock
<1>. QED
  BY <1>1, <1>2, <1>5, <1>6 DEF Holds, b

LEMMA PublishKeeps ==
    ASSUME BaseInv, WriteInv, UNCHANGED workload, NEW t \in Threads, Publish(t),
           NEW i \in Inos, i = call[t].ino
    PROVE  WriteInv'
<1>. DEFINE f == named[i]
            s == flushing[i]
            b == Committed(s, disk[f]).blocks
<1>0. /\ call[t].op = "sync" /\ call[t].step = "commit" /\ Target(t) # None
      /\ UNCHANGED <<tree, by_ino, named, latest, changes, active, flushing>>
      /\ Goto(t, [call[t] EXCEPT !.step = "bump"])
      /\ disk' = [disk EXCEPT ![Target(t)] = Committed(s, disk[Target(t)])]
      /\ call \in [Threads -> Calls] /\ disk \in [Files -> Archives]
  BY DEF Publish, At, Step, namespace, sessions, BaseInv, TypeInv, TypeOK
<1>1. /\ i \in Inos /\ call[t] \in Syncs /\ s \in Sessions /\ s # None
      /\ \A j \in Inos : j # i => flushing[j] = None
      /\ NsFree /\ ~New(i) /\ Mapped(i) /\ tree[by_ino[i]] = f
      /\ ~Landed(i)
      /\ active[i] \in Sessions \cup {None}
  BY <1>0, CommitFacts
<1>2. Target(t) = f /\ f \in Files /\ Alive(i)
  <2>1. Target(t) = f /\ f # None /\ by_ino[i] \in Paths
    BY <1>0, <1>1 DEF Target, BaseInv, TypeInv, TypeOK, Mapped
  <2>2. f \in Files
    BY <1>1, <2>1 DEF BaseInv, TypeInv, TypeOK
  <2>. QED
    BY <1>1, <2>1, <2>2 DEF Alive, Exists, PathsOf
<1>3. /\ disk'[f].blocks = b /\ \A g \in Files : g # f => disk'[g] = disk[g]
      /\ \A u \in Threads \ {t} : call'[u] = call[u]
      /\ call'[t].op = "sync" /\ call'[t].ino = i /\ call'[t].step = "bump"
  BY <1>0, <1>1, <1>2 DEF Goto, Syncs
<1>4. /\ NameInv' /\ CallInv' /\ GrowInv'
      /\ \A j \in Inos : /\ (Alive(j)' <=> Alive(j)) /\ (New(j)' <=> New(j))
                         /\ Changing(j)' = Changing(j)
      /\ \A g \in Files : Exists(g)' = Exists(g)
  BY <1>0, <1>3, CommitFrame
<1>5. /\ SessionOver(s, Len(disk[f].blocks))
      /\ active[i] # None => SessionOver(active[i], s.size)
  BY <1>1, <1>2 DEF WriteInv, SessionInv
<1>6. /\ Holds(s, b)
      /\ \A k \in Idx : k < s.size /\ Shows(s, k) = None => Block(b, k) = Block(disk[f].blocks, k)
  BY <1>0, <1>1, <1>2, <1>5, CommittedHolds
<1>7. \A j \in Inos : Alive(j) /\ j # i => named[j] \in Files /\ disk'[named[j]] = disk[named[j]]
  BY <1>1, <1>2, <1>3, AliveFile DEF WriteInv, NameInv, New
<1>. HIDE DEF b
<1>8. SessionInv'
  <2>1. Landed(i)'
    BY <1>3 DEF Landed
  <2>2. ASSUME NEW j \in Inos, Alive(j)
        PROVE  LET blocks == disk'[named[j]].blocks IN
               /\ flushing[j] # None => IF Landed(j)' THEN Holds(flushing[j], blocks)
                                        ELSE SessionOver(flushing[j], Len(blocks))
               /\ active[j] # None =>
                    SessionOver(active[j], IF flushing[j] # None THEN flushing[j].size ELSE Len(blocks))
    <3>1. CASE j = i
      BY <1>1, <1>3, <1>5, <1>6, <2>1, <3>1
    <3>2. CASE j # i
      BY <1>1, <1>7, <2>2, <3>2 DEF WriteInv, SessionInv
    <3>. QED
      BY <3>1, <3>2
  <2>. QED
    BY <1>0, <1>4, <2>2 DEF WriteInv, SessionInv
<1>9. DataInv'
  <2>1. ASSUME NEW j \in Inos, Alive(j), j # i
        PROVE  /\ Size(j, named[j])' = Len(latest[named[j]])
               /\ \A k \in Idx : k < Size(j, named[j])' => Shown(j, named[j], k)' = Block(latest[named[j]], k)
    <3>1. Size(j, named[j])' = Size(j, named[j]) /\ \A k \in Idx : Shown(j, named[j], k)' = Shown(j, named[j], k)
      BY <1>0, <1>7, <2>1 DEF Size, Shown, Buffered
    <3>. QED
      BY <2>1, <3>1 DEF WriteInv, DataInv
  <2>2. Size(i, f)' = Size(i, f)
    BY <1>0, <1>1 DEF Size
  <2>3. ASSUME NEW k \in Idx, k < Size(i, f) PROVE Shown(i, f, k)' = Shown(i, f, k)
    <3>1. Buffered(i, k)' = Buffered(i, k)
      BY <1>0 DEF Buffered
    <3>2. CASE Buffered(i, k) # None
      BY <3>1, <3>2 DEF Shown
    <3>3. CASE Buffered(i, k) = None
      <4>1. Shows(s, k) = None /\ Shows(active[i], k) = None
        BY <3>3 DEF Buffered
      <4>2. k < s.size
        <5>1. CASE active[i] = None
          BY <1>1, <2>3, <5>1 DEF Size
        <5>2. CASE active[i] # None
          <6>1. active[i] \in Sessions /\ k < active[i].size
            BY <1>1, <2>3, <5>2 DEF Size
          <6>2. active[i].dirty[k] = None /\ k < active[i].keep /\ s.size \in Nat /\ k \in Nat
            BY <1>1, <4>1, <6>1, SessionFacts, SizesAreNat, NotNone DEF Shows
          <6>. QED
            BY <1>5, <6>1, <6>2, <5>2 DEF SessionOver
        <5>. QED
          BY <5>1, <5>2
      <4>. QED
        BY <1>0, <1>3, <1>6, <3>1, <3>3, <4>1, <4>2 DEF Shown
    <3>. QED
      BY <3>2, <3>3
  <2>4. ASSUME NEW g \in Files, Exists(g), \A j \in Inos : named[j] # g PROVE disk'[g].blocks = latest[g]
    BY <1>1, <1>3, <2>4 DEF WriteInv, DataInv
  <2>. QED
    BY <1>0, <1>2, <1>4, <2>1, <2>2, <2>3, <2>4 DEF WriteInv, DataInv
<1>. QED
  BY <1>4, <1>8, <1>9 DEF WriteInv

\* Sessions over one another make one session.
LEMMA MergedOver ==
    ASSUME NEW a \in Sessions, NEW s \in Sessions, NEW base \in 0 .. MaxSize,
           SessionOver(a, s.size), SessionOver(s, base), ~Holed(s)
    PROVE  /\ SessionOver(Merged(a, s), base) /\ Merged(a, s).size = a.size
           /\ Holed(Merged(a, s)) => Holed(a)
           /\ \A k \in Idx : k < a.size =>
                Shows(Merged(a, s), k) = IF Shows(a, k) # None THEN Shows(a, k) ELSE Shows(s, k)
<1>. DEFINE m == Merged(a, s)
<1>0. /\ a.size \in 0 .. MaxSize /\ s.size \in 0 .. MaxSize
      /\ a.keep \in 0 .. NoKeep /\ s.keep \in 0 .. NoKeep
      /\ \A k \in Idx : k \in Nat /\ k < NoKeep
      /\ MaxSize \in Nat /\ NoKeep = MaxSize + 1 /\ 0 # None
      /\ a # None /\ s # None /\ m # None
  BY SessionFacts, SizesAreNat, NotNone, MergedType
<1>1. /\ \A k \in Idx : m.dirty[k] = IF a.dirty[k] # None THEN a.dirty[k]
                                     ELSE IF k < a.keep THEN s.dirty[k] ELSE None
      /\ m.size = a.size
      /\ m.keep = IF a.keep # NoKeep THEN a.keep ELSE s.keep
  BY MergedIs
<1>. HIDE DEF m
\* Below a's keep, what s knows is dirty in s, or kept by it.
<1>2. ASSUME NEW k \in Idx, k < a.size, k < a.keep, a.dirty[k] = None
      PROVE  k < s.size /\ (k >= s.keep => s.dirty[k] # None)
  BY <1>0, <1>2 DEF SessionOver, Holed
<1>3. \A k \in Idx : m.dirty[k] # None => k < m.size
  BY <1>0, <1>1 DEF SessionOver
<1>4. ~Changed(m) => m.size = base
  <2>. SUFFICES ASSUME ~Changed(m) PROVE m.size = base
    OBVIOUS
  <2>1. a.keep = NoKeep /\ s.keep = NoKeep /\ \A k \in Idx : a.dirty[k] = None /\ s.dirty[k] = None
    BY <1>0, <1>1 DEF Changed
  <2>. QED
    BY <1>1, <2>1 DEF Changed, SessionOver
<1>5. IF m.keep = NoKeep THEN m.size >= base ELSE m.keep <= m.size
  BY <1>0, <1>1 DEF SessionOver
<1>6. \A k \in Idx : k < m.size /\ k < m.keep /\ k >= base => m.dirty[k] # None
  BY <1>0, <1>1, <1>2 DEF SessionOver
<1>7. SessionOver(m, base)
  BY <1>3, <1>4, <1>5, <1>6 DEF SessionOver
<1>8. Holed(m) => Holed(a)
  BY <1>0, <1>1, <1>2 DEF Holed
<1>9. ASSUME NEW k \in Idx, k < a.size
      PROVE  Shows(m, k) = IF Shows(a, k) # None THEN Shows(a, k) ELSE Shows(s, k)
  <2>1. CASE a.dirty[k] # None
    BY <1>0, <1>1, <2>1 DEF Shows
  <2>2. CASE a.dirty[k] = None /\ k >= a.keep
    BY <1>0, <1>1, <2>2 DEF Shows
  <2>3. CASE a.dirty[k] = None /\ k < a.keep
    BY <1>0, <1>1, <1>2, <1>9, <2>3 DEF Shows
  <2>. QED
    BY <1>0, <2>1, <2>2, <2>3
<1>. QED
  BY <1>1, <1>7, <1>8, <1>9 DEF m

LEMMA FailKeeps ==
    ASSUME BaseInv, WriteInv, UNCHANGED workload, NEW t \in Threads, FailCommit(t),
           NEW i \in Inos, i = call[t].ino
    PROVE  WriteInv'
<1>. DEFINE f == named[i]
            s == flushing[i]
            a == active[i]
            m == IF a = None THEN s ELSE Merged(a, s)
<1>0. /\ call[t].op = "sync" /\ call[t].step = "commit"
      /\ UNCHANGED <<tree, by_ino, named, latest, changes, disk>>
      /\ active' = [active EXCEPT ![i] = m]
      /\ flushing' = [flushing EXCEPT ![i] = None]
      /\ Goto(t, Idle)
      /\ call \in [Threads -> Calls]
      /\ active \in [Inos -> Sessions \cup {None}] /\ flushing \in [Inos -> Sessions \cup {None}]
  BY DEF FailCommit, At, Return, namespace, BaseInv, TypeInv, TypeOK
<1>1. /\ s \in Sessions /\ s # None
      /\ \A j \in Inos : j # i => flushing[j] = None
      /\ ~New(i) /\ ~Landed(i)
      /\ a \in Sessions \cup {None}
      /\ \A u \in Threads : call[u].op = "sync" => u = t
  BY <1>0, CommitFacts
<1>2. m \in Sessions /\ m # None
  BY <1>1, MergedType, NotNone
<1>3. /\ active'[i] = m /\ flushing'[i] = None
      /\ \A j \in Inos : j # i => active'[j] = active[j] /\ flushing'[j] = flushing[j]
      /\ \A u \in Threads \ {t} : call'[u] = call[u]
      /\ call'[t] = Idle
  BY <1>0 DEF Goto
<1>4. /\ NameInv' /\ CallInv' /\ GrowInv'
      /\ \A j \in Inos : /\ (Alive(j)' <=> Alive(j)) /\ (New(j)' <=> New(j))
                         /\ Changing(j)' = Changing(j)
      /\ \A g \in Files : Exists(g)' = Exists(g)
  <2>. HIDE DEF m
  <2>1. \A j \in Inos : active[j] # None => active'[j] # None
    BY <1>2, <1>3
  <2>. QED
    BY <1>0, <1>3, <2>1, CommitFrame
<1>5. ASSUME Alive(i)
      PROVE  /\ SessionOver(m, Len(disk[f].blocks))
             /\ m.size = Size(i, f)
             /\ \A k \in Idx : k < m.size => Shows(m, k) = Buffered(i, k)
             /\ ~workload.locked /\ Holed(m) => changes = workload.changes /\ Changing(i) = {}
  <2>1. SessionOver(s, Len(disk[f].blocks))
    BY <1>1, <1>5 DEF WriteInv, SessionInv
  <2>2. ~workload.locked /\ (Holed(s) \/ (a # None /\ Holed(a))) => changes = workload.changes /\ Changing(i) = {}
    BY <1>1, <1>5 DEF WriteInv, SessionInv
  <2>3. CASE a = None
    <3>1. \A k \in Idx : Shows(s, k) = Buffered(i, k)
      BY <2>3 DEF Shows, Buffered
    <3>. QED
      BY <1>1, <2>1, <2>2, <2>3, <3>1 DEF Size
  <2>4. CASE a # None
    <3>1. SessionOver(a, s.size) /\ ~Holed(s) /\ a \in Sessions
      BY <1>1, <1>5, <2>4 DEF WriteInv, SessionInv
    <3>2. Len(disk[f].blocks) \in 0 .. MaxSize
      <4>1. f \in Files
        BY <1>5, AliveFile
      <4>2. disk[f].blocks \in Contents
        BY <4>1 DEF BaseInv, TypeInv, TypeOK, Archives
      <4>. QED
        BY <4>2, ContentFacts
    <3>3. /\ SessionOver(Merged(a, s), Len(disk[f].blocks)) /\ Merged(a, s).size = a.size
          /\ Holed(Merged(a, s)) => Holed(a)
          /\ \A k \in Idx : k < a.size =>
               Shows(Merged(a, s), k) = IF Shows(a, k) # None THEN Shows(a, k) ELSE Shows(s, k)
      BY <1>1, <2>1, <3>1, <3>2, MergedOver
    <3>. QED
      BY <1>1, <2>2, <2>4, <3>3 DEF Size, Buffered
  <2>. QED
    BY <2>3, <2>4
<1>. HIDE DEF m
<1>6. SessionInv'
  <2>1. \A j \in Inos : ~Landed(j)' /\ ~Landed(j)
    BY <1>0, <1>1, <1>3, OpIdle DEF Landed
  <2>2. ASSUME NEW j \in Inos
        PROVE  /\ Alive(j) =>
                    LET blocks == disk[named[j]].blocks IN
                    /\ flushing'[j] # None => SessionOver(flushing'[j], Len(blocks))
                    /\ active'[j] # None =>
                         SessionOver(active'[j], IF flushing'[j] # None THEN flushing'[j].size ELSE Len(blocks))
               /\ New(j) => active'[j] = None /\ flushing'[j] = None
               /\ workload.locked => active'[j] = None \/ flushing'[j] = None
               /\ \/ workload.locked \/ ~Alive(j)
                  \/ /\ active'[j] # None /\ flushing'[j] # None => ~Holed(flushing'[j])
                     /\ \/ active'[j] # None /\ Holed(active'[j])
                        \/ flushing'[j] # None /\ Holed(flushing'[j])
                        => changes = workload.changes /\ Changing(j) = {}
    <3>1. CASE j # i
      BY <1>1, <1>3, <3>1 DEF WriteInv, SessionInv
    <3>2. CASE j = i
      BY <1>1, <1>2, <1>3, <1>5, <3>2
    <3>. QED
      BY <3>1, <3>2
  <2>. QED
    BY <1>0, <1>4, <2>1, <2>2 DEF SessionInv
<1>7. DataInv'
  <2>1. ASSUME NEW j \in Inos, Alive(j), j # i
        PROVE  /\ Size(j, named[j])' = Size(j, named[j])
               /\ \A k \in Idx : Shown(j, named[j], k)' = Shown(j, named[j], k)
    BY <1>0, <1>3, <2>1 DEF Size, Shown, Buffered
  <2>2. ASSUME Alive(i)
        PROVE  /\ Size(i, named[i])' = Size(i, named[i])
               /\ \A k \in Idx : k < Size(i, named[i]) => Shown(i, named[i], k)' = Shown(i, named[i], k)
    <3>1. Size(i, named[i])' = m.size
      BY <1>2, <1>3 DEF Size
    <3>2. \A k \in Idx : Buffered(i, k)' = Shows(m, k)
      BY <1>2, <1>3 DEF Buffered, Shows
    <3>. QED
      BY <1>0, <1>5, <2>2, <3>1, <3>2 DEF Shown
  <2>. QED
    BY <1>0, <1>4, <2>1, <2>2 DEF WriteInv, DataInv
<1>. QED
  BY <1>4, <1>6, <1>7 DEF WriteInv

LEMMA EndKeeps ==
    ASSUME BaseInv, WriteInv, UNCHANGED workload, NEW t \in Threads, EndCommit(t),
           NEW i \in Inos, i = call[t].ino
    PROVE  WriteInv'
<1>. DEFINE s == flushing[i]
<1>0. /\ call[t].op = "sync" /\ call[t].step = "end"
      /\ UNCHANGED <<tree, by_ino, named, latest, changes, disk, active>>
      /\ flushing' = [flushing EXCEPT ![i] = None]
      /\ Goto(t, Idle)
      /\ call \in [Threads -> Calls] /\ flushing \in [Inos -> Sessions \cup {None}]
  BY DEF EndCommit, At, Return, namespace, BaseInv, TypeInv, TypeOK
<1>1. /\ s \in Sessions /\ s # None
      /\ \A j \in Inos : j # i => flushing[j] = None
      /\ ~New(i) /\ Landed(i)
      /\ \A u \in Threads : call[u].op = "sync" => u = t
  BY <1>0, CommitFacts
<1>3. /\ flushing'[i] = None /\ \A j \in Inos : j # i => flushing'[j] = flushing[j]
      /\ \A u \in Threads \ {t} : call'[u] = call[u]
      /\ call'[t] = Idle
  BY <1>0 DEF Goto
<1>4. /\ NameInv' /\ CallInv' /\ GrowInv'
      /\ \A j \in Inos : /\ (Alive(j)' <=> Alive(j)) /\ (New(j)' <=> New(j))
                         /\ Changing(j)' = Changing(j)
      /\ \A g \in Files : Exists(g)' = Exists(g)
  BY <1>0, <1>3, CommitFrame
<1>5. Alive(i) => Holds(s, disk[named[i]].blocks)
  BY <1>1 DEF WriteInv, SessionInv
<1>6. SessionInv'
  <2>1. \A j \in Inos : ~Landed(j)' /\ (j # i => ~Landed(j))
    BY <1>0, <1>1, <1>3, OpIdle DEF Landed
  <2>2. ASSUME NEW j \in Inos
        PROVE  /\ Alive(j) =>
                    LET blocks == disk[named[j]].blocks IN
                    /\ flushing'[j] # None => SessionOver(flushing'[j], Len(blocks))
                    /\ active[j] # None =>
                         SessionOver(active[j], IF flushing'[j] # None THEN flushing'[j].size ELSE Len(blocks))
               /\ New(j) => active[j] = None /\ flushing'[j] = None
               /\ workload.locked => active[j] = None \/ flushing'[j] = None
               /\ \/ workload.locked \/ ~Alive(j)
                  \/ /\ active[j] # None /\ flushing'[j] # None => ~Holed(flushing'[j])
                     /\ \/ active[j] # None /\ Holed(active[j])
                        \/ flushing'[j] # None /\ Holed(flushing'[j])
                        => changes = workload.changes /\ Changing(j) = {}
    <3>1. CASE j # i
      BY <1>1, <1>3, <3>1 DEF WriteInv, SessionInv
    <3>2. CASE j = i
      BY <1>1, <1>3, <1>5, <3>2 DEF WriteInv, SessionInv, Holds
    <3>. QED
      BY <3>1, <3>2
  <2>. QED
    BY <1>0, <1>4, <2>1, <2>2 DEF SessionInv
<1>7. DataInv'
  <2>1. ASSUME NEW j \in Inos, Alive(j), j # i
        PROVE  /\ Size(j, named[j])' = Size(j, named[j])
               /\ \A k \in Idx : Shown(j, named[j], k)' = Shown(j, named[j], k)
    BY <1>0, <1>3, <2>1 DEF Size, Shown, Buffered
  <2>2. ASSUME Alive(i)
        PROVE  /\ Size(i, named[i])' = Size(i, named[i])
               /\ \A k \in Idx : Shown(i, named[i], k)' = Shown(i, named[i], k)
    <3>1. Size(i, named[i])' = Size(i, named[i])
      BY <1>0, <1>1, <1>3, <1>5, <2>2 DEF Size, Holds
    <3>2. \A k \in Idx : Shown(i, named[i], k)' = Shown(i, named[i], k)
      BY <1>0, <1>1, <1>3, <1>5, <2>2 DEF Shown, Buffered, Shows, Holds
    <3>. QED
      BY <3>1, <3>2
  <2>. QED
    BY <1>0, <1>4, <2>1, <2>2 DEF WriteInv, DataInv
<1>. QED
  BY <1>4, <1>6, <1>7 DEF WriteInv

-----------------------------------------------------------------------------
(* The namespace                                                            *)

\* A number for a file that has none.
Enters(p, i, f) ==
    /\ NsFree /\ New(i) /\ InosAt(p) = {} /\ f \in Files /\ \A j \in Inos : named[j] # f
    /\ by_ino' = [by_ino EXCEPT ![i] = p] /\ named' = [named EXCEPT ![i] = f]
    /\ tree'[p] = f /\ tree[p] \in {f, None}
    /\ \A q \in Paths : q # p => tree[q] # f /\ tree'[q] = tree[q]
    /\ disk'[f].blocks = latest'[f]
    /\ \A g \in Files : g # f => disk'[g] = disk[g] /\ latest'[g] = latest[g]
    /\ UNCHANGED <<workload, active, flushing, call, changes>>

LEMMA EnterKeeps ==
    ASSUME BaseInv, WriteInv, NEW p \in Paths, NEW i \in Inos, NEW f \in Files, Enters(p, i, f)
    PROVE  WriteInv'
<1>0. /\ by_ino \in [Inos -> Paths \cup {None}] /\ named \in [Inos -> Files \cup {None}] /\ p # None /\ f # None
  BY NotNone DEF BaseInv, TypeInv, TypeOK
<1>1. /\ by_ino'[i] = p /\ named'[i] = f
      /\ \A j \in Inos : j # i => by_ino'[j] = by_ino[j] /\ named'[j] = named[j]
  BY <1>0 DEF Enters
<1>2. \A g \in Files \cup {None} : g # f => (Exists(g)' <=> Exists(g))
  BY DEF Enters, Exists, PathsOf
<1>3. /\ Exists(f)' /\ Alive(i)' /\ ~New(i)' /\ ~Alive(i)
      /\ \A j \in Inos : j # i => (Alive(j)' <=> Alive(j)) /\ (New(j)' <=> New(j)) /\ named[j] # f
  <2>1. Exists(f)'
    BY <1>0 DEF Enters, Exists, PathsOf
  <2>2. \A j \in Inos : named[j] # f /\ named[j] \in Files \cup {None}
    BY <1>0 DEF Enters
  <2>. QED
    BY <1>0, <1>1, <1>2, <2>1, <2>2 DEF Alive, New, Enters, Exists
<1>4. NsFree' /\ \A t \in Threads : call'[t].op # "rename"
  BY DEF Enters, NsFree
<1>5. \A t \in Threads : ~Uses(t, i) /\ ~Changes(t, i)
  BY Users DEF WriteInv, CallInv, Enters
<1>6. \A t \in Threads, j \in Inos : (Uses(t, j)' <=> Uses(t, j)) /\ (Changes(t, j)' <=> Changes(t, j))
  BY DEF Enters, Uses, Changes, Reading
<1>7. NameInv'
  <2>1. \A q, r \in Paths : tree'[q] # None /\ tree'[q] = tree'[r] => q = r
    BY DEF Enters, WriteInv, NameInv
  <2>2. \A j, k \in Inos : named'[j] # None /\ named'[j] = named'[k] => j = k
    BY <1>1, <1>3 DEF WriteInv, NameInv
  <2>3. \A j \in Inos : (Mapped(j)' => ~New(j)') /\ (Alive(j)' => Mapped(j)')
    BY <1>0, <1>1, <1>3 DEF WriteInv, NameInv, Mapped
  <2>4. ASSUME NEW j \in Inos, Mapped(j)' PROVE tree'[by_ino'[j]] = named'[j]
    <3>1. CASE j = i
      BY <1>1, <3>1 DEF Enters
    <3>2. CASE j # i
      <4>1. by_ino[j] \in Paths /\ by_ino[j] # p /\ tree[by_ino[j]] = named[j]
        BY <1>0, <1>1, <2>4, <3>2 DEF Enters, WriteInv, NameInv, Mapped, InosAt
      <4>. QED
        BY <1>1, <3>2, <4>1 DEF Enters
    <3>. QED
      BY <3>1, <3>2
  <2>. QED
    BY <1>4, <2>1, <2>2, <2>3, <2>4 DEF NameInv
<1>8. \A j \in Inos : j # i /\ Alive(j) => /\ named[j] \in Files /\ named'[j] = named[j] /\ named[j] # f
                                          /\ disk'[named[j]] = disk[named[j]] /\ latest'[named[j]] = latest[named[j]]
  BY <1>1, <1>3, AliveFile DEF Enters
<1>9. CallInv'
  <2>1. ASSUME NEW t \in Threads, NEW j \in Inos, Changes(t, j), Alive(j)'
        PROVE  /\ Known(call[t], latest'[named'[j]])
               /\ workload.locked /\ call[t].op = "sethead" => active[j] # None
               /\ ~workload.locked /\ call[t].step = "first" => call[t].path = by_ino'[j]
    <3>1. j # i /\ Alive(j)
      BY <1>3, <1>5, <2>1
    <3>. QED
      BY <1>1, <1>8, <2>1, <3>1 DEF WriteInv, CallInv
  <2>. QED
    BY <1>3, <1>5, <1>6, <2>1 DEF WriteInv, CallInv, Enters
<1>10. SessionInv'
  <2>1. /\ \A j \in Inos : (Landed(j)' <=> Landed(j)) /\ Changing(j)' = Changing(j)
        /\ UNCHANGED <<active, flushing, workload, changes>>
    <3>1. \A j \in Inos : Changing(j)' = Changing(j)
      BY <1>6, Users
    <3>2. \A j \in Inos : Landed(j)' <=> Landed(j)
      BY DEF Landed, Enters
    <3>. QED
      BY <3>1, <3>2 DEF Enters
  <2>2. active[i] = None /\ flushing[i] = None
    BY DEF Enters, WriteInv, SessionInv
  <2>3. ASSUME NEW j \in Inos, Alive(j)'
        PROVE  /\ LET blocks == disk'[named'[j]].blocks IN
                  /\ flushing[j] # None => IF Landed(j) THEN Holds(flushing[j], blocks)
                                           ELSE SessionOver(flushing[j], Len(blocks))
                  /\ active[j] # None =>
                       SessionOver(active[j], IF flushing[j] # None THEN flushing[j].size ELSE Len(blocks))
               /\ \/ workload.locked
                  \/ /\ active[j] # None /\ flushing[j] # None => ~Holed(flushing[j])
                     /\ \/ active[j] # None /\ Holed(active[j])
                        \/ flushing[j] # None /\ Holed(flushing[j])
                        => changes = workload.changes /\ Changing(j) = {}
    <3>1. CASE j = i
      BY <2>2, <3>1
    <3>2. CASE j # i
      BY <1>3, <1>8, <2>3, <3>2 DEF WriteInv, SessionInv
    <3>. QED
      BY <3>1, <3>2
  <2>. QED
    BY <1>3, <2>1, <2>2, <2>3 DEF WriteInv, SessionInv
<1>11. GrowInv'
  BY <1>3, <1>5, <1>6 DEF WriteInv, GrowInv, Enters
<1>12. DataInv'
  <2>1. ASSUME NEW j \in Inos, Alive(j), j # i
        PROVE  /\ Size(j, named[j])' = Size(j, named[j])
               /\ \A k \in Idx : Shown(j, named[j], k)' = Shown(j, named[j], k)
    BY <1>8, <2>1 DEF Size, Shown, Buffered, Enters
  <2>2. /\ Size(i, named[i])' = Len(latest'[f])
        /\ \A k \in Idx : Shown(i, named[i], k)' = Block(latest'[f], k)
    <3>1. active'[i] = None /\ flushing'[i] = None
      BY DEF Enters, WriteInv, SessionInv
    <3>2. disk'[f].blocks = latest'[f]
      BY DEF Enters
    <3>. QED
      BY <1>1, <3>1, <3>2 DEF Size, Shown, Buffered, Shows
  <2>3. ASSUME NEW g \in Files, Exists(g)', \A j \in Inos : named'[j] # g PROVE disk'[g].blocks = latest'[g]
    <3>1. g # f /\ Exists(g)
      BY <1>1, <1>2, <2>3
    <3>2. \A j \in Inos : named[j] # g
      BY <1>1, <2>3, <3>1, NotNone DEF Enters, New
    <3>. QED
      BY <3>1, <3>2 DEF WriteInv, DataInv, Enters
  <2>4. ASSUME NEW j \in Inos, Alive(j)'
        PROVE  /\ Size(j, named[j])' = Len(latest'[named'[j]])
               /\ \A k \in Idx : k < Size(j, named[j])' => Shown(j, named[j], k)' = Block(latest'[named'[j]], k)
    <3>1. CASE j = i
      BY <1>1, <2>2, <3>1
    <3>2. CASE j # i
      BY <1>3, <1>8, <2>1, <2>4, <3>2 DEF WriteInv, DataInv
    <3>. QED
      BY <3>1, <3>2
  <2>. QED
    BY <2>3, <2>4 DEF DataInv
<1>. QED
  BY <1>7, <1>9, <1>10, <1>11, <1>12 DEF WriteInv

LEMMA EntersFile ==
    ASSUME BaseInv, WriteInv, UNCHANGED workload, NEW p \in Paths, NEW i \in Inos,
           Lookup(p, i) \/ \E f \in Files : Create(p, f, i)
    PROVE  \E f \in Files : Enters(p, i, f)
<1>0. /\ tree \in [Paths -> Files \cup {None}] /\ disk \in [Files -> Archives] /\ latest \in [Files -> Contents]
      /\ \A f \in Files : f # None
  BY NotNone DEF BaseInv, TypeInv, TypeOK
<1>1. CASE Lookup(p, i)
  <2>. DEFINE f == tree[p]
  <2>1. /\ NsFree /\ f # None /\ f \in Files /\ InosAt(p) = {} /\ Intern(p, i, f)
        /\ UNCHANGED <<tree, disk, active, flushing, call, latest, changes>>
    BY <1>0, <1>1 DEF Lookup, sessions
  <2>2. \A j \in Inos : named[j] # f
    <3>. SUFFICES ASSUME NEW j \in Inos, named[j] = f PROVE FALSE
      OBVIOUS
    <3>1. Alive(j)
      BY <2>1 DEF Alive, Exists, PathsOf
    <3>2. Mapped(j) /\ by_ino[j] \in Paths /\ tree[by_ino[j]] = f
      BY <2>1, <3>1 DEF WriteInv, NameInv, BaseInv, TypeInv, TypeOK, Mapped
    <3>3. by_ino[j] = p
      BY <2>1, <3>2 DEF WriteInv, NameInv
    <3>. QED
      BY <2>1, <3>3 DEF InosAt
  <2>3. \A q \in Paths : q # p => tree[q] # f
    BY <2>1 DEF WriteInv, NameInv
  <2>4. disk[f].blocks = latest[f]
    <3>1. Exists(f)
      BY <2>1 DEF Exists, PathsOf
    <3>. QED
      BY <2>1, <2>2, <3>1 DEF WriteInv, DataInv
  <2>. HIDE DEF f
  <2>. QED
    BY <2>1, <2>2, <2>3, <2>4 DEF Enters, Intern, f
<1>2. ASSUME NEW f \in Files, Create(p, f, i) PROVE Enters(p, i, f)
  <2>1. /\ NsFree /\ tree[p] = None /\ ~Exists(f) /\ Intern(p, i, f)
        /\ \A j \in Inos : named[j] # f
        /\ UNCHANGED <<active, flushing, call, changes>>
        /\ tree' = [tree EXCEPT ![p] = f] /\ disk' = [disk EXCEPT ![f] = Empty]
        /\ latest' = [latest EXCEPT ![f] = <<>>]
    BY <1>2 DEF Create, sessions
  <2>2. InosAt(p) = {}
    <3>. SUFFICES ASSUME NEW j \in Inos, by_ino[j] = p PROVE FALSE
      BY DEF InosAt
    <3>1. Mapped(j)
      BY NotNone DEF Mapped
    <3>. QED
      BY <2>1, <3>1 DEF WriteInv, NameInv, New
  <2>3. \A q \in Paths : tree[q] # f
    BY <1>0, <2>1 DEF Exists, PathsOf
  <2>4. /\ tree'[p] = f /\ \A q \in Paths : q # p => tree'[q] = tree[q]
        /\ disk'[f].blocks = latest'[f]
        /\ \A g \in Files : g # f => disk'[g] = disk[g] /\ latest'[g] = latest[g]
    BY <1>0, <2>1 DEF Empty
  <2>5. /\ by_ino' = [by_ino EXCEPT ![i] = p] /\ named' = [named EXCEPT ![i] = f] /\ New(i)
    BY <2>1, <2>2 DEF Intern
  <2>. QED
    BY <2>1, <2>2, <2>3, <2>4, <2>5 DEF Enters
<1>. QED
  BY <1>1, <1>2

\* Numbers whose files are gone lose their rows; the others keep all they have.
Drops ==
    /\ UNCHANGED <<workload, named, disk, latest, changes>>
    /\ \A i \in Inos : Alive(i)' =>
         /\ Alive(i) /\ active'[i] = active[i] /\ flushing'[i] = flushing[i]
         /\ workload.locked \/ by_ino'[i] = by_ino[i]
    /\ \A i \in Inos : active'[i] \in {None, active[i]} /\ flushing'[i] \in {None, flushing[i]}
    /\ \A f \in Files : Exists(f)' => Exists(f)
    /\ \A t \in Threads :
         call'[t] = call[t] \/ (call[t].op \in {"idle", "rename"} /\ call'[t].op \in {"idle", "rename"})

LEMMA DropsKeep ==
    ASSUME BaseInv, WriteInv, Drops, NameInv' PROVE WriteInv'
<1>1. \A t \in Threads, i \in Inos :
        /\ Changes(t, i)' <=> Changes(t, i)
        /\ Uses(t, i)' <=> Uses(t, i)
        /\ Changes(t, i) => call'[t] = call[t]
  BY DEF Drops, Changes, Uses, Reading
<1>2. \A i \in Inos : New(i)' <=> New(i)
  BY DEF Drops, New
<1>3. CallInv'
  <2>1. ASSUME NEW t \in Threads, NEW i \in Inos, Changes(t, i), Alive(i)'
        PROVE  /\ Known(call'[t], latest'[named'[i]])
               /\ workload.locked /\ call'[t].op = "sethead" => active'[i] # None
               /\ ~workload.locked /\ call'[t].step = "first" => call'[t].path = by_ino'[i]
    BY <1>1, <2>1 DEF WriteInv, CallInv, Drops
  <2>. QED
    BY <1>1, <1>2, <2>1 DEF WriteInv, CallInv, Drops
<1>4. SessionInv'
  <2>1. \A i \in Inos : Changing(i)' = Changing(i)
    BY <1>1, Users
  <2>2. \A i \in Inos : Landed(i)' <=> Landed(i)
    BY DEF Landed, Drops
  <2>3. ASSUME NEW i \in Inos, Alive(i)'
        PROVE  /\ LET blocks == disk'[named'[i]].blocks IN
                  /\ flushing'[i] # None => IF Landed(i) THEN Holds(flushing'[i], blocks)
                                            ELSE SessionOver(flushing'[i], Len(blocks))
                  /\ active'[i] # None =>
                       SessionOver(active'[i], IF flushing'[i] # None THEN flushing'[i].size ELSE Len(blocks))
               /\ \/ workload.locked
                  \/ /\ active'[i] # None /\ flushing'[i] # None => ~Holed(flushing'[i])
                     /\ \/ active'[i] # None /\ Holed(active'[i])
                        \/ flushing'[i] # None /\ Holed(flushing'[i])
                        => changes = workload.changes /\ Changing(i) = {}
    BY <2>3 DEF WriteInv, SessionInv, Drops
  <2>4. ASSUME NEW i \in Inos
        PROVE  /\ New(i) => active'[i] = None /\ flushing'[i] = None
               /\ workload.locked => active'[i] = None \/ flushing'[i] = None
    BY DEF WriteInv, SessionInv, Drops
  <2>5. UNCHANGED <<workload, changes>>
    BY DEF Drops
  <2>. QED
    BY <1>2, <2>1, <2>2, <2>3, <2>4, <2>5 DEF SessionInv
<1>5. GrowInv'
  BY <1>1 DEF WriteInv, GrowInv, Drops
<1>6. DataInv'
  <2>1. ASSUME NEW i \in Inos, Alive(i)'
        PROVE  /\ Size(i, named[i])' = Len(latest'[named'[i]])
               /\ \A k \in Idx : k < Size(i, named[i])' => Shown(i, named[i], k)' = Block(latest'[named'[i]], k)
    <3>1. Size(i, named[i])' = Size(i, named[i]) /\ \A k \in Idx : Shown(i, named[i], k)' = Shown(i, named[i], k)
      BY <2>1 DEF Size, Shown, Buffered, Drops
    <3>. QED
      BY <2>1, <3>1 DEF WriteInv, DataInv, Drops
  <2>2. ASSUME NEW f \in Files, Exists(f)', \A i \in Inos : named'[i] # f PROVE disk'[f].blocks = latest'[f]
    BY <2>2 DEF WriteInv, DataInv, Drops
  <2>. QED
    BY <2>1, <2>2 DEF DataInv
<1>. QED
  BY <1>3, <1>4, <1>5, <1>6 DEF WriteInv

LEMMA UnlinkKeeps ==
    ASSUME BaseInv, WriteInv, UNCHANGED workload, NEW p \in Paths, Unlink(p) PROVE WriteInv'
<1>0. /\ tree \in [Paths -> Files \cup {None}] /\ by_ino \in [Inos -> Paths \cup {None}] /\ p # None
      /\ active \in [Inos -> Sessions \cup {None}] /\ flushing \in [Inos -> Sessions \cup {None}]
  BY NotNone DEF BaseInv, TypeInv, TypeOK
<1>1. /\ tree[p] # None /\ committer = None /\ tree' = [tree EXCEPT ![p] = None]
      /\ by_ino' = [i \in Inos |-> IF by_ino[i] = p THEN None ELSE by_ino[i]]
      /\ UNCHANGED <<named, disk, call, latest, changes>>
  BY DEF Unlink
<1>2. NsFree /\ \A t \in Threads : call[t].op # "rename"
  BY <1>1, FreeLock DEF NsFree
<1>3. /\ \A i \in Inos : by_ino[i] # p => active'[i] = active[i] /\ flushing'[i] = flushing[i]
      /\ \A i \in Inos : active'[i] \in {None, active[i]} /\ flushing'[i] \in {None, flushing[i]}
  <2>1. CASE InosAt(p) = {}
    BY <2>1 DEF Unlink, sessions
  <2>2. CASE InosAt(p) # {}
    <3>1. PICK j \in Inos : by_ino[j] = p /\ Dropped(j)
      BY <2>2 DEF Unlink, InosAt
    <3>. QED
      BY <1>0, <3>1 DEF Dropped
  <2>. QED
    BY <2>1, <2>2
<1>4. /\ tree'[p] = None /\ \A q \in Paths : q # p => tree'[q] = tree[q] /\ tree[q] # tree[p]
  BY <1>0, <1>1 DEF WriteInv, NameInv
<1>5. /\ \A f \in Files \cup {None} : Exists(f)' => Exists(f) /\ f # tree[p]
      /\ \A i \in Inos : Alive(i)' => Alive(i) /\ named[i] # tree[p]
  <2>1. ASSUME NEW f \in Files \cup {None}, Exists(f)' PROVE Exists(f) /\ f # tree[p]
    BY <1>4, <2>1 DEF Exists, PathsOf
  <2>2. \A i \in Inos : named[i] \in Files \cup {None}
    BY DEF BaseInv, TypeInv, TypeOK
  <2>. QED
    BY <1>1, <2>1, <2>2 DEF Alive
<1>6. \A i \in Inos : Mapped(i) => tree[by_ino[i]] = named[i] /\ by_ino[i] \in Paths
  BY <1>0, <1>2 DEF WriteInv, NameInv, Mapped
<1>7. NameInv'
  <2>1. \A q, r \in Paths : tree'[q] # None /\ tree'[q] = tree'[r] => q = r
    BY <1>4 DEF WriteInv, NameInv
  <2>2. ASSUME NEW i \in Inos, Mapped(i)' PROVE ~New(i)' /\ tree'[by_ino'[i]] = named'[i]
    <3>1. Mapped(i) /\ by_ino'[i] = by_ino[i] /\ by_ino[i] # p
      BY <1>1, <2>2 DEF Mapped
    <3>. QED
      BY <1>1, <1>4, <1>6, <3>1 DEF WriteInv, NameInv, New
  <2>3. ASSUME NEW i \in Inos, Alive(i)' PROVE Mapped(i)'
    <3>1. Mapped(i) /\ by_ino[i] # p
      BY <1>5, <1>6, <2>3 DEF WriteInv, NameInv
    <3>. QED
      BY <1>1, <3>1 DEF Mapped
  <2>4. \A t \in Threads : call'[t].op # "rename"
    BY <1>1, <1>2
  <2>5. \A i, j \in Inos : named'[i] # None /\ named'[i] = named'[j] => i = j
    BY <1>1 DEF WriteInv, NameInv
  <2>. QED
    BY <2>1, <2>2, <2>3, <2>4, <2>5 DEF NameInv
<1>8. Drops
  <2>1. \A i \in Inos : Alive(i)' => by_ino'[i] = by_ino[i] /\ by_ino[i] # p
    BY <1>1, <1>5, <1>6, <1>0 DEF WriteInv, NameInv
  <2>. QED
    BY <1>1, <1>3, <1>5, <2>1 DEF Drops
<1>. QED
  BY <1>7, <1>8, DropsKeep

LEMMA RenameKeeps ==
    ASSUME Orderly(Workloads), BaseInv, WriteInv, UNCHANGED workload,
           NEW t \in Threads, NEW p \in Paths, NEW q \in Paths,
           RenameFile(t, p, q)
    PROVE  WriteInv'
<1>0. /\ tree \in [Paths -> Files \cup {None}] /\ by_ino \in [Inos -> Paths \cup {None}]
      /\ call \in [Threads -> Calls] /\ named \in [Inos -> Files \cup {None}]
  BY NotNone DEF BaseInv, TypeInv, TypeOK
<1>1. /\ call[t] = Idle /\ committer = None /\ tree[p] # None /\ p # q
      /\ tree' = [tree EXCEPT ![q] = tree[p], ![p] = None]
      /\ call' = [call EXCEPT ![t] = [op |-> "rename", step |-> "map", path |-> p, to |-> q]]
      /\ UNCHANGED <<by_ino, named, disk, active, flushing, latest, changes>>
  BY DEF RenameFile, Goto, sessions
<1>2. workload.locked
  BY OrderlyOps DEF RenameFile, BaseInv
<1>3. NsFree /\ \A u \in Threads : call[u].op # "rename"
  BY <1>1, FreeLock DEF NsFree
<1>4. /\ tree'[p] = None /\ tree'[q] = tree[p]
      /\ \A r \in Paths : r # p /\ r # q => tree'[r] = tree[r] /\ tree[r] # tree[p]
      /\ tree[q] # tree[p]
  BY <1>0, <1>1 DEF WriteInv, NameInv
<1>5. /\ \A f \in Files \cup {None} : Exists(f)' => Exists(f)
      /\ \A f \in Files \cup {None} : f = tree[q] => ~Exists(f)'
  <2>1. ASSUME NEW f \in Files \cup {None}, Exists(f)' PROVE Exists(f) /\ f # tree[q]
    <3>1. f # None /\ \E r \in Paths : tree'[r] = f
      BY <2>1 DEF Exists, PathsOf
    <3>2. \E r \in Paths : tree[r] = f /\ r # q
      BY <1>1, <1>4, <3>1
    <3>. QED
      BY <3>1, <3>2 DEF Exists, PathsOf, WriteInv, NameInv
  <2>. QED
    BY <2>1
<1>6. /\ \A u \in Threads \ {t} : call'[u] = call[u]
      /\ call'[t].op = "rename" /\ call'[t].path = p /\ call'[t].to = q
      /\ call[t].op = "idle"
  BY <1>0, <1>1, OpIdle
<1>7. \A i \in Inos : Alive(i)' => Alive(i)
  BY <1>0, <1>1, <1>5 DEF Alive
<1>8. NameInv'
  <2>1. \A r, s \in Paths : tree'[r] # None /\ tree'[r] = tree'[s] => r = s
    BY <1>4 DEF WriteInv, NameInv
  <2>2. \A i \in Inos : (Mapped(i)' => ~New(i)') /\ (Alive(i)' => Mapped(i)')
    BY <1>1, <1>7 DEF WriteInv, NameInv, Mapped, New
  <2>3. ~NsFree'
    BY <1>6 DEF NsFree
  <2>4. ASSUME NEW i \in Inos, Mapped(i)'
        PROVE  /\ by_ino[i] = p => tree'[q] = named[i]
               /\ by_ino[i] = q => ~Alive(i)'
               /\ by_ino[i] \notin {p, q} => tree'[by_ino[i]] = named[i]
    <3>1. by_ino[i] \in Paths /\ tree[by_ino[i]] = named[i] /\ named[i] \in Files \cup {None}
      BY <1>0, <1>1, <1>3, <2>4 DEF WriteInv, NameInv, Mapped
    <3>. QED
      BY <1>1, <1>4, <1>5, <3>1 DEF Alive
  <2>5. \A u \in Threads : call'[u].op = "rename" => u = t
    BY <1>3, <1>6
  <2>6. \A i, j \in Inos : named'[i] # None /\ named'[i] = named'[j] => i = j
    BY <1>1 DEF WriteInv, NameInv
  <2>7. ASSUME NEW u \in Threads, call'[u].op = "rename"
        PROVE  /\ workload'.locked /\ tree'[call'[u].path] = None /\ call'[u].path # call'[u].to
               /\ \A i \in Inos : Mapped(i)' =>
                    /\ by_ino'[i] = call'[u].path => tree'[call'[u].to] = named'[i]
                    /\ by_ino'[i] = call'[u].to => ~Alive(i)'
                    /\ by_ino'[i] \notin {call'[u].path, call'[u].to} => tree'[by_ino'[i]] = named'[i]
    <3>1. u = t
      BY <2>5, <2>7
    <3>2. call'[u].path = p /\ call'[u].to = q /\ by_ino' = by_ino /\ named' = named /\ workload'.locked
      BY <1>1, <1>2, <1>6, <3>1
    <3>3. tree'[p] = None /\ p # q
      BY <1>1, <1>4
    <3>. QED
      BY <2>4, <3>2, <3>3
  <2>. QED
    BY <2>1, <2>2, <2>3, <2>6, <2>7 DEF NameInv
<1>9. Drops
  BY <1>1, <1>2, <1>5, <1>6, <1>7 DEF Drops
<1>. QED
  BY <1>8, <1>9, DropsKeep

LEMMA RenameMapKeeps ==
    ASSUME BaseInv, WriteInv, UNCHANGED workload, NEW t \in Threads, RenameMap(t) PROVE WriteInv'
<1>. DEFINE p == call[t].path
            q == call[t].to
<1>0. /\ call[t].op = "rename" /\ p \in Paths /\ q \in Paths
      /\ tree \in [Paths -> Files \cup {None}] /\ by_ino \in [Inos -> Paths \cup {None}]
      /\ call \in [Threads -> Calls] /\ named \in [Inos -> Files \cup {None}]
      /\ active \in [Inos -> Sessions \cup {None}] /\ flushing \in [Inos -> Sessions \cup {None}]
  <2>1. call[t].op = "rename"
    BY DEF RenameMap, At
  <2>. QED
    BY <2>1, FieldTypes DEF BaseInv, TypeInv, TypeOK, Renames
<1>1. /\ by_ino' = [i \in Inos |-> IF by_ino[i] = q THEN None ELSE IF by_ino[i] = p THEN q ELSE by_ino[i]]
      /\ Goto(t, Idle) /\ UNCHANGED <<tree, named, disk, latest, changes>>
  BY DEF RenameMap, Return
<1>2. /\ workload.locked /\ p # q
      /\ \A i \in Inos : Mapped(i) =>
           /\ by_ino[i] = p => tree[q] = named[i]
           /\ by_ino[i] = q => ~Alive(i)
           /\ by_ino[i] \notin {p, q} => tree[by_ino[i]] = named[i]
  BY <1>0 DEF WriteInv, NameInv
<1>3. /\ call'[t] = Idle /\ \A u \in Threads \ {t} : call'[u] = call[u]
      /\ \A u \in Threads : call[u].op = "rename" => u = t
  BY <1>0, <1>1 DEF Goto, BaseInv, LockInv
<1>4. \A u \in Threads : call'[u].op # "rename"
  BY <1>3, OpIdle
<1>5. /\ \A i \in Inos : by_ino[i] # q => active'[i] = active[i] /\ flushing'[i] = flushing[i]
      /\ \A i \in Inos : active'[i] \in {None, active[i]} /\ flushing'[i] \in {None, flushing[i]}
  <2>1. CASE InosAt(q) = {}
    BY <2>1 DEF RenameMap, sessions
  <2>2. CASE InosAt(q) # {}
    <3>1. PICK j \in Inos : by_ino[j] = q /\ Dropped(j)
      BY <2>2 DEF RenameMap, InosAt
    <3>. QED
      BY <1>0, <3>1 DEF Dropped
  <2>. QED
    BY <2>1, <2>2
<1>6. \A i \in Inos : (Alive(i)' <=> Alive(i)) /\ (New(i)' <=> New(i))
  BY <1>1 DEF Alive, Exists, PathsOf, New
<1>7. \A f \in Files : Exists(f)' <=> Exists(f)
  BY <1>1 DEF Exists, PathsOf
<1>8. \A i \in Inos : Alive(i) => by_ino[i] # q /\ Mapped(i)
  BY <1>2 DEF WriteInv, NameInv
<1>9. NameInv'
  <2>1. \A i \in Inos : Alive(i)' => Mapped(i)'
    BY <1>0, <1>1, <1>6, <1>8, NotNone DEF Mapped
  <2>2. ASSUME NEW i \in Inos, Mapped(i)' PROVE ~New(i)' /\ tree'[by_ino'[i]] = named'[i]
    <3>1. Mapped(i) /\ by_ino[i] # q /\ by_ino'[i] = IF by_ino[i] = p THEN q ELSE by_ino[i]
      BY <1>0, <1>1, <2>2, NotNone DEF Mapped
    <3>. QED
      BY <1>1, <1>2, <1>6, <3>1 DEF WriteInv, NameInv
  <2>3. \A r, s \in Paths : tree'[r] # None /\ tree'[r] = tree'[s] => r = s
    BY <1>1 DEF WriteInv, NameInv
  <2>4. \A i, j \in Inos : named'[i] # None /\ named'[i] = named'[j] => i = j
    BY <1>1 DEF WriteInv, NameInv
  <2>. QED
    BY <1>4, <2>1, <2>2, <2>3, <2>4 DEF NameInv
<1>10. Drops
  BY <1>0, <1>1, <1>2, <1>3, <1>5, <1>6, <1>7, <1>8, OpIdle DEF Drops
<1>. QED
  BY <1>9, <1>10, DropsKeep

LEMMA CrashKeeps ==
    ASSUME BaseInv, WriteInv, UNCHANGED workload, Crash PROVE WriteInv'
<1>1. /\ UNCHANGED <<tree, disk>>
      /\ latest' = [f \in Files |-> disk[f].blocks]
      /\ \A i \in Inos : by_ino'[i] = None /\ named'[i] = None /\ active'[i] = None /\ flushing'[i] = None
      /\ \A t \in Threads : call'[t].op = "idle"
  BY OpIdle DEF Crash
<1>2. \A i \in Inos : ~Alive(i)' /\ New(i)' /\ ~Mapped(i)'
  BY <1>1 DEF Alive, Exists, New, Mapped
<1>3. \A t \in Threads, i \in Inos : ~Uses(t, i)' /\ ~Changes(t, i)'
  BY <1>1 DEF Uses, Changes, Reading
<1>4. NameInv'
  BY <1>1, <1>2 DEF WriteInv, NameInv
<1>5. CallInv' /\ GrowInv'
  BY <1>3 DEF CallInv, GrowInv
<1>6. SessionInv'
  BY <1>1, <1>2 DEF SessionInv
<1>7. DataInv'
  BY <1>1, <1>2 DEF DataInv
<1>. QED
  BY <1>4, <1>5, <1>6, <1>7 DEF WriteInv

LEMMA WriteStep ==
    ASSUME Orderly(Workloads), BaseInv, ~Moving, WriteInv, Next PROVE WriteInv'
<1>0. UNCHANGED workload
  BY DEF Next
<1>1. ASSUME NEW t \in Threads, Get(t) \/ Stat(t) PROVE WriteInv'
  BY <1>0, <1>1, ReadsAreQuiet, QuietKeeps
<1>2. ASSUME NEW t \in Threads, Write(t) PROVE WriteInv'
  BY <1>0, <1>2, WriteKeeps
<1>3. ASSUME NEW t \in Threads, Commit(t) PROVE WriteInv'
  <2>1. CASE BumpEpoch(t) \/ EvictReader(t)
    BY <1>0, <2>1, InvalidationsAreQuiet, QuietKeeps
  <2>2. CASE Publish(t) \/ FailCommit(t) \/ EndCommit(t)
    <3>1. call[t].op = "sync"
      BY <2>2 DEF Publish, FailCommit, EndCommit, At
    <3>2. call[t].ino \in Inos
      BY <3>1, CommitFacts
    <3>. QED
      BY <1>0, <2>2, <3>2, PublishKeeps, FailKeeps, EndKeeps
  <2>. QED
    BY <1>3, <2>1, <2>2 DEF Commit
<1>4. ASSUME NEW t \in Threads, RenameMap(t) PROVE WriteInv'
  BY <1>0, <1>4, RenameMapKeeps
<1>5. ASSUME NEW t \in Threads, NEW i \in Inos,
             StartHead(t, i) \/ StartStat(t, i) \/ \E k \in Idx : StartGet(t, i, k)
      PROVE  WriteInv'
  BY <1>0, <1>5, StartsAreQuiet, QuietKeeps
<1>6. ASSUME NEW t \in Threads, NEW i \in Inos,
             (\E k \in Idx, v \in Vals : StartPut(t, i, k, v)) \/ \E n \in 0 .. MaxSize : StartCut(t, i, n)
      PROVE  WriteInv'
  BY <1>0, <1>6, StartWriteKeeps
<1>7. ASSUME NEW t \in Threads, NEW i \in Inos, Swap(t, i) PROVE WriteInv'
  BY <1>0, <1>7, SwapKeeps
<1>8. ASSUME NEW i \in Inos, Released(i) PROVE WriteInv'
  BY <1>0, <1>8, NothingChanges DEF Released, namespace, sessions
<1>9. ASSUME NEW p \in Paths, NEW i \in Inos, Lookup(p, i) \/ \E f \in Files : Create(p, f, i) PROVE WriteInv'
  BY <1>0, <1>9, EntersFile, EnterKeeps
<1>10. ASSUME NEW p \in Paths, Unlink(p) PROVE WriteInv'
  BY <1>0, <1>10, UnlinkKeeps
<1>11. ASSUME NEW t \in Threads, NEW p \in Paths, NEW q \in Paths, RenameFile(t, p, q) PROVE WriteInv'
  BY <1>0, <1>11, RenameKeeps
<1>12. ASSUME NEW d \in Dirs, Mkdir(d) \/ Rmdir(d) \/ \E e \in Dirs : RenameDir(d, e) PROVE FALSE
  BY <1>12 DEF Mkdir, Rmdir, RenameDir, Moving
<1>13. CASE Crash
  BY <1>0, <1>13, CrashKeeps
<1>. QED
  BY <1>1, <1>2, <1>3, <1>4, <1>5, <1>6, <1>7, <1>8, <1>9, <1>10, <1>11, <1>12, <1>13 DEF Next

LEMMA NextView ==
    ASSUME Orderly(Workloads) PROVE BaseInv /\ ViewInv /\ [Next]_vars => ViewInv'
<1>. SUFFICES ASSUME BaseInv, ViewInv, [Next]_vars PROVE ViewInv'
  OBVIOUS
<1>1. UNCHANGED workload /\ (Moving' <=> Moving)
  BY DEF Next, vars, Moving, Ops
<1>2. CASE UNCHANGED vars
  <2>1. CASE Moving
    BY <1>1, <1>2, <2>1 DEF vars, ViewInv, StillInv
  <2>2. CASE ~Moving
    <3>1. WriteInv'
      BY <1>2, <2>2, NothingChanges DEF vars, namespace, sessions, ViewInv, WriteInv
    <3>. QED
      BY <1>1, <2>2, <3>1 DEF ViewInv, WriteInv
  <2>. QED
    BY <2>1, <2>2
<1>3. CASE Next
  <2>1. CASE Moving
    <3>1. StillInv'
      BY <1>3, <2>1, StillStep DEF ViewInv
    <3>. QED
      BY <1>1, <2>1, <3>1 DEF ViewInv
  <2>2. CASE ~Moving
    <3>1. WriteInv'
      BY <1>3, <2>2, WriteStep DEF ViewInv, WriteInv
    <3>. QED
      BY <1>1, <2>2, <3>1 DEF ViewInv, WriteInv
  <2>. QED
    BY <2>1, <2>2
<1>. QED
  BY <1>2, <1>3

LEMMA InitView == Init => ViewInv
<1>. SUFFICES ASSUME Init PROVE ViewInv
  OBVIOUS
<1>1. /\ \A i \in Inos : by_ino[i] = None /\ named[i] = None /\ active[i] = None /\ flushing[i] = None
      /\ \A t \in Threads : call[t].op = "idle"
      /\ \A f \in Files : disk[f].blocks = latest[f]
      /\ \A p \in Paths : p # Home => tree[p] = None
  BY OpIdle DEF Init
<1>2. StillInv
  BY <1>1 DEF StillInv
<1>3. NameInv
  BY <1>1 DEF NameInv, Mapped, Alive, Exists
<1>4. CallInv /\ GrowInv
  BY <1>1 DEF CallInv, GrowInv, Uses, Changes, Reading
<1>5. SessionInv
  BY <1>1 DEF SessionInv, Alive, Exists
<1>6. DataInv
  BY <1>1 DEF DataInv, Alive, Exists
<1>. QED
  BY <1>2, <1>3, <1>4, <1>5, <1>6 DEF ViewInv

LEMMA ContentShows ==
    ASSUME NEW i \in Inos, NEW f, latest[f] \in Contents, Size(i, f) = Len(latest[f]),
           \A k \in Idx : k < Size(i, f) => Shown(i, f, k) = Block(latest[f], k)
    PROVE  Content(i, f) = latest[f]
<1>1. Content(i, f) = [k \in 1 .. Size(i, f) |-> Shown(i, f, k - 1)]
  BY DEF Content, Shown
<1>2. Len(latest[f]) \in 0 .. MaxSize /\ latest[f] \in [1 .. Len(latest[f]) -> Vals \cup {0}]
  BY ContentFacts
<1>3. ASSUME NEW k \in 1 .. Len(latest[f]) PROVE Shown(i, f, k - 1) = latest[f][k]
  <2>1. k - 1 \in Idx /\ k - 1 < Len(latest[f]) /\ k - 1 + 1 = k
    BY <1>2, SizesAreNat
  <2>. QED
    BY <2>1 DEF Block
<1>. QED
  BY <1>1, <1>2, <1>3

LEMMA ViewShows == BaseInv /\ ViewInv => ViewCurrent
<1>. SUFFICES ASSUME BaseInv, ViewInv, NsFree, NEW p \in Paths, tree[p] # None
              PROVE  /\ InosAt(p) = {} => disk[tree[p]].blocks = latest[tree[p]]
                     /\ \A i \in InosAt(p) : Content(i, tree[p]) = latest[tree[p]]
  BY DEF ViewCurrent
<1>. DEFINE f == tree[p]
<1>1. f \in Files /\ disk[f].blocks \in Contents /\ latest[f] \in Contents
  BY DEF BaseInv, TypeInv, TypeOK, Archives
<1>2. ASSUME NEW i \in Inos, Size(i, f) = Len(latest[f]),
             \A k \in Idx : k < Size(i, f) => Shown(i, f, k) = Block(latest[f], k)
      PROVE  Content(i, f) = latest[f]
  BY <1>1, <1>2, ContentShows
<1>3. CASE Moving
  <2>1. disk[f].blocks = latest[f]
    BY <1>1, <1>3 DEF ViewInv, StillInv
  <2>2. ASSUME NEW i \in Inos PROVE Content(i, f) = latest[f]
    <3>1. active[i] = None /\ flushing[i] = None
      BY <1>3 DEF ViewInv, StillInv
    <3>2. Size(i, f) = Len(latest[f]) /\ \A k \in Idx : Shown(i, f, k) = Block(latest[f], k)
      BY <2>1, <3>1 DEF Size, Shown, Buffered, Shows
    <3>. QED
      BY <1>2, <3>2
  <2>. QED
    BY <2>1, <2>2 DEF InosAt
<1>4. CASE ~Moving
  <2>. NameInv /\ DataInv
    BY <1>4 DEF ViewInv
  <2>1. Exists(f)
    BY DEF Exists, PathsOf
  <2>2. ASSUME InosAt(p) = {}, NEW i \in Inos, named[i] = f PROVE FALSE
    <3>1. Alive(i)
      BY <2>1, <2>2 DEF Alive
    <3>2. Mapped(i) /\ by_ino[i] \in Paths /\ tree[by_ino[i]] = f
      BY <2>2, <3>1 DEF NameInv, Mapped, BaseInv, TypeInv, TypeOK
    <3>3. by_ino[i] = p
      BY <3>2 DEF NameInv
    <3>. QED
      BY <2>2, <3>3 DEF InosAt
  <2>3. ASSUME NEW i \in InosAt(p) PROVE Content(i, f) = latest[f]
    <3>1. i \in Inos /\ Mapped(i) /\ named[i] = f
      BY NotNone DEF InosAt, Mapped, NameInv
    <3>2. Alive(i)
      BY <2>1, <3>1 DEF Alive
    <3>. QED
      BY <1>2, <3>1, <3>2 DEF DataInv
  <2>. QED
    BY <1>1, <2>1, <2>2, <2>3 DEF DataInv
<1>. QED
  BY <1>3, <1>4

\* Whoever looks a path up and reads what is there gets what the calls on that
\* file have written, through swaps, commits that land or fail and are merged
\* back under newer changes, unlinks, renames over other files and crashes, if
\* the calls are ordered as the handlers order them.
THEOREM ViewsAreCurrent == ASSUME Orderly(Workloads) PROVE Spec => []ViewCurrent
<1>1. Init => BaseInv /\ ViewInv
  BY InitBase, InitView
<1>2. BaseInv /\ ViewInv /\ [Next]_vars => BaseInv' /\ ViewInv'
  BY NextBase, NextView
<1>. QED
  BY <1>1, <1>2, ViewShows, PTL DEF Spec

-----------------------------------------------------------------------------
(* Each archive is a write-back file                                        *)

Kept(f) == IF Exists(f) THEN latest[f] ELSE None
Stored(f) == IF Exists(f) THEN disk[f].blocks ELSE None

LEMMA ViewIs == BaseInv /\ ViewInv => \A f \in Files : View(f) = Kept(f)
<1>. SUFFICES ASSUME BaseInv, ViewInv, NEW f \in Files, Exists(f) PROVE View(f) = latest[f]
  BY DEF View, Kept
<1>1. PICK p \in Paths : tree[p] = f /\ f # None
  BY DEF Exists, PathsOf
<1>. DEFINE numbers == {i \in Inos : Mapped(i) /\ named[i] = f}
<1>2. disk[f].blocks \in Contents /\ latest[f] \in Contents
  BY DEF BaseInv, TypeInv, TypeOK, Archives
<1>3. ASSUME NEW i \in Inos, Size(i, f) = Len(latest[f]),
             \A k \in Idx : k < Size(i, f) => Shown(i, f, k) = Block(latest[f], k)
      PROVE  Content(i, f) = latest[f]
  BY <1>2, <1>3, ContentShows
<1>4. CASE Moving
  <2>1. disk[f].blocks = latest[f]
    BY <1>4 DEF ViewInv, StillInv
  <2>2. ASSUME NEW i \in Inos PROVE Content(i, f) = latest[f]
    <3>1. active[i] = None /\ flushing[i] = None
      BY <1>4 DEF ViewInv, StillInv
    <3>2. Size(i, f) = Len(latest[f]) /\ \A k \in Idx : Shown(i, f, k) = Block(latest[f], k)
      BY <2>1, <3>1 DEF Size, Shown, Buffered, Shows
    <3>. QED
      BY <1>3, <3>2
  <2>3. numbers # {} => (CHOOSE i \in numbers : TRUE) \in Inos
    OBVIOUS
  <2>. QED
    BY <2>1, <2>2, <2>3 DEF View
<1>5. CASE ~Moving
  <2>. NameInv /\ DataInv
    BY <1>5 DEF ViewInv
  <2>1. ASSUME NEW i \in numbers PROVE Content(i, f) = latest[f]
    <3>1. Alive(i) /\ named[i] = f
      BY <2>1 DEF Alive
    <3>. QED
      BY <1>3, <3>1 DEF DataInv
  <2>2. CASE numbers = {}
    <3>1. \A i \in Inos : named[i] # f
      BY <2>2 DEF NameInv, Alive
    <3>2. disk[f].blocks = latest[f]
      BY <3>1 DEF DataInv
    <3>. QED
      BY <2>2, <3>2 DEF View
  <2>3. CASE numbers # {}
    <3>1. (CHOOSE i \in numbers : TRUE) \in numbers
      BY <2>3
    <3>. QED
      BY <2>1, <2>3, <3>1 DEF View
  <2>. QED
    BY <2>2, <2>3
<1>. QED
  BY <1>4, <1>5

LEMMA ViewThen == (BaseInv /\ ViewInv)' => \A f \in Files : View(f)' = Kept(f)'
<1>1. BaseInv /\ ViewInv => \A f \in Files : View(f) = Kept(f)
  BY ViewIs
<1>2. (BaseInv /\ ViewInv)' => (\A f \in Files : View(f) = Kept(f))'
  BY <1>1, PTL
<1>. QED
  BY <1>2

\* The commit of a file that is under way.
InCommit(t) == call[t].op = "sync" /\ call[t].step = "commit"

LEMMA BatchIs ==
    BaseInv => \A f \in Files :
        /\ (\A t \in Threads : ~(InCommit(t) /\ named[call[t].ino] = f)) => Batch(f) = None
        /\ \A t \in Threads : InCommit(t) /\ named[call[t].ino] = f =>
             /\ Batch(f) = Committed(flushing[call[t].ino], disk[f]).blocks
             /\ Batch(f) \in Contents
<1>. SUFFICES ASSUME BaseInv, NEW f \in Files
              PROVE  /\ (\A t \in Threads : ~(InCommit(t) /\ named[call[t].ino] = f)) => Batch(f) = None
                     /\ \A t \in Threads : InCommit(t) /\ named[call[t].ino] = f =>
                          /\ Batch(f) = Committed(flushing[call[t].ino], disk[f]).blocks
                          /\ Batch(f) \in Contents
  OBVIOUS
<1>. DEFINE commits == {t \in Threads : At(t, "sync", "commit") /\ named[call[t].ino] = f}
<1>1. ASSUME \A t \in Threads : ~(InCommit(t) /\ named[call[t].ino] = f) PROVE Batch(f) = None
  <2>1. commits = {}
    BY <1>1 DEF At, InCommit
  <2>. QED
    BY <2>1 DEF Batch
<1>2. ASSUME NEW t \in Threads, InCommit(t), named[call[t].ino] = f
      PROVE  /\ Batch(f) = Committed(flushing[call[t].ino], disk[f]).blocks
             /\ Batch(f) \in Contents
  <2>1. commits = {t}
    BY <1>2 DEF At, InCommit, BaseInv, LockInv
  <2>2. (CHOOSE u \in commits : TRUE) = t /\ commits # {}
    BY <2>1
  <2>3. Batch(f) = Committed(flushing[call[t].ino], disk[f]).blocks
    BY <2>2 DEF Batch
  <2>4. call[t].ino \in Inos
    BY <1>2, FieldTypes DEF InCommit, BaseInv
  <2>5. flushing[call[t].ino] \in Sessions /\ disk[f] \in Archives
    BY <1>2, <2>4 DEF InCommit, BaseInv, LockInv, TypeInv, TypeOK
  <2>6. Committed(flushing[call[t].ino], disk[f]) \in Archives
    BY <2>5, CommittedIs
  <2>. QED
    BY <2>3, <2>6 DEF Archives
<1>. QED
  BY <1>1, <1>2

LEMMA BatchThen ==
    BaseInv' => \A f \in Files :
        /\ (\A t \in Threads : ~(InCommit(t)' /\ named'[call'[t].ino] = f)) => Batch(f)' = None
        /\ \A t \in Threads : InCommit(t)' /\ named'[call'[t].ino] = f =>
             /\ Batch(f)' = Committed(flushing'[call'[t].ino], disk'[f]).blocks
             /\ Batch(f)' \in Contents
<1>1. (BaseInv => \A f \in Files :
        /\ (\A t \in Threads : ~(InCommit(t) /\ named[call[t].ino] = f)) => Batch(f) = None
        /\ \A t \in Threads : InCommit(t) /\ named[call[t].ino] = f =>
             /\ Batch(f) = Committed(flushing[call[t].ino], disk[f]).blocks
             /\ Batch(f) \in Contents)'
  BY BatchIs, PTL
<1>. QED
  BY <1>1

\* Commits that go on leave their batch as it is.
CommitsGoOn ==
    \A t \in Threads :
        /\ InCommit(t)' <=> InCommit(t)
        /\ InCommit(t) => /\ call'[t].ino = call[t].ino /\ named'[call[t].ino] = named[call[t].ino]
                          /\ flushing'[call[t].ino] = flushing[call[t].ino]

LEMMA BatchStays ==
    ASSUME BaseInv, BaseInv', CommitsGoOn, NEW f \in Files, disk'[f] = disk[f] PROVE Batch(f)' = Batch(f)
<1>1. CASE \A t \in Threads : ~(InCommit(t) /\ named[call[t].ino] = f)
  <2>1. \A t \in Threads : ~(InCommit(t)' /\ named'[call'[t].ino] = f)
    BY <1>1 DEF CommitsGoOn
  <2>2. Batch(f) = None
    BY <1>1, BatchIs
  <2>3. Batch(f)' = None
    BY <2>1, BatchThen
  <2>. QED
    BY <2>2, <2>3
<1>2. ASSUME NEW t \in Threads, InCommit(t), named[call[t].ino] = f PROVE Batch(f)' = Batch(f)
  <2>1. InCommit(t)' /\ named'[call'[t].ino] = f
    BY <1>2 DEF CommitsGoOn
  <2>2. Batch(f)' = Committed(flushing'[call'[t].ino], disk'[f]).blocks
    BY <2>1, BatchThen
  <2>3. Batch(f) = Committed(flushing[call[t].ino], disk[f]).blocks
    BY <1>2, BatchIs
  <2>. QED
    BY <1>2, <2>2, <2>3 DEF CommitsGoOn
<1>. QED
  BY <1>1, <1>2

\* What the steps of the promise come to for one file.
LEMMA Stays ==
    ASSUME NEW f, View(f)' = View(f), Batch(f)' = Batch(f), Exists(f)' <=> Exists(f), disk'[f] = disk[f]
    PROVE  UNCHANGED PromiseVars(f)
  BY DEF PromiseVars, Exists

LEMMA SomeBatch ==
    ASSUME NEW f \in Files, NEW c \in Contents PROVE [g \in {f} |-> c] # None
  BY NoneAssumption

LEMMA ChangeMaps ==
    ASSUME NEW f \in Files, Exists(f), Exists(f)', View(f) \in Contents, View(f)' \in Contents,
           Batch(f)' = Batch(f), disk'[f] = disk[f]
    PROVE  Promise(f)!Next
<1>1. View(f) # None
  BY NotNone
<1>2. Promise(f)!Change(f)
  BY <1>1 DEF Promise!Change
<1>. QED
  BY <1>2 DEF Promise!Next

LEMMA TakeMaps ==
    ASSUME NEW f \in Files, Exists(f)' <=> Exists(f), View(f) \in Contents, View(f)' = View(f),
           Batch(f) = None, Batch(f)' = View(f), disk'[f] = disk[f]
    PROVE  Promise(f)!Next
<1>1. Batch(f)' # None
  BY NotNone
<1>2. Promise(f)!Take
  BY <1>1 DEF Promise!Take
<1>. QED
  BY <1>2 DEF Promise!Next

LEMMA LandMaps ==
    ASSUME NEW f \in Files, Exists(f), Exists(f)', View(f)' = View(f),
           Batch(f) \in Contents, Batch(f)' = None, disk'[f].blocks = Batch(f)
    PROVE  Promise(f)!Next
<1>1. Batch(f) # None /\ [g \in {f} |-> Batch(g)] # None
  <2>1. [g \in {f} |-> Batch(g)] = [g \in {f} |-> Batch(f)]
    OBVIOUS
  <2>. QED
    BY <2>1, NotNone, SomeBatch
<1>2. Promise(f)!Land
  BY <1>1 DEF Promise!Land
<1>. QED
  BY <1>2 DEF Promise!Next

LEMMA DropMaps ==
    ASSUME NEW f \in Files, Exists(f)' <=> Exists(f), View(f)' = View(f),
           Batch(f) \in Contents, Batch(f)' = None, disk'[f] = disk[f]
    PROVE  Promise(f)!Next
<1>1. Batch(f) # None /\ [g \in {f} |-> Batch(g)] # None
  <2>1. [g \in {f} |-> Batch(g)] = [g \in {f} |-> Batch(f)]
    OBVIOUS
  <2>. QED
    BY <2>1, NotNone, SomeBatch
<1>2. Promise(f)!Drop
  BY <1>1 DEF Promise!Drop
<1>. QED
  BY <1>2 DEF Promise!Next

LEMMA RemoveMaps ==
    ASSUME NEW f \in Files, Exists(f), ~Exists(f)', disk[f].blocks \in Contents, View(f)' = None,
           Batch(f) = None, Batch(f)' = None
    PROVE  Promise(f)!Next
<1>1. disk[f].blocks # None
  BY NotNone
<1>2. Promise(f)!Remove(f)
  BY <1>1 DEF Promise!Remove, Promise!InBatch
<1>. QED
  BY <1>2 DEF Promise!Next

LEMMA CreateMaps ==
    ASSUME NEW f \in Files, ~Exists(f), Exists(f)', View(f) = None, View(f)' = <<>>, disk'[f].blocks = <<>>,
           Batch(f) = None, Batch(f)' = None
    PROVE  Promise(f)!Next
<1>1. Promise(f)!Create(f)
  BY DEF Promise!Create, Promise!InBatch, Promise!Fresh
<1>. QED
  BY <1>1 DEF Promise!Next

LEMMA CrashMaps ==
    ASSUME NEW f \in Files, Exists(f)' <=> Exists(f), disk'[f] = disk[f], View(f)' = Stored(f), Batch(f)' = None
    PROVE  Promise(f)!Next
<1>1. Promise(f)!Crash
  BY DEF Promise!Crash, Stored
<1>. QED
  BY <1>1 DEF Promise!Next

-----------------------------------------------------------------------------
(* The store's steps                                                        *)

RefInv == BaseInv /\ ViewInv

LEMMA RefTypes ==
    ASSUME RefInv, RefInv'
    PROVE  \A f \in Files :
             /\ View(f) = Kept(f) /\ View(f)' = Kept(f)'
             /\ latest[f] \in Contents /\ latest'[f] \in Contents
             /\ disk[f].blocks \in Contents /\ disk'[f].blocks \in Contents
<1>1. /\ \A f \in Files : View(f) = Kept(f)
      /\ \A f \in Files : View(f)' = Kept(f)'
  BY ViewIs, ViewThen DEF RefInv
<1>2. /\ latest \in [Files -> Contents] /\ latest' \in [Files -> Contents]
      /\ disk \in [Files -> Archives] /\ disk' \in [Files -> Archives]
  BY DEF RefInv, BaseInv, TypeInv, TypeOK
<1>. QED
  BY <1>1, <1>2 DEF Archives

\* Steps that leave files, contents and commits as they are.
LEMMA SilentRefines ==
    ASSUME RefInv, RefInv', UNCHANGED <<tree, disk, latest>>, CommitsGoOn, NEW f \in Files
    PROVE  UNCHANGED PromiseVars(f)
<1>1. Exists(f)' <=> Exists(f)
  BY DEF Exists, PathsOf
<1>2. View(f)' = View(f)
  BY <1>1, RefTypes DEF Kept
<1>3. Batch(f)' = Batch(f)
  BY BatchStays DEF RefInv
<1>. QED
  BY <1>1, <1>2, <1>3, Stays

LEMMA CallsGoOn ==
    ASSUME NEW t \in Threads, ~InCommit(t), ~InCommit(t)', \A u \in Threads \ {t} : call'[u] = call[u],
           UNCHANGED <<flushing, named>>
    PROVE  CommitsGoOn
  BY DEF CommitsGoOn, InCommit

LEMMA WriteRefines ==
    ASSUME RefInv, RefInv', NEW t \in Threads, Write(t), NEW f \in Files
    PROVE  Promise(f)!Next \/ UNCHANGED PromiseVars(f)
<1>0. /\ call[t].op \in {"put", "cut", "sethead"} /\ UNCHANGED <<tree, disk, flushing, named>>
      /\ call \in [Threads -> Calls]
  BY DEF Write, WithSession, FirstChange, namespace, RefInv, BaseInv, TypeInv
<1>1. CommitsGoOn
  <2>1. call[t] \in Puts \cup Cuts
    BY <1>0, FieldTypes DEF RefInv, BaseInv
  <2>2. \/ Goto(t, Idle)
        \/ Goto(t, [call[t] EXCEPT !.step = "first", !.path = by_ino[call[t].ino]])
        \/ Goto(t, [call[t] EXCEPT !.op = "sethead", !.step = "session", !.path = None])
    BY DEF Write, WithSession, FirstChange, Change, Return
  <2>3. call'[t].op # "sync" /\ \A u \in Threads \ {t} : call'[u] = call[u]
    <3>1. CASE Goto(t, Idle)
      BY <1>0, <3>1, OpIdle DEF Goto
    <3>2. CASE Goto(t, [call[t] EXCEPT !.step = "first", !.path = by_ino[call[t].ino]])
      BY <1>0, <3>2 DEF Goto
    <3>3. CASE Goto(t, [call[t] EXCEPT !.op = "sethead", !.step = "session", !.path = None])
      BY <1>0, <2>1, <3>3 DEF Goto, Puts, Cuts
    <3>. QED
      BY <2>2, <3>1, <3>2, <3>3
  <2>. QED
    BY <1>0, <2>3, CallsGoOn DEF InCommit
<1>2. Exists(f)' <=> Exists(f)
  BY <1>0 DEF Exists, PathsOf
<1>3. Batch(f)' = Batch(f)
  BY <1>0, <1>1, BatchStays DEF RefInv
<1>4. CASE Exists(f)
  BY <1>0, <1>2, <1>3, <1>4, RefTypes, ChangeMaps DEF Kept
<1>5. CASE ~Exists(f)
  <2>1. View(f)' = View(f)
    BY <1>2, <1>5, RefTypes DEF Kept
  <2>. QED
    BY <1>0, <1>2, <1>3, <2>1, Stays
<1>. QED
  BY <1>4, <1>5

LEMMA NoOneCommits ==
    ASSUME BaseInv, committer = None PROVE \A t \in Threads : ~InCommit(t)
  BY NotNone DEF BaseInv, LockInv, InCommit, TypeInv

LEMMA SwapRefines ==
    ASSUME RefInv, RefInv', NEW t \in Threads, NEW i \in Inos, Swap(t, i), NEW f \in Files
    PROVE  Promise(f)!Next \/ UNCHANGED PromiseVars(f)
<1>. DEFINE s == active[i]
<1>0. /\ call \in [Threads -> Calls] /\ disk[f] \in Archives
      /\ active \in [Inos -> Sessions \cup {None}] /\ flushing \in [Inos -> Sessions \cup {None}]
  BY DEF RefInv, BaseInv, TypeInv, TypeOK
<1>1. /\ UNCHANGED <<tree, by_ino, named, disk, latest>>
      /\ Mapped(i) /\ s # None /\ s \in Sessions /\ committer = None
      /\ flushing' = [flushing EXCEPT ![i] = active[i]]
      /\ call' = [call EXCEPT ![t] = [op |-> "sync", step |-> "commit", ino |-> i]]
  BY <1>0 DEF Swap, MayCall, Goto, namespace
<1>2. WriteInv
  BY <1>1 DEF RefInv, ViewInv, StillInv, WriteInv
<1>3. /\ NsFree /\ \A j \in Inos : flushing[j] = None
  BY <1>1, <1>2, FreeLock DEF RefInv
<1>4. /\ call'[t].op = "sync" /\ call'[t].step = "commit" /\ call'[t].ino = i
      /\ \A u \in Threads \ {t} : call'[u] = call[u]
      /\ flushing'[i] = s
  BY <1>0, <1>1
<1>5. (Exists(f)' <=> Exists(f)) /\ View(f)' = View(f)
  <2>1. Exists(f)' <=> Exists(f)
    BY <1>1 DEF Exists, PathsOf
  <2>. QED
    BY <1>1, <2>1, RefTypes DEF Kept
<1>6. \A u \in Threads : ~InCommit(u)
  BY <1>1, NoOneCommits DEF RefInv
<1>7. Batch(f) = None
  BY <1>6, BatchIs DEF RefInv
<1>8. CASE named[i] # f
  <2>1. \A u \in Threads : ~(InCommit(u)' /\ named'[call'[u].ino] = f)
    BY <1>1, <1>4, <1>6, <1>8 DEF InCommit
  <2>2. Batch(f)' = None
    BY <2>1, BatchThen DEF RefInv
  <2>. QED
    BY <1>1, <1>5, <1>7, <2>2, Stays
<1>9. CASE named[i] = f
  <2>1. Alive(i) /\ Exists(f)
    <3>1. tree[by_ino[i]] = f /\ by_ino[i] \in Paths /\ f # None
      BY <1>1, <1>2, <1>3, <1>9, NotNone DEF WriteInv, NameInv, Mapped, RefInv, BaseInv, TypeInv, TypeOK
    <3>. QED
      BY <1>9, <3>1 DEF Alive, Exists, PathsOf
  <2>2. InCommit(t)' /\ named'[call'[t].ino] = f
    BY <1>1, <1>4, <1>9 DEF InCommit
  <2>. DEFINE b == Committed(s, disk[f]).blocks
  <2>3. Batch(f)' = b /\ b \in Contents
    BY <1>1, <1>4, <2>2, BatchThen DEF RefInv
  <2>4. SessionOver(s, Len(disk[f].blocks)) /\ flushing[i] = None
    <3>1. flushing[i] = None
      BY <1>3
    <3>2. SessionInv
      BY <1>2 DEF WriteInv
    <3>. QED
      BY <1>1, <1>9, <2>1, <3>1, <3>2 DEF SessionInv
  <2>5. /\ Len(b) = s.size
        /\ \A k \in Idx : Shows(s, k) # None => Block(b, k) = Shows(s, k)
        /\ \A k \in Idx : k < s.size /\ Shows(s, k) = None => Block(b, k) = Block(disk[f].blocks, k)
    BY <1>0, <1>1, <2>4, CommittedHolds DEF Holds
  <2>6. /\ s.size = Len(latest[f])
        /\ \A k \in Idx : k < s.size => Shown(i, f, k) = Block(latest[f], k)
    BY <1>1, <1>2, <1>9, <2>1 DEF WriteInv, DataInv, Size
  <2>. HIDE DEF b
  <2>7. \A k \in Idx : k < s.size => Block(b, k) = Block(latest[f], k)
    <3>1. \A k \in Idx : Shown(i, f, k) = IF Shows(s, k) # None THEN Shows(s, k) ELSE Block(disk[f].blocks, k)
      BY <2>4 DEF Shown, Buffered, Shows
    <3>. QED
      BY <2>5, <2>6, <3>1
  <2>8. b = latest[f]
    <3>1. latest[f] \in Contents
      BY RefTypes
    <3>2. s.size \in 0 .. MaxSize /\ \A k \in Nat : k < s.size => k \in Idx
      BY <1>1, SessionFacts, SizesAreNat
    <3>. QED
      BY <2>3, <2>5, <2>6, <2>7, <3>1, <3>2, SameContent
  <2>9. View(f) = latest[f] /\ View(f) \in Contents
    BY <2>1, RefTypes DEF Kept
  <2>. QED
    BY <1>1, <1>5, <1>7, <2>3, <2>8, <2>9, TakeMaps
<1>. QED
  BY <1>8, <1>9

LEMMA CommitRefines ==
    ASSUME RefInv, RefInv', NEW t \in Threads, Commit(t), NEW f \in Files
    PROVE  Promise(f)!Next \/ UNCHANGED PromiseVars(f)
<1>. DEFINE i == call[t].ino
<1>0. /\ call[t].op = "sync" /\ WriteInv /\ call \in [Threads -> Calls]
      /\ UNCHANGED <<tree, named, by_ino, latest>>
      /\ disk \in [Files -> Archives] /\ flushing \in [Inos -> Sessions \cup {None}]
  <2>1. call[t].op = "sync" /\ UNCHANGED <<tree, named, by_ino, latest>>
    BY DEF Commit, Publish, FailCommit, BumpEpoch, EvictReader, EndCommit, At, namespace
  <2>. QED
    BY <2>1 DEF RefInv, ViewInv, StillInv, WriteInv, BaseInv, TypeInv, TypeOK
<1>1. /\ i \in Inos /\ call[t] \in Syncs /\ Mapped(i) /\ ~New(i) /\ tree[by_ino[i]] = named[i]
      /\ \A u \in Threads : InCommit(u) => u = t
  BY <1>0, CommitFacts DEF RefInv, InCommit
<1>2. named[i] \in Files /\ Exists(named[i]) /\ Target(t) = named[i]
  <2>1. by_ino[i] \in Paths /\ named[i] \in Files \cup {None} /\ named[i] # None
    BY <1>1 DEF RefInv, BaseInv, TypeInv, TypeOK, Mapped, New
  <2>. QED
    BY <1>1, <2>1 DEF Exists, PathsOf, Target
<1>3. (Exists(f)' <=> Exists(f)) /\ View(f)' = View(f)
  <2>1. Exists(f)' <=> Exists(f)
    BY <1>0 DEF Exists, PathsOf
  <2>. QED
    BY <1>0, <2>1, RefTypes DEF Kept
<1>4. CASE BumpEpoch(t) \/ EvictReader(t)
  <2>1. /\ ~InCommit(t) /\ UNCHANGED <<flushing, disk>>
        /\ call'[t].step # "commit" /\ \A u \in Threads \ {t} : call'[u] = call[u]
    <3>1. \/ Goto(t, [call[t] EXCEPT !.step = "evict"]) /\ call[t].step = "bump"
          \/ Goto(t, [call[t] EXCEPT !.step = "end"]) /\ call[t].step = "evict"
      BY <1>4 DEF BumpEpoch, EvictReader, Step, At
    <3>. QED
      BY <1>0, <1>1, <1>4, <3>1 DEF BumpEpoch, EvictReader, sessions, Goto, Syncs, InCommit
  <2>2. CommitsGoOn
    BY <1>0, <2>1, CallsGoOn DEF InCommit
  <2>. QED
    BY <1>0, <2>1, <2>2, SilentRefines
<1>5. CASE EndCommit(t)
  <2>1. /\ ~InCommit(t) /\ UNCHANGED disk
        /\ call'[t] = Idle /\ \A u \in Threads \ {t} : call'[u] = call[u]
    BY <1>0, <1>5 DEF EndCommit, Return, Goto, At, InCommit
  <2>2. \A u \in Threads : ~InCommit(u) /\ ~InCommit(u)'
    BY <1>1, <2>1, OpIdle DEF InCommit
  <2>3. CommitsGoOn
    BY <2>2 DEF CommitsGoOn
  <2>. QED
    BY <1>0, <2>1, <2>3, SilentRefines
<1>6. ASSUME Publish(t) \/ FailCommit(t)
      PROVE  /\ InCommit(t) /\ Batch(f)' = None
             /\ named[i] # f => Batch(f) = None
             /\ named[i] = f => Batch(f) = Committed(flushing[i], disk[f]).blocks /\ Batch(f) \in Contents
  <2>1. InCommit(t)
    BY <1>6 DEF Publish, FailCommit, At, InCommit
  <2>2. call'[t].step # "commit" \/ call'[t].op = "idle"
    <3>1. Goto(t, [call[t] EXCEPT !.step = "bump"]) \/ Goto(t, Idle)
      BY <1>6 DEF Publish, FailCommit, Step, Return
    <3>2. CASE Goto(t, [call[t] EXCEPT !.step = "bump"])
      BY <1>0, <1>1, <3>2 DEF Goto, Syncs
    <3>3. CASE Goto(t, Idle)
      BY <1>0, <3>3, OpIdle DEF Goto
    <3>. QED
      BY <3>1, <3>2, <3>3
  <2>3. \A u \in Threads \ {t} : call'[u] = call[u]
    BY <1>0, <1>6 DEF Publish, FailCommit, Step, Return, Goto
  <2>4. \A u \in Threads : ~InCommit(u)'
    BY <1>1, <2>2, <2>3 DEF InCommit
  <2>5. Batch(f)' = None
    BY <2>4, BatchThen DEF RefInv
  <2>6. named[i] # f => \A u \in Threads : ~(InCommit(u) /\ named[call[u].ino] = f)
    BY <1>1
  <2>7. named[i] # f => Batch(f) = None
    BY <2>6, BatchIs DEF RefInv
  <2>. QED
    BY <2>1, <2>5, <2>7, BatchIs DEF RefInv
<1>7. CASE Publish(t)
  <2>1. disk' = [disk EXCEPT ![named[i]] = Committed(flushing[i], disk[named[i]])]
    BY <1>2, <1>7 DEF Publish
  <2>2. CASE named[i] = f
    <3>1. disk'[f].blocks = Committed(flushing[i], disk[f]).blocks
      BY <1>0, <2>1, <2>2
    <3>. QED
      BY <1>2, <1>3, <1>6, <1>7, <2>2, <3>1, LandMaps
  <2>3. CASE named[i] # f
    <3>1. disk'[f] = disk[f]
      BY <1>0, <2>1, <2>3
    <3>. QED
      BY <1>3, <1>6, <1>7, <2>3, <3>1, Stays
  <2>. QED
    BY <2>2, <2>3
<1>8. CASE FailCommit(t)
  <2>1. disk' = disk
    BY <1>8 DEF FailCommit
  <2>2. CASE named[i] = f
    BY <1>3, <1>6, <1>8, <2>1, <2>2, DropMaps
  <2>3. CASE named[i] # f
    BY <1>3, <1>6, <1>8, <2>1, <2>3, Stays
  <2>. QED
    BY <2>2, <2>3
<1>. QED
  BY <1>4, <1>5, <1>7, <1>8 DEF Commit

LEMMA EnterRefines ==
    ASSUME RefInv, RefInv', NEW p \in Paths, NEW i \in Inos, Lookup(p, i) \/ \E g \in Files : Create(p, g, i),
           NEW f \in Files
    PROVE  Promise(f)!Next \/ UNCHANGED PromiseVars(f)
<1>0. /\ tree \in [Paths -> Files \cup {None}] /\ latest \in [Files -> Contents] /\ disk \in [Files -> Archives]
      /\ named \in [Inos -> Files \cup {None}] /\ \A g \in Files : g # None
  BY NotNone DEF RefInv, BaseInv, TypeInv, TypeOK
<1>1. CommitsGoOn
  <2>1. /\ UNCHANGED <<call, flushing>> /\ NsFree /\ \E g : Intern(p, i, g)
    BY DEF Lookup, Create, sessions
  <2>2. \A j \in Inos : j # i => named'[j] = named[j]
    BY <1>0, <2>1 DEF Intern
  <2>3. ASSUME NEW t \in Threads, InCommit(t) PROVE call[t].ino \in Inos /\ call[t].ino # i
    <3>1. WriteInv
      BY <2>3 DEF InCommit, RefInv, ViewInv, StillInv, WriteInv
    <3>2. /\ call[t].ino \in Inos /\ ~New(call[t].ino) /\ Mapped(call[t].ino)
          /\ tree[by_ino[call[t].ino]] = named[call[t].ino]
      BY <2>3, <3>1, CommitFacts DEF InCommit, RefInv
    <3>3. CASE New(i)
      BY <3>2, <3>3
    <3>4. CASE ~New(i)
      <4>1. i \in InosAt(p) /\ tree[p] = None
        BY <2>1, <3>4 DEF Lookup, Create, Intern
      <4>2. by_ino[i] = p
        BY <4>1 DEF InosAt
      <4>. QED
        BY <3>2, <4>1, <4>2 DEF New
    <3>. QED
      BY <3>3, <3>4
  <2>. QED
    BY <2>1, <2>2, <2>3 DEF CommitsGoOn, InCommit
<1>2. CASE Lookup(p, i)
  BY <1>1, <1>2, SilentRefines DEF Lookup
<1>3. ASSUME NEW g \in Files, Create(p, g, i) PROVE Promise(f)!Next \/ UNCHANGED PromiseVars(f)
  <2>1. /\ tree[p] = None /\ ~Exists(g)
        /\ tree' = [tree EXCEPT ![p] = g] /\ disk' = [disk EXCEPT ![g] = Empty]
        /\ latest' = [latest EXCEPT ![g] = <<>>]
        /\ \A j \in Inos : named[j] # g
    BY <1>3 DEF Create
  <2>2. CASE f = g
    <3>1. Exists(f)' /\ ~Exists(f)
      BY <1>0, <2>1, <2>2 DEF Exists, PathsOf
    <3>2. View(f) = None /\ View(f)' = <<>> /\ disk'[f].blocks = <<>>
      BY <1>0, <2>1, <2>2, <3>1, RefTypes DEF Kept, Empty
    <3>3. \A t \in Threads : ~(InCommit(t) /\ named[call[t].ino] = f)
      BY <2>1, <2>2, FieldTypes DEF RefInv, BaseInv, InCommit
    <3>4. \A t \in Threads : ~(InCommit(t)' /\ named'[call'[t].ino] = f)
      BY <1>1, <3>3 DEF CommitsGoOn
    <3>5. Batch(f) = None /\ Batch(f)' = None
      BY <3>3, <3>4, BatchIs, BatchThen DEF RefInv
    <3>. QED
      BY <3>1, <3>2, <3>5, CreateMaps
  <2>3. CASE f # g
    <3>1. (Exists(f)' <=> Exists(f)) /\ disk'[f] = disk[f] /\ latest'[f] = latest[f]
      BY <1>0, <2>1, <2>3 DEF Exists, PathsOf
    <3>2. View(f)' = View(f)
      BY <3>1, RefTypes DEF Kept
    <3>3. Batch(f)' = Batch(f)
      BY <1>1, <3>1, BatchStays DEF RefInv
    <3>. QED
      BY <3>1, <3>2, <3>3, Stays
  <2>. QED
    BY <2>2, <2>3
<1>. QED
  BY <1>2, <1>3

LEMMA ReadRefines ==
    ASSUME RefInv, RefInv', NEW t \in Threads, Get(t) \/ Stat(t), NEW f \in Files
    PROVE  UNCHANGED PromiseVars(f)
<1>1. /\ call[t].op \in {"get", "head", "stat"} /\ call'[t].op \in {"idle", call[t].op}
      /\ \A u \in Threads \ {t} : call'[u] = call[u]
      /\ UNCHANGED <<namespace, disk, sessions, latest>>
  BY ReadGoes DEF RefInv, BaseInv
<1>2. CommitsGoOn
  BY <1>1, CallsGoOn DEF InCommit, namespace, sessions
<1>. QED
  BY <1>1, <1>2, SilentRefines DEF namespace

LEMMA StartRefines ==
    ASSUME RefInv, RefInv', NEW t \in Threads, NEW i \in Inos, NEW f \in Files,
           \/ StartHead(t, i) \/ StartStat(t, i)
           \/ \E k \in Idx : StartGet(t, i, k) \/ \E v \in Vals : StartPut(t, i, k, v)
           \/ \E n \in 0 .. MaxSize : StartCut(t, i, n)
    PROVE  UNCHANGED PromiseVars(f)
<1>1. call[t].op = "idle" /\ UNCHANGED <<namespace, disk, sessions, latest>>
  BY OpIdle DEF StartHead, StartStat, StartGet, StartPut, StartCut, MayCall
<1>2. call \in [Threads -> Calls]
  BY DEF RefInv, BaseInv, TypeInv
<1>3. call'[t].op # "sync" /\ \A u \in Threads \ {t} : call'[u] = call[u]
  <2>1. CASE StartHead(t, i)
    BY <1>2, <2>1 DEF StartHead, Goto
  <2>2. CASE StartStat(t, i)
    BY <1>2, <2>2 DEF StartStat, Goto
  <2>3. CASE \E k \in Idx : StartGet(t, i, k)
    BY <1>2, <2>3 DEF StartGet, Goto
  <2>4. CASE \E k \in Idx, v \in Vals : StartPut(t, i, k, v)
    BY <1>2, <2>4 DEF StartPut, Goto
  <2>5. CASE \E n \in 0 .. MaxSize : StartCut(t, i, n)
    BY <1>2, <2>5 DEF StartCut, Goto
  <2>. QED
    BY <2>1, <2>2, <2>3, <2>4, <2>5
<1>4. CommitsGoOn
  BY <1>1, <1>3, CallsGoOn DEF InCommit, namespace, sessions
<1>. QED
  BY <1>1, <1>4, SilentRefines DEF namespace

\* Steps under the commit lock that may remove files.
LEMMA VanishRefines ==
    ASSUME RefInv, RefInv', committer = None, UNCHANGED <<disk, latest>>,
           \A t \in Threads : call'[t] = call[t] \/ call'[t].op = "rename",
           NEW f \in Files, Exists(f)' => Exists(f)
    PROVE  Promise(f)!Next \/ UNCHANGED PromiseVars(f)
<1>1. \A t \in Threads : ~InCommit(t) /\ ~InCommit(t)'
  BY NoOneCommits DEF RefInv, InCommit
<1>2. Batch(f) = None /\ Batch(f)' = None
  BY <1>1, BatchIs, BatchThen DEF RefInv
<1>3. CASE Exists(f)' <=> Exists(f)
  <2>1. View(f)' = View(f)
    BY <1>3, RefTypes DEF Kept
  <2>. QED
    BY <1>2, <1>3, <2>1, Stays
<1>4. CASE Exists(f) /\ ~Exists(f)'
  <2>1. View(f)' = None /\ disk[f].blocks \in Contents
    BY <1>4, RefTypes DEF Kept
  <2>. QED
    BY <1>2, <1>4, <2>1, RemoveMaps
<1>. QED
  BY <1>3, <1>4

LEMMA LeaveRefines ==
    ASSUME RefInv, RefInv', NEW f \in Files,
           \/ \E p \in Paths : Unlink(p)
           \/ \E t \in Threads, p, q \in Paths : RenameFile(t, p, q)
           \/ \E d, e \in Dirs : RenameDir(d, e)
    PROVE  Promise(f)!Next \/ UNCHANGED PromiseVars(f)
<1>0. tree \in [Paths -> Files \cup {None}] /\ call \in [Threads -> Calls]
  BY DEF RefInv, BaseInv, TypeInv, TypeOK
<1>1. committer = None /\ UNCHANGED <<disk, latest>>
  BY DEF Unlink, RenameFile, RenameDir
<1>2. \A t \in Threads : call'[t] = call[t] \/ call'[t].op = "rename"
  BY <1>0 DEF Unlink, RenameFile, RenameDir, Goto
<1>3. \A p \in Paths : \E q \in Paths : tree'[p] = None \/ tree'[p] = tree[q]
  <2>1. CASE \E p \in Paths : Unlink(p)
    BY <1>0, <2>1 DEF Unlink
  <2>2. CASE \E t \in Threads, p, q \in Paths : RenameFile(t, p, q)
    BY <1>0, <2>2 DEF RenameFile
  <2>3. ASSUME NEW d \in Dirs, NEW e \in Dirs, RenameDir(d, e), NEW p \in Paths
        PROVE  \E q \in Paths : tree'[p] = None \/ tree'[p] = tree[q]
    <3>1. <<d, p[2]>> \in Paths
      BY DEF Paths
    <3>2. tree'[p] \in {tree[<<d, p[2]>>], None, tree[p]}
      BY <2>3 DEF RenameDir
    <3>. QED
      BY <3>1, <3>2
  <2>. QED
    BY <2>1, <2>2, <2>3
<1>4. Exists(f)' => Exists(f)
  BY <1>3 DEF Exists, PathsOf
<1>. QED
  BY <1>1, <1>2, <1>4, VanishRefines

LEMMA OtherRefines ==
    ASSUME RefInv, RefInv', NEW f \in Files,
           \/ \E t \in Threads : RenameMap(t)
           \/ \E i \in Inos : Released(i)
           \/ \E d \in Dirs : Mkdir(d) \/ Rmdir(d)
    PROVE  UNCHANGED PromiseVars(f)
<1>1. CASE (\E i \in Inos : Released(i)) \/ \E d \in Dirs : Mkdir(d) \/ Rmdir(d)
  <2>1. UNCHANGED <<tree, disk, latest, call, flushing, named>>
    BY <1>1 DEF Released, Mkdir, Rmdir, namespace, sessions
  <2>2. CommitsGoOn
    BY <2>1 DEF CommitsGoOn, InCommit
  <2>. QED
    BY <2>1, <2>2, SilentRefines
<1>2. ASSUME NEW t \in Threads, RenameMap(t) PROVE UNCHANGED PromiseVars(f)
  <2>1. call[t].op = "rename" /\ UNCHANGED <<tree, disk, latest, named>> /\ Goto(t, Idle)
    BY <1>2 DEF RenameMap, At, Return
  <2>2. call \in [Threads -> Calls]
    BY DEF RefInv, BaseInv, TypeInv
  <2>3. \A u \in Threads : ~InCommit(u)
    BY <2>1 DEF RefInv, BaseInv, LockInv, InCommit
  <2>4. \A u \in Threads : ~InCommit(u)'
    BY <2>1, <2>2, <2>3, OpIdle DEF InCommit, Goto
  <2>5. CommitsGoOn
    BY <2>3, <2>4 DEF CommitsGoOn
  <2>. QED
    BY <2>1, <2>5, SilentRefines
<1>. QED
  BY <1>1, <1>2

LEMMA CrashRefines ==
    ASSUME RefInv, RefInv', Crash, NEW f \in Files PROVE Promise(f)!Next
<1>1. /\ UNCHANGED <<tree, disk>> /\ latest'[f] = disk[f].blocks /\ \A t \in Threads : call'[t] = Idle
  BY DEF Crash
<1>2. Exists(f)' <=> Exists(f)
  BY <1>1 DEF Exists, PathsOf
<1>3. View(f)' = Stored(f)
  BY <1>1, <1>2, RefTypes DEF Kept, Stored
<1>4. Batch(f)' = None
  BY <1>1, OpIdle, BatchThen DEF RefInv, InCommit
<1>. QED
  BY <1>1, <1>2, <1>3, <1>4, CrashMaps

LEMMA InitRefines == Init => \A f \in Files : Promise(f)!Init
<1>. SUFFICES ASSUME Init, NEW f \in Files PROVE Promise(f)!Init
  OBVIOUS
<1>1. RefInv
  BY InitBase, InitView DEF RefInv
<1>2. /\ \A t \in Threads : ~InCommit(t)
      /\ latest[f] = disk[f].blocks
  BY OpIdle DEF Init, InCommit
<1>3. disk[f].blocks \in Contents
  BY <1>1 DEF RefInv, BaseInv, TypeInv, TypeOK, Archives
<1>4. View(f) = Stored(f)
  BY <1>1, <1>2, ViewIs DEF RefInv, Kept, Stored
<1>5. Batch(f) = None
  BY <1>1, <1>2, BatchIs DEF RefInv
<1>. QED
  BY <1>3, <1>4, <1>5 DEF Promise!Init, Stored

LEMMA StepRefines ==
    RefInv /\ RefInv' /\ [Next]_vars => [\A f \in Files : Promise(f)!Next \/ UNCHANGED PromiseVars(f)]_vars
<1>. SUFFICES ASSUME RefInv, RefInv', Next, NEW f \in Files
              PROVE  Promise(f)!Next \/ UNCHANGED PromiseVars(f)
  OBVIOUS
<1>1. ASSUME NEW t \in Threads, Get(t) \/ Stat(t) \/ Write(t) \/ Commit(t)
      PROVE  Promise(f)!Next \/ UNCHANGED PromiseVars(f)
  BY <1>1, ReadRefines, WriteRefines, CommitRefines
<1>2. ASSUME NEW t \in Threads, NEW i \in Inos,
             \/ StartHead(t, i) \/ StartStat(t, i) \/ Swap(t, i)
             \/ \E k \in Idx : StartGet(t, i, k) \/ \E v \in Vals : StartPut(t, i, k, v)
             \/ \E n \in 0 .. MaxSize : StartCut(t, i, n)
      PROVE  Promise(f)!Next \/ UNCHANGED PromiseVars(f)
  BY <1>2, StartRefines, SwapRefines
<1>3. ASSUME NEW p \in Paths, NEW i \in Inos, Lookup(p, i) \/ \E g \in Files : Create(p, g, i)
      PROVE  Promise(f)!Next \/ UNCHANGED PromiseVars(f)
  BY <1>3, EnterRefines
<1>4. CASE \/ \E p \in Paths : Unlink(p)
           \/ \E t \in Threads, p, q \in Paths : RenameFile(t, p, q)
           \/ \E d, e \in Dirs : RenameDir(d, e)
  BY <1>4, LeaveRefines
<1>5. CASE \/ \E t \in Threads : RenameMap(t)
           \/ \E i \in Inos : Released(i)
           \/ \E d \in Dirs : Mkdir(d) \/ Rmdir(d)
  BY <1>5, OtherRefines
<1>6. CASE Crash
  BY <1>6, CrashRefines
<1>. QED
  BY <1>1, <1>2, <1>3, <1>4, <1>5, <1>6 DEF Next

\* Each archive is an atomic write-back file: a commit lands all the file held
\* when it took the session, or nothing; a failed one, with its session merged
\* back under newer changes, takes nothing from readers; a removed file stays
\* removed, and a crash goes back to what is on disk.
THEOREM ShadowImplementsWriteBack == ASSUME Orderly(Workloads) PROVE Spec => ImplementsWriteBack
<1>1. Init => RefInv
  BY InitBase, InitView DEF RefInv
<1>2. RefInv /\ [Next]_vars => RefInv'
  BY NextBase, NextView DEF RefInv
<1>. QED
  BY <1>1, <1>2, InitRefines, StepRefines, PTL DEF Spec, ImplementsWriteBack

-----------------------------------------------------------------------------
(* The invariant of what reads find                                         *)

Reads == Ops \cap {"get", "head", "stat"} # {}

\* The commit of i is at one of these steps.
Committing(i, steps) == \E t \in Threads : At(t, "sync", call[t].step) /\ call[t].ino = i /\ call[t].step \in steps

Filling(t, i) == Reading(t) /\ call[t].step = "fill" /\ call[t].ino = i

\* The archive as it was before the session in flushing landed, as far as who
\* looks into the sessions first can tell.
Older(i, r) ==
    /\ flushing[i] # None
    /\ \A k \in Idx : k < flushing[i].size /\ Shows(flushing[i], k) = None =>
         Block(r.blocks, k) = Block(disk[named[i]].blocks, k)

\* A cached reader is of the archive as it is, or as it was before the commit
\* that is about to evict it; and so is one that will be cached.
CacheInv ==
    \A i \in Inos :
        /\ New(i) => readers[i] = None
        /\ Alive(i) =>
             LET now == disk[named[i]] IN
             /\ readers[i] \in {None, now} \/ (Committing(i, {"bump", "evict"}) /\ Older(i, readers[i]))
             /\ \A t \in Threads : Filling(t, i) /\ fresh[t] =>
                  call[t].reader = now \/ (Committing(i, {"bump"}) /\ Older(i, call[t].reader))

\* The copy of the head is the head, in archives and through sessions.
HeadOK(r) == r.head # None => Len(r.blocks) >= 1 /\ r.head = Block(r.blocks, 0)
Passes(s) == s.head = Keep => s.dirty[0] = None /\ s.keep >= 1
Through(s, blocks, k) == IF Shows(s, k) # None THEN Shows(s, k) ELSE Block(blocks, k)

DiskHeads == \A f \in Files : HeadOK(disk[f])
ReaderHeads ==
    /\ \A i \in Inos : readers[i] # None => HeadOK(readers[i])
    /\ \A t \in Threads, i \in Inos : Filling(t, i) => HeadOK(call[t].reader)
SessionHeads ==
    \A i \in Inos : Alive(i) =>
        /\ active[i] # None =>
             /\ Passes(active[i])
             /\ active[i].head \in Vals =>
                  Len(latest[named[i]]) >= 1 /\ active[i].head = Block(latest[named[i]], 0)
        /\ flushing[i] # None =>
             /\ Passes(flushing[i])
             /\ flushing[i].head \in Vals =>
                  flushing[i].size >= 1 /\ flushing[i].head = Through(flushing[i], disk[named[i]].blocks, 0)
HeadInv == DiskHeads /\ ReaderHeads /\ SessionHeads

\* What a read may come to: block k as it is in the sessions, in the archive
\* and in every reader it can meet.
Offers(t, i, k) ==
    /\ Block(latest[named[i]], k) \in seen[t] /\ Block(disk[named[i]].blocks, k) \in seen[t]
    /\ Shows(flushing[i], k) \in seen[t] \cup {None}
    /\ readers[i] # None => Block(readers[i].blocks, k) \in seen[t]
    /\ \A u \in Threads : Filling(u, i) /\ (fresh[u] \/ u = t) => Block(call[u].reader.blocks, k) \in seen[t]

\* And the sizes getattr may come to.
OffersSize(t, i) ==
    /\ Len(latest[named[i]]) \in seen[t]
    /\ call[t].step = "footer" =>
         /\ Len(disk[named[i]].blocks) \in seen[t]
         /\ flushing[i] # None => flushing[i].size \in seen[t]

SeenFor(t, i) ==
    /\ call[t].op = "head" => call[t].idx = 0
    /\ call[t].op # "stat" => Offers(t, i, call[t].idx)
    /\ call[t].op = "stat" => OffersSize(t, i)
    /\ call[t].op = "stat" \/ call[t].step = "open" => call[t].path = by_ino[i]
    /\ call[t].step = "done" => call[t].value \in seen[t]
SeenInv == \A t \in Threads, i \in Inos : Reading(t) /\ call[t].ino = i /\ Alive(i) => SeenFor(t, i)

OpsInv == /\ \A t \in Threads : Reading(t) => call[t].op \in Ops
          /\ "rename" \notin Ops => NsFree

\* What a read has seen stays, and what its file holds before and after a step
\* is added.
LEMMA SeenGrows ==
    ASSUME Next, NEW t \in Threads, Reading(t)'
    PROVE  LET c == call'[t]
               f == named[c.ino]
           IN /\ seen[t] \subseteq seen'[t]
              /\ c.op = "stat" => Len(latest[f]) \in seen'[t] /\ Len(latest'[f]) \in seen'[t]
              /\ c.op # "stat" =>
                   Block(latest[f], c.idx) \in seen'[t] /\ Block(latest'[f], c.idx) \in seen'[t]
<1>1. seen'[t] = IF ~Reading(t)' THEN {}
                 ELSE LET c == call'[t]
                          f == named[c.ino]
                      IN seen[t] \cup {Asked(c, latest[f]), Asked(c, latest'[f])}
  BY DEF Next, Track
<1>. QED
  BY <1>1 DEF Asked

\* What the active session shows is what the calls have written.
LEMMA ActiveShows ==
    ASSUME BaseInv, WriteInv, NEW i \in Inos, Alive(i), NEW k \in Idx
    PROVE  Shows(active[i], k) \in {None, Block(latest[named[i]], k)}
<1>. DEFINE f == named[i]
<1>1. f \in Files /\ latest[f] \in Contents /\ active[i] \in Sessions \cup {None} /\ k \in Nat
  BY AliveFile, SizesAreNat DEF BaseInv, TypeInv, TypeOK
<1>. SUFFICES ASSUME active[i] # None, Shows(active[i], k) # None PROVE Shows(active[i], k) = Block(latest[f], k)
  BY DEF Shows
<1>2. Size(i, f) = active[i].size /\ Size(i, f) = Len(latest[f])
  BY DEF Size, WriteInv, DataInv
<1>3. CASE k < active[i].size
  <2>1. Shown(i, f, k) = Block(latest[f], k)
    BY <1>2, <1>3 DEF WriteInv, DataInv
  <2>. QED
    BY <2>1 DEF Shown, Buffered
<1>4. CASE ~(k < active[i].size)
  <2>1. active[i].dirty[k] = None
    BY <1>4 DEF WriteInv, SessionInv, SessionOver
  <2>2. Shows(active[i], k) = 0
    BY <2>1 DEF Shows
  <2>. QED
    BY <1>1, <1>2, <1>4, <2>2, BlockType, ContentFacts
<1>. QED
  BY <1>1, <1>3, <1>4, SessionFacts

\* What no session shows is in the archive.
LEMMA DiskShows ==
    ASSUME BaseInv, WriteInv, NEW i \in Inos, Alive(i), NEW k \in Idx, k < Size(i, named[i]),
           Buffered(i, k) = None
    PROVE  /\ Shows(active[i], k) = None /\ Shows(flushing[i], k) = None
           /\ Block(disk[named[i]].blocks, k) = Block(latest[named[i]], k)
           /\ flushing[i] # None => k < flushing[i].size
<1>1. Shows(active[i], k) = None /\ Shows(flushing[i], k) = None
  BY DEF Buffered
<1>2. Block(disk[named[i]].blocks, k) = Block(latest[named[i]], k)
  BY DEF WriteInv, DataInv, Shown
<1>3. ASSUME flushing[i] # None PROVE k < flushing[i].size
  <2>1. CASE active[i] = None
    BY <1>3, <2>1 DEF Size
  <2>2. CASE active[i] # None
    <3>1. active[i] \in Sessions /\ flushing[i] \in Sessions /\ k < active[i].size
      BY <1>3, <2>2 DEF Size, BaseInv, TypeInv, TypeOK
    <3>2. active[i].dirty[k] = None /\ k < active[i].keep /\ flushing[i].size \in Nat /\ k \in Nat
      BY <1>1, <2>2, <3>1, SessionFacts, SizesAreNat, NotNone DEF Shows
    <3>3. SessionOver(active[i], flushing[i].size)
      BY <1>3, <2>2 DEF WriteInv, SessionInv
    <3>. QED
      BY <3>1, <3>2, <3>3 DEF SessionOver
  <2>. QED
    BY <2>1, <2>2
<1>. QED
  BY <1>1, <1>2, <1>3

\* A session over an archive: a block after its commit is what the session
\* shows, or as it was.
LEMMA CommittedBlock ==
    ASSUME NEW s \in Sessions, NEW a \in Archives, SessionOver(s, Len(a.blocks)), NEW k \in Idx
    PROVE  LET b == Committed(s, a).blocks IN
           /\ Len(b) = s.size
           /\ IF Shows(s, k) # None THEN Block(b, k) = Shows(s, k) ELSE Block(b, k) = Block(a.blocks, k)
<1>. DEFINE b == Committed(s, a).blocks
<1>1. /\ Holds(s, b)
      /\ \A j \in Idx : j < s.size /\ Shows(s, j) = None => Block(b, j) = Block(a.blocks, j)
      /\ b \in Contents /\ a.blocks \in Contents /\ s # None
  BY CommittedHolds, CommittedIs, NotNone DEF Archives
<1>. HIDE DEF b
<1>2. ASSUME Shows(s, k) = None, ~(k < s.size) PROVE Block(b, k) = Block(a.blocks, k)
  <2>1. k \in Nat /\ s.size \in Nat /\ s.keep \in 0 .. NoKeep /\ Len(a.blocks) \in Nat /\ Len(b) = s.size
    BY <1>1, SizesAreNat, SessionFacts, ContentFacts DEF Holds
  <2>2. s.dirty[k] = None /\ k < s.keep
    BY <1>1, <1>2, <2>1, NotNone, SizesAreNat DEF Shows
  <2>3. k >= Len(a.blocks)
    BY <1>2, <2>1, <2>2, SizesAreNat DEF SessionOver
  <2>. QED
    BY <1>1, <1>2, <2>1, <2>3, BlockType
<1>. QED
  BY <1>1, <1>2 DEF Holds, b

\* Steps that neither begin a read nor are one of its own: reads are left where
\* they are, and only a rename begins a rename.
Spared == \A t \in Threads : Reading(t)' => Reading(t) /\ call'[t] = call[t]
Unmoved == \A t \in Threads : call'[t].op = "rename" => call[t].op = "rename" \/ "rename" \in Ops

StartRead(t, i) == StartHead(t, i) \/ StartStat(t, i) \/ \E k \in Idx : StartGet(t, i, k)

LEMMA SparedGoto ==
    ASSUME BaseInv, NEW t \in Threads, NEW c, Goto(t, c), c.op \notin {"get", "head", "stat"},
           c.op = "rename" => "rename" \in Ops
    PROVE  Spared /\ Unmoved
<1>1. \A u \in Threads : call'[u] = IF u = t THEN c ELSE call[u]
  BY DEF Goto, BaseInv, TypeInv
<1>. QED
  BY <1>1 DEF Spared, Unmoved, Reading

LEMMA SparedWrite ==
    ASSUME BaseInv, NEW t \in Threads, Write(t) PROVE Spared /\ Unmoved
<1>1. call[t].op \in {"put", "cut", "sethead"} /\ call[t] \in Puts \cup Cuts /\ TypeInv
  BY FieldTypes DEF Write, WithSession, FirstChange, BaseInv
<1>2. /\ \A p : [call[t] EXCEPT !.step = "first", !.path = p].op = call[t].op
      /\ [call[t] EXCEPT !.op = "sethead", !.step = "session", !.path = None].op = "sethead"
  BY <1>1 DEF Puts, Cuts
<1>3. (\E s : Change(t, s)) \/ Return(t) \/ \E p : Goto(t, [call[t] EXCEPT !.step = "first", !.path = p])
  BY DEF Write, WithSession, FirstChange
<1>4. \E c : Goto(t, c) /\ c.op \in {"idle", "put", "cut", "sethead"}
  <2>1. ASSUME NEW s, Change(t, s) PROVE \E c : Goto(t, c) /\ c.op \in {"idle", "put", "cut", "sethead"}
    BY <1>1, <1>2, <2>1, ChangeGoes, OpIdle
  <2>. QED
    BY <1>1, <1>2, <1>3, <2>1, OpIdle DEF Return
<1>. QED
  BY <1>4, SparedGoto

LEMMA SparedCommit ==
    ASSUME BaseInv, NEW t \in Threads, Commit(t) PROVE Spared /\ Unmoved
<1>1. call[t].op = "sync" /\ call[t] \in Syncs
  BY FieldTypes DEF Commit, Publish, FailCommit, BumpEpoch, EvictReader, EndCommit, At, BaseInv
<1>2. \A s : [call[t] EXCEPT !.step = s].op = "sync"
  BY <1>1 DEF Syncs
<1>3. Return(t) \/ \E s : Goto(t, [call[t] EXCEPT !.step = s])
  BY DEF Commit, Publish, FailCommit, BumpEpoch, EvictReader, EndCommit, Step
<1>. QED
  BY <1>2, <1>3, OpIdle, SparedGoto DEF Return

LEMMA SparedStart ==
    ASSUME BaseInv, NEW t \in Threads, NEW i \in Inos,
           \/ Swap(t, i) \/ \E k \in Idx, v \in Vals : StartPut(t, i, k, v)
           \/ \E n \in 0 .. MaxSize : StartCut(t, i, n)
    PROVE  Spared /\ Unmoved
<1>1. CASE Swap(t, i)
  BY <1>1, SparedGoto DEF Swap
<1>2. CASE \E k \in Idx, v \in Vals : StartPut(t, i, k, v)
  BY <1>2, SparedGoto DEF StartPut
<1>3. CASE \E n \in 0 .. MaxSize : StartCut(t, i, n)
  BY <1>3, SparedGoto DEF StartCut
<1>. QED
  BY <1>1, <1>2, <1>3

LEMMA SparedNames ==
    ASSUME BaseInv,
           \/ \E t \in Threads : RenameMap(t) \/ \E p, q \in Paths : RenameFile(t, p, q)
           \/ \E i \in Inos : Released(i)
           \/ \E p \in Paths, i \in Inos : Lookup(p, i) \/ \E f \in Files : Create(p, f, i)
           \/ \E p \in Paths : Unlink(p)
           \/ \E d, e \in Dirs : RenameDir(d, e)
           \/ \E d \in Dirs : Mkdir(d) \/ Rmdir(d)
           \/ Crash
    PROVE  Spared /\ Unmoved
<1>1. ASSUME UNCHANGED call PROVE Spared /\ Unmoved
  BY <1>1 DEF Spared, Unmoved, Reading
<1>2. ASSUME NEW t \in Threads, RenameMap(t) PROVE Spared /\ Unmoved
  BY <1>2, OpIdle, SparedGoto DEF RenameMap, Return
<1>3. ASSUME NEW t \in Threads, NEW p \in Paths, NEW q \in Paths, RenameFile(t, p, q) PROVE Spared /\ Unmoved
  BY <1>3, SparedGoto DEF RenameFile
<1>4. CASE Crash
  BY <1>4, OpIdle DEF Crash, Spared, Unmoved, Reading
<1>. QED
  BY <1>1, <1>2, <1>3, <1>4 DEF Released, Lookup, Create, Unlink, RenameDir, Mkdir, Rmdir

LEMMA NextReads ==
    ASSUME BaseInv, Next
    PROVE  \/ Spared /\ Unmoved
           \/ \E t \in Threads : Get(t) \/ Stat(t) \/ \E i \in Inos : StartRead(t, i)
<1>1. ASSUME NEW t \in Threads, NEW i \in Inos,
             \/ StartHead(t, i) \/ StartStat(t, i) \/ Swap(t, i)
             \/ \E k \in Idx : StartGet(t, i, k) \/ \E v \in Vals : StartPut(t, i, k, v)
             \/ \E n \in 0 .. MaxSize : StartCut(t, i, n)
      PROVE  (Spared /\ Unmoved) \/ StartRead(t, i)
  BY <1>1, SparedStart DEF StartRead
<1>. QED
  BY <1>1, SparedWrite, SparedCommit, SparedNames DEF Next

LEMMA NextOps == BaseInv /\ OpsInv /\ [Next]_vars => OpsInv'
<1>. SUFFICES ASSUME BaseInv, OpsInv, [Next]_vars PROVE OpsInv'
  OBVIOUS
<1>1. Ops' = Ops /\ TypeInv /\ call \in [Threads -> Calls]
  BY DEF Next, vars, Ops, BaseInv, TypeInv
<1>2. CASE UNCHANGED vars
  BY <1>1, <1>2 DEF OpsInv, NsFree, Reading, vars
<1>3. CASE Spared /\ Unmoved
  BY <1>1, <1>3 DEF Spared, Unmoved, OpsInv, NsFree
<1>4. ASSUME NEW t \in Threads, Get(t) \/ Stat(t) PROVE OpsInv'
  <2>1. /\ call[t].op \in {"get", "head", "stat"} /\ call'[t].op \in {"idle", call[t].op}
        /\ \A u \in Threads \ {t} : call'[u] = call[u]
    BY <1>1, <1>4, ReadGoes
  <2>. QED
    BY <1>1, <2>1 DEF OpsInv, NsFree, Reading
<1>5. ASSUME NEW t \in Threads, NEW i \in Inos, StartRead(t, i) PROVE OpsInv'
  <2>1. call'[t].op \in Ops /\ call'[t].op # "rename" /\ \A u \in Threads \ {t} : call'[u] = call[u]
    <3>1. CASE StartHead(t, i)
      BY <1>1, <3>1 DEF StartHead, Goto, MayCall
    <3>2. CASE StartStat(t, i)
      BY <1>1, <3>2 DEF StartStat, Goto, MayCall
    <3>3. CASE \E k \in Idx : StartGet(t, i, k)
      BY <1>1, <3>3 DEF StartGet, Goto, MayCall
    <3>. QED
      BY <1>5, <3>1, <3>2, <3>3 DEF StartRead
  <2>. QED
    BY <1>1, <2>1 DEF OpsInv, NsFree, Reading
<1>. QED
  BY <1>2, <1>3, <1>4, <1>5, NextReads

\* A number keeps its file and its path as long as the file has a name.
FilesKept ==
    \A i \in Inos : Alive(i)' /\ ~New(i) => Alive(i) /\ named'[i] = named[i] /\ by_ino'[i] = by_ino[i]

InPlace == "rename" \notin Ops /\ ~Moving

LEMMA FilesStay ==
    ASSUME BaseInv, WriteInv, WriteInv', OpsInv, InPlace, Next PROVE FilesKept
<1>1. ASSUME UNCHANGED <<tree, by_ino, named>> PROVE FilesKept
  BY <1>1 DEF FilesKept, Alive, Exists, PathsOf
<1>2. ASSUME NEW p \in Paths, NEW i \in Inos, Lookup(p, i) \/ \E f \in Files : Create(p, f, i) PROVE FilesKept
  <2>1. PICK f \in Files : Enters(p, i, f)
    BY <1>2, EntersFile DEF Next
  <2>2. \A j \in Inos : j # i => by_ino'[j] = by_ino[j] /\ named'[j] = named[j]
    BY <2>1 DEF Enters, BaseInv, TypeInv, TypeOK
  <2>3. \A g : g # f /\ Exists(g)' => Exists(g)
    BY <2>1 DEF Enters, Exists, PathsOf
  <2>4. New(i) /\ \A j \in Inos : named[j] # f
    BY <2>1 DEF Enters
  <2>. QED
    BY <2>2, <2>3, <2>4 DEF FilesKept, Alive
<1>3. ASSUME NEW p \in Paths, Unlink(p) PROVE FilesKept
  <2>1. /\ tree \in [Paths -> Files \cup {None}] /\ tree' = [tree EXCEPT ![p] = None] /\ named' = named
        /\ by_ino' = [i \in Inos |-> IF by_ino[i] = p THEN None ELSE by_ino[i]]
    BY <1>3 DEF Unlink, BaseInv, TypeInv, TypeOK
  <2>2. \A g : Exists(g)' => Exists(g)
    BY <2>1 DEF Exists, PathsOf
  <2>3. \A i \in Inos : Alive(i)' => by_ino'[i] = by_ino[i]
    BY <2>1 DEF WriteInv, NameInv, Mapped
  <2>. QED
    BY <2>1, <2>2, <2>3 DEF FilesKept, Alive
<1>4. CASE Crash
  BY <1>4 DEF Crash, FilesKept, Alive, Exists
<1>5. ASSUME NEW t \in Threads, Get(t) \/ Stat(t) \/ Write(t) \/ Commit(t) PROVE FilesKept
  BY <1>1, <1>5 DEF Get, LookupReader, Resolve, Open, Fill, Done, Stat, AttrFromMeta, ReadFooterGeometry, Write,
     WithSession, FirstChange, Commit, Publish, FailCommit, BumpEpoch, EvictReader, EndCommit, namespace
<1>6. ASSUME NEW t \in Threads, RenameMap(t) \/ \E p, q \in Paths : RenameFile(t, p, q) PROVE FALSE
  BY <1>6 DEF RenameMap, RenameFile, At, OpsInv, InPlace, NsFree
<1>7. ASSUME NEW t \in Threads, NEW i \in Inos,
             \/ StartHead(t, i) \/ StartStat(t, i) \/ Swap(t, i)
             \/ \E k \in Idx : StartGet(t, i, k) \/ \E v \in Vals : StartPut(t, i, k, v)
             \/ \E n \in 0 .. MaxSize : StartCut(t, i, n)
      PROVE  FilesKept
  BY <1>1, <1>7 DEF StartHead, StartStat, Swap, StartGet, StartPut, StartCut, namespace
<1>8. ASSUME NEW i \in Inos, Released(i) PROVE FilesKept
  BY <1>1, <1>8 DEF Released, namespace
<1>9. ASSUME NEW d \in Dirs, Mkdir(d) \/ Rmdir(d) \/ \E e \in Dirs : RenameDir(d, e) PROVE FALSE
  BY <1>9 DEF Mkdir, Rmdir, RenameDir, InPlace, Moving
<1>. QED
  BY <1>2, <1>3, <1>4, <1>5, <1>6, <1>7, <1>8, <1>9 DEF Next

-----------------------------------------------------------------------------
(* The cache                                                                *)

LEMMA CacheFrame ==
    ASSUME BaseInv, WriteInv, CacheInv, FilesKept,
           \A i \in Inos : New(i)' => New(i) \/ readers'[i] = None,
           \A i \in Inos : readers'[i] \in {readers[i], None},
           \A i \in Inos : Alive(i) => disk'[named[i]] = disk[named[i]],
           \A t \in Threads, i \in Inos : Filling(t, i)' =>
               Filling(t, i) /\ call'[t].reader = call[t].reader /\ (fresh'[t] => fresh[t]),
           \A i \in Inos : Committing(i, {"bump", "evict"}) /\ readers'[i] # None =>
               Committing(i, {"bump", "evict"})' /\ flushing'[i] = flushing[i],
           \A t \in Threads, i \in Inos : Committing(i, {"bump"}) /\ fresh'[t] =>
               Committing(i, {"bump"})' /\ flushing'[i] = flushing[i]
    PROVE  CacheInv'
<1>. SUFFICES ASSUME NEW i \in Inos
              PROVE  /\ New(i)' => readers'[i] = None
                     /\ Alive(i)' =>
                          LET now == disk'[named'[i]] IN
                          /\ \/ readers'[i] \in {None, now}
                             \/ Committing(i, {"bump", "evict"})' /\ Older(i, readers[i])'
                          /\ \A t \in Threads : Filling(t, i)' /\ fresh'[t] =>
                               \/ call'[t].reader = now
                               \/ Committing(i, {"bump"})' /\ Older(i, call[t].reader)'
  BY DEF CacheInv
<1>1. New(i)' => readers'[i] = None
  BY DEF CacheInv
<1>2. CASE New(i)
  <2>1. \A t \in Threads : ~Filling(t, i)
    BY <1>2 DEF Filling, WriteInv, CallInv, Uses
  <2>. QED
    BY <1>1, <1>2, <2>1 DEF CacheInv
<1>3. CASE ~New(i)
  <2>. SUFFICES ASSUME Alive(i)'
                PROVE  /\ \/ readers'[i] \in {None, disk'[named'[i]]}
                          \/ Committing(i, {"bump", "evict"})' /\ Older(i, readers[i])'
                       /\ \A t \in Threads : Filling(t, i)' /\ fresh'[t] =>
                            \/ call'[t].reader = disk'[named'[i]]
                            \/ Committing(i, {"bump"})' /\ Older(i, call[t].reader)'
    BY <1>1
  <2>1. Alive(i) /\ named'[i] = named[i] /\ disk'[named'[i]] = disk[named[i]]
    BY <1>3 DEF FilesKept
  <2>2. \A r : Older(i, r) /\ flushing'[i] = flushing[i] => Older(i, r)'
    BY <2>1 DEF Older
  <2>3. ASSUME readers'[i] # None
        PROVE  readers'[i] = disk'[named'[i]] \/ (Committing(i, {"bump", "evict"})' /\ Older(i, readers[i])')
    <3>1. readers'[i] = readers[i]
      BY <2>3
    <3>2. readers[i] = disk[named[i]] \/ (Committing(i, {"bump", "evict"}) /\ Older(i, readers[i]))
      BY <2>1, <2>3, <3>1 DEF CacheInv
    <3>. QED
      BY <2>1, <2>2, <2>3, <3>1, <3>2 DEF Older
  <2>4. ASSUME NEW t \in Threads, Filling(t, i)', fresh'[t]
        PROVE  call'[t].reader = disk'[named'[i]] \/ (Committing(i, {"bump"})' /\ Older(i, call[t].reader)')
    <3>1. Filling(t, i) /\ fresh[t] /\ call'[t].reader = call[t].reader
      BY <2>4
    <3>2. call[t].reader = disk[named[i]] \/ (Committing(i, {"bump"}) /\ Older(i, call[t].reader))
      BY <2>1, <3>1 DEF CacheInv
    <3>. QED
      BY <2>1, <2>2, <2>4, <3>1, <3>2 DEF Older
  <2>. QED
    BY <2>3, <2>4
<1>. QED
  BY <1>2, <1>3

\* A read's own step, but for the two that open an archive and cache it.
LEMMA CacheRead ==
    ASSUME BaseInv, WriteInv, CacheInv, FilesKept, NEW t \in Threads,
           \/ LookupReader(t) \/ Resolve(t) \/ Done(t) \/ Stat(t)
           \/ \E i \in Inos : StartRead(t, i)
    PROVE  CacheInv'
<1>1. UNCHANGED <<disk, flushing, readers, named>>
  BY DEF LookupReader, Resolve, Done, Stat, AttrFromMeta, ReadFooterGeometry, StartRead, StartHead, StartStat,
         StartGet, namespace, sessions
<1>2. /\ call[t].op # "sync" /\ \A u \in Threads \ {t} : call'[u] = call[u] /\ (fresh'[u] => fresh[u])
      /\ ~(Reading(t)' /\ call'[t].step = "fill")
  <2>1. call \in [Threads -> Calls] /\ TypeInv /\ fresh \in [Threads -> BOOLEAN]
    BY DEF BaseInv, TypeInv, TypeOK
  <2>4. CASE LookupReader(t) \/ Resolve(t) \/ Done(t)
    <3>1. Get(t) /\ ~Open(t) /\ call[t].op # "sync"
      BY <2>4 DEF Get, LookupReader, Resolve, Done, Open, Reading
    <3>2. \A u \in Threads \ {t} : fresh'[u] => fresh[u]
      BY <2>1, <2>4 DEF LookupReader, Resolve, Done
    <3>. QED
      BY <2>1, <3>1, <3>2, GetNext
  <2>7. CASE Stat(t)
    <3>1. call[t] \in Stats /\ call[t].op = "stat"
      BY <2>1, <2>7, FieldTypes DEF Stat, AttrFromMeta, ReadFooterGeometry, At
    <3>2. \/ Return(t) \/ Step(t, "footer") \/ \E v : Goto(t, [call[t] EXCEPT !.step = "done", !.value = v])
      BY <2>7 DEF Stat, AttrFromMeta, ReadFooterGeometry
    <3>3. UNCHANGED fresh
      BY <2>7 DEF Stat, AttrFromMeta, ReadFooterGeometry
    <3>. QED
      BY <2>1, <3>1, <3>2, <3>3, OpIdle DEF Return, Step, Goto, Stats, Reading
  <2>8. ASSUME NEW i \in Inos, StartRead(t, i)
        PROVE  /\ call[t].op # "sync" /\ \A u \in Threads \ {t} : call'[u] = call[u] /\ (fresh'[u] => fresh[u])
               /\ call'[t].step # "fill"
    <3>1. CASE StartHead(t, i)
      BY <2>1, <3>1, OpIdle DEF StartHead, Goto, MayCall
    <3>2. CASE StartStat(t, i)
      BY <2>1, <3>2, OpIdle DEF StartStat, Goto, MayCall
    <3>3. CASE \E k \in Idx : StartGet(t, i, k)
      BY <2>1, <3>3, OpIdle DEF StartGet, Goto, MayCall
    <3>. QED
      BY <2>8, <3>1, <3>2, <3>3 DEF StartRead
  <2>. QED
    BY <2>4, <2>7, <2>8
<1>3. \A u \in Threads, i \in Inos : Filling(u, i)' =>
        Filling(u, i) /\ call'[u].reader = call[u].reader /\ (fresh'[u] => fresh[u])
  BY <1>2 DEF Filling, Reading
<1>4. \A i \in Inos : \A s : Committing(i, s) => Committing(i, s)'
  BY <1>2 DEF Committing, At
<1>. QED
  BY <1>1, <1>3, <1>4, CacheFrame DEF New

\* Opening reads the archive as it is.
LEMMA CacheOpen ==
    ASSUME BaseInv, WriteInv, CacheInv, FilesKept, NEW t \in Threads, Open(t), NsFree,
           NEW i \in Inos, i = call[t].ino, Alive(i) => call[t].path = by_ino[i]
    PROVE  CacheInv'
<1>1. /\ UNCHANGED <<disk, flushing, readers, named, fresh, tree>> /\ Reading(t) /\ call[t].step = "open"
      /\ call \in [Threads -> Calls] /\ call[t] \in Readings
  BY ReadingStep DEF Open, namespace, sessions, BaseInv, TypeInv
<1>. DEFINE f == tree[call[t].path]
<1>2. /\ \A u \in Threads \ {t} : call'[u] = call[u]
      /\ call[t].op # "sync"
      /\ Reading(t)' /\ call'[t].step = "fill" => call'[t].ino = i /\ f # None /\ call'[t].reader = disk[f]
  <2>1. CASE f = None
    <3>1. Answer(t, None)
      BY <2>1 DEF Open
    <3>. QED
      BY <1>1, <3>1, AnswerGoes, OpIdle DEF Reading
  <2>2. CASE f # None
    <3>1. call'[t] = [call[t] EXCEPT !.step = "fill", !.reader = disk[f]] /\ \A u \in Threads \ {t} : call'[u] = call[u]
      BY <1>1, <2>2, GotoIs DEF Open
    <3>. QED
      BY <1>1, <2>2, <3>1 DEF Readings, Reading
  <2>. QED
    BY <2>1, <2>2
<1>3. \A j \in Inos : \A s : Committing(j, s) => Committing(j, s)'
  BY <1>2 DEF Committing, At
<1>4. \A j \in Inos : (Alive(j)' <=> Alive(j)) /\ (New(j)' <=> New(j))
  BY <1>1 DEF Alive, Exists, PathsOf, New
<1>5. \A j \in Inos : \A r : Older(j, r)' <=> Older(j, r)
  BY <1>1 DEF Older
<1>6. ASSUME NEW j \in Inos, Alive(j), NEW u \in Threads, Filling(u, j)', fresh'[u]
      PROVE  call'[u].reader = disk[named[j]] \/ (Committing(j, {"bump"})' /\ Older(j, call[u].reader)')
  <2>1. CASE u = t
    <3>1. j = i /\ f # None /\ call'[t].reader = disk[f]
      BY <1>2, <1>6, <2>1 DEF Filling
    <3>2. Mapped(i) /\ tree[by_ino[i]] = named[i] /\ call[t].path = by_ino[i]
      BY <1>6, <3>1 DEF WriteInv, NameInv
    <3>. QED
      BY <2>1, <3>1, <3>2
  <2>2. CASE u # t
    <3>1. Filling(u, j) /\ fresh[u] /\ call'[u] = call[u]
      BY <1>1, <1>2, <1>6, <2>2 DEF Filling, Reading
    <3>2. call[u].reader = disk[named[j]] \/ (Committing(j, {"bump"}) /\ Older(j, call[u].reader))
      BY <1>6, <3>1 DEF CacheInv
    <3>. QED
      BY <1>1, <1>3, <3>1, <3>2 DEF Older
  <2>. QED
    BY <2>1, <2>2
<1>7. ASSUME NEW j \in Inos, Alive(j)
      PROVE  readers'[j] \in {None, disk[named[j]]} \/ (Committing(j, {"bump", "evict"})' /\ Older(j, readers[j])')
  BY <1>1, <1>3, <1>7 DEF CacheInv, Older
<1>8. \A j \in Inos : New(j)' => readers'[j] = None
  BY <1>1, <1>4 DEF CacheInv
<1>9. disk' = disk /\ named' = named
  BY <1>1
<1>. QED
  BY <1>4, <1>6, <1>7, <1>8, <1>9 DEF CacheInv

LEMMA CacheFill ==
    ASSUME BaseInv, WriteInv, CacheInv, NEW t \in Threads, Fill(t), NEW i \in Inos, i = call[t].ino
    PROVE  CacheInv'
<1>1. /\ UNCHANGED <<disk, flushing, named, fresh, tree>> /\ Reading(t) /\ call[t].step = "fill"
      /\ call \in [Threads -> Calls] /\ call[t] \in Readings
      /\ readers \in [Inos -> Archives \cup {None}]
  BY ReadingStep, FieldTypes DEF Fill, namespace, sessions, BaseInv, TypeInv, TypeOK, Readings
<1>2. /\ \A u \in Threads \ {t} : call'[u] = call[u]
      /\ call[t].op # "sync" /\ ~(Reading(t)' /\ call'[t].step = "fill")
  <2>1. \E r : Answer(t, r)
    BY DEF Fill
  <2>. QED
    BY <1>1, <2>1, AnswerGoes, OpIdle DEF Reading
<1>3. \A j \in Inos : \A s : Committing(j, s) => Committing(j, s)'
  BY <1>2 DEF Committing, At
<1>4. \A j \in Inos : (Alive(j)' <=> Alive(j)) /\ (New(j)' <=> New(j))
  BY <1>1 DEF Alive, Exists, PathsOf, New
<1>5. /\ \A j \in Inos : j # i => readers'[j] = readers[j]
      /\ readers'[i] = readers[i] \/ (fresh[t] /\ readers'[i] = call[t].reader)
  BY <1>1 DEF Fill
<1>6. ~New(i)
  BY <1>1 DEF WriteInv, CallInv, Uses
<1>7. ASSUME NEW j \in Inos, Alive(j), NEW u \in Threads, Filling(u, j)', fresh'[u]
      PROVE  call'[u].reader = disk[named[j]] \/ (Committing(j, {"bump"})' /\ Older(j, call[u].reader)')
  <2>1. u # t /\ Filling(u, j) /\ fresh[u] /\ call'[u] = call[u]
    BY <1>1, <1>2, <1>7 DEF Filling, Reading
  <2>2. call[u].reader = disk[named[j]] \/ (Committing(j, {"bump"}) /\ Older(j, call[u].reader))
    BY <1>7, <2>1 DEF CacheInv
  <2>. QED
    BY <1>1, <1>3, <2>1, <2>2 DEF Older
<1>8. ASSUME NEW j \in Inos, Alive(j)
      PROVE  readers'[j] \in {None, disk[named[j]]} \/ (Committing(j, {"bump", "evict"})' /\ Older(j, readers[j])')
  <2>1. CASE readers'[j] = readers[j]
    BY <1>1, <1>3, <1>8, <2>1 DEF CacheInv, Older
  <2>2. CASE j = i /\ fresh[t] /\ readers'[i] = call[t].reader
    <3>1. Filling(t, i)
      BY <1>1 DEF Filling
    <3>2. call[t].reader = disk[named[i]] \/ (Committing(i, {"bump"}) /\ Older(i, call[t].reader))
      BY <1>8, <2>2, <3>1 DEF CacheInv
    <3>3. Committing(i, {"bump"}) => Committing(i, {"bump", "evict"})
      BY DEF Committing
    <3>4. Committing(i, {"bump"}) => Committing(i, {"bump", "evict"})'
      BY <1>1, <1>3, <3>3
    <3>5. Older(i, call[t].reader) => Older(j, readers[j])'
      BY <1>1, <2>2 DEF Older
    <3>. QED
      BY <2>2, <3>2, <3>4, <3>5
  <2>. QED
    BY <1>5, <2>1, <2>2
<1>9. disk' = disk /\ named' = named /\ \A j \in Inos : New(j)' => readers'[j] = None
  BY <1>1, <1>4, <1>5, <1>6 DEF CacheInv
<1>. QED
  BY <1>4, <1>7, <1>8, <1>9 DEF CacheInv

\* Steps of no read, but for the commit's write to the archive.
LEMMA CacheSpared ==
    ASSUME BaseInv, WriteInv, CacheInv, FilesKept, Spared,
           \A i \in Inos : New(i)' => New(i) \/ readers'[i] = None,
           \A i \in Inos : readers'[i] \in {readers[i], None},
           \A i \in Inos : Alive(i) => disk'[named[i]] = disk[named[i]],
           \A t \in Threads : fresh'[t] => fresh[t],
           \A i \in Inos : Committing(i, {"bump", "evict"}) /\ readers'[i] # None =>
               Committing(i, {"bump", "evict"})' /\ flushing'[i] = flushing[i],
           \A t \in Threads, i \in Inos : Committing(i, {"bump"}) /\ fresh'[t] =>
               Committing(i, {"bump"})' /\ flushing'[i] = flushing[i]
    PROVE  CacheInv'
<1>1. \A t \in Threads, i \in Inos : Filling(t, i)' =>
        Filling(t, i) /\ call'[t].reader = call[t].reader /\ (fresh'[t] => fresh[t])
  BY DEF Filling, Spared
<1>. QED
  BY <1>1, CacheFrame

\* No commit is between its write and its end.
LEMMA CacheQuiet ==
    ASSUME BaseInv, WriteInv, CacheInv, FilesKept, Spared,
           \A i \in Inos : New(i)' => New(i) \/ readers'[i] = None,
           \A i \in Inos : readers'[i] \in {readers[i], None},
           \A i \in Inos : Alive(i) => disk'[named[i]] = disk[named[i]],
           \A t \in Threads : fresh'[t] => fresh[t],
           \A t \in Threads : call[t].op = "sync" => call[t].step \in {"commit", "end"}
    PROVE  CacheInv'
<1>1. \A i \in Inos : ~Committing(i, {"bump", "evict"}) /\ ~Committing(i, {"bump"})
  BY DEF Committing, At
<1>. QED
  BY <1>1, CacheSpared

LEMMA CacheCommit ==
    ASSUME BaseInv, WriteInv, CacheInv, FilesKept, NEW t \in Threads,
           FailCommit(t) \/ BumpEpoch(t) \/ EvictReader(t) \/ EndCommit(t),
           NEW i \in Inos, i = call[t].ino
    PROVE  CacheInv'
<1>1. /\ call[t].op = "sync" /\ call[t] \in Syncs /\ call \in [Threads -> Calls]
      /\ readers \in [Inos -> Archives \cup {None}]
  BY FieldTypes DEF FailCommit, BumpEpoch, EvictReader, EndCommit, At, BaseInv, TypeInv, TypeOK
<1>2. Spared /\ UNCHANGED <<named, disk>>
  BY SparedCommit DEF Commit, FailCommit, BumpEpoch, EvictReader, EndCommit, namespace
<1>3. \A u \in Threads : call[u].op = "sync" => u = t
  BY <1>1, CommitFacts
<1>4. \A j \in Inos : New(j)' => New(j)
  BY <1>2 DEF New
<1>5. CASE FailCommit(t) \/ EndCommit(t)
  <2>1. call[t].step \in {"commit", "end"} /\ UNCHANGED <<readers, fresh>>
    BY <1>5 DEF FailCommit, EndCommit, At
  <2>. QED
    BY <1>2, <1>3, <1>4, <2>1, CacheQuiet
<1>6. CASE BumpEpoch(t)
  <2>1. /\ UNCHANGED <<readers, flushing>> /\ \A u \in Threads : ~fresh'[u]
        /\ call'[t].op = "sync" /\ call'[t].ino = i /\ call'[t].step = "evict"
    BY <1>1, <1>6 DEF BumpEpoch, sessions, Step, Goto, Syncs
  <2>2. \A j \in Inos : Committing(j, {"bump", "evict"}) => Committing(j, {"bump", "evict"})'
    BY <1>3, <2>1 DEF Committing, At
  <2>. QED
    BY <1>2, <1>4, <2>1, <2>2, CacheSpared
<1>7. CASE EvictReader(t)
  <2>1. UNCHANGED fresh /\ call[t].step = "evict" /\ readers' = [readers EXCEPT ![i] = None]
    BY <1>7 DEF EvictReader, At
  <2>2. readers'[i] = None /\ \A j \in Inos : j # i => readers'[j] = readers[j]
    BY <1>1, <2>1
  <2>3. \A j \in Inos : (Committing(j, {"bump", "evict"}) => j = i) /\ ~Committing(j, {"bump"})
    BY <1>3, <2>1 DEF Committing, At
  <2>. QED
    BY <1>2, <1>4, <2>1, <2>2, <2>3, CacheSpared
<1>. QED
  BY <1>5, <1>6, <1>7

\* The commit's write: what was cached is now older, by what the session shows.
LEMMA CachePublish ==
    ASSUME BaseInv, WriteInv, CacheInv, NEW t \in Threads, Publish(t), NEW i \in Inos, i = call[t].ino
    PROVE  CacheInv'
<1>. DEFINE f == named[i]
            s == flushing[i]
<1>0. /\ call[t].op = "sync" /\ call[t].step = "commit" /\ Target(t) # None
      /\ UNCHANGED <<tree, by_ino, named, flushing, readers, fresh>>
      /\ Goto(t, [call[t] EXCEPT !.step = "bump"])
      /\ disk' = [disk EXCEPT ![Target(t)] = Committed(s, disk[Target(t)])]
      /\ call \in [Threads -> Calls] /\ disk \in [Files -> Archives]
  BY DEF Publish, At, Step, namespace, sessions, BaseInv, TypeInv, TypeOK
<1>1. /\ call[t] \in Syncs /\ s \in Sessions /\ s # None
      /\ Mapped(i) /\ tree[by_ino[i]] = f /\ ~Landed(i) /\ NsFree
      /\ \A u \in Threads : call[u].op = "sync" => u = t
  BY <1>0, CommitFacts
<1>2. Target(t) = f /\ f \in Files /\ Alive(i)
  <2>1. Target(t) = f /\ f # None /\ by_ino[i] \in Paths
    BY <1>0, <1>1 DEF Target, BaseInv, TypeInv, TypeOK, Mapped
  <2>2. f \in Files
    BY <2>1 DEF BaseInv, TypeInv, TypeOK
  <2>. QED
    BY <2>1, <2>2, <1>1 DEF Alive, Exists, PathsOf
<1>3. /\ disk'[f] = Committed(s, disk[f]) /\ \A g \in Files : g # f => disk'[g] = disk[g]
      /\ \A u \in Threads \ {t} : call'[u] = call[u]
      /\ call'[t].op = "sync" /\ call'[t].ino = i /\ call'[t].step = "bump"
  BY <1>0, <1>1, <1>2 DEF Goto, Syncs
<1>4. SessionOver(s, Len(disk[f].blocks)) /\ disk[f] \in Archives
  BY <1>0, <1>1, <1>2 DEF WriteInv, SessionInv
<1>5. \A k \in Idx : Shows(s, k) = None => Block(disk'[f].blocks, k) = Block(disk[f].blocks, k)
  BY <1>1, <1>3, <1>4, CommittedBlock
<1>6. \A r : r = disk[f] => Older(i, r)'
  BY <1>0, <1>1, <1>3, <1>5 DEF Older
<1>7. Committing(i, {"bump", "evict"})' /\ Committing(i, {"bump"})'
  BY <1>3 DEF Committing, At
<1>8. \A j \in Inos : ~Committing(j, {"bump", "evict"}) /\ ~Committing(j, {"bump"})
  BY <1>0, <1>1 DEF Committing, At
<1>9. \A j \in Inos : (Alive(j)' <=> Alive(j)) /\ (New(j)' <=> New(j))
  BY <1>0 DEF Alive, Exists, PathsOf, New
<1>10. \A u \in Threads, j \in Inos : Filling(u, j)' => Filling(u, j) /\ call'[u] = call[u]
  BY <1>3 DEF Filling, Reading
<1>11. ASSUME NEW j \in Inos, Alive(j)
       PROVE  /\ readers[j] \in {None, disk[named[j]]}
              /\ \A u \in Threads : Filling(u, j)' /\ fresh[u] => call'[u].reader = disk[named[j]]
  BY <1>8, <1>10, <1>11 DEF CacheInv
<1>12. \A j \in Inos : j # i /\ Alive(j) => disk'[named[j]] = disk[named[j]]
  BY <1>1, <1>2, <1>3, AliveFile, NotNone DEF WriteInv, NameInv, New
<1>13. \A j \in Inos : New(j)' => readers[j] = None
  BY <1>9 DEF CacheInv
<1>14. ASSUME NEW j \in Inos, Alive(j)
       PROVE  /\ readers[j] \in {None, disk'[named[j]]} \/ (Committing(j, {"bump", "evict"})' /\ Older(j, readers[j])')
              /\ \A u \in Threads : Filling(u, j)' /\ fresh[u] =>
                   call'[u].reader = disk'[named[j]] \/ (Committing(j, {"bump"})' /\ Older(j, call[u].reader)')
  <2>1. CASE j = i
    <3>1. readers[i] = disk[f] => Older(i, readers[i])'
      BY <1>0, <1>6 DEF Older
    <3>2. \A u \in Threads : call'[u].reader = disk[f] => Older(i, call[u].reader)'
      BY <1>6 DEF Older
    <3>. QED
      BY <1>2, <1>7, <1>11, <2>1, <3>1, <3>2
  <2>2. CASE j # i
    BY <1>11, <1>12, <1>14, <2>2
  <2>. QED
    BY <2>1, <2>2
<1>. QED
  BY <1>0, <1>9, <1>13, <1>14 DEF CacheInv

LEMMA CacheNames ==
    ASSUME BaseInv, WriteInv, WriteInv', CacheInv, FilesKept, Spared, UNCHANGED workload,
           \/ \E i \in Inos : Released(i)
           \/ \E p \in Paths, i \in Inos : Lookup(p, i) \/ \E f \in Files : Create(p, f, i)
           \/ \E p \in Paths : Unlink(p)
           \/ Crash
    PROVE  CacheInv'
<1>0. /\ readers \in [Inos -> Archives \cup {None}] /\ disk \in [Files -> Archives]
  BY DEF BaseInv, TypeInv, TypeOK
<1>1. ASSUME NEW i \in Inos, Invalidated(i)
      PROVE  \A j \in Inos : readers'[j] \in {readers[j], None} /\ \A t \in Threads : ~fresh'[t]
  BY <1>0, <1>1 DEF Invalidated
<1>2. ASSUME NEW i \in Inos, Released(i) PROVE CacheInv'
  <2>1. UNCHANGED <<disk, named, call, flushing>> /\ Invalidated(i)
    BY <1>2 DEF Released, namespace, sessions
  <2>2. \A j \in Inos : New(j)' => New(j)
    BY <2>1 DEF New
  <2>3. \A j \in Inos : \A s : Committing(j, s) => Committing(j, s)'
    BY <2>1 DEF Committing, At
  <2>. QED
    BY <1>1, <2>1, <2>2, <2>3, CacheSpared
<1>3. ASSUME NEW p \in Paths, NEW i \in Inos, Lookup(p, i) \/ \E f \in Files : Create(p, f, i) PROVE CacheInv'
  <2>1. PICK f \in Files : Enters(p, i, f)
    BY <1>3, EntersFile
  <2>2. UNCHANGED <<readers, fresh, call, flushing>>
    BY <1>3 DEF Lookup, Create, sessions
  <2>3. \A j \in Inos : New(j)' => New(j)
    BY <2>1, NotNone DEF Enters, New, BaseInv, TypeInv, TypeOK
  <2>4. \A j \in Inos : Alive(j) => disk'[named[j]] = disk[named[j]]
    BY <2>1, AliveFile DEF Enters
  <2>5. \A j \in Inos : \A s : Committing(j, s) => Committing(j, s)'
    BY <2>2 DEF Committing, At
  <2>. QED
    BY <2>2, <2>3, <2>4, <2>5, CacheSpared
<1>4. ASSUME NEW p \in Paths, Unlink(p) PROVE CacheInv'
  <2>1. committer = None /\ UNCHANGED <<disk, named>>
    BY <1>4 DEF Unlink
  <2>2. \A t \in Threads : call[t].op # "sync"
    BY <2>1, FreeLock
  <2>3. /\ \A j \in Inos : readers'[j] \in {readers[j], None}
        /\ \A t \in Threads : fresh'[t] => fresh[t]
    BY <1>1, <1>4 DEF Unlink, Dropped, InosAt
  <2>4. \A j \in Inos : New(j)' => New(j)
    BY <2>1 DEF New
  <2>. QED
    BY <2>1, <2>2, <2>3, <2>4, CacheQuiet
<1>5. CASE Crash
  <2>1. /\ \A j \in Inos : readers'[j] = None /\ named'[j] = None
        /\ \A t \in Threads : call'[t].op = "idle" /\ ~fresh'[t]
    BY <1>5, OpIdle DEF Crash
  <2>2. \A j \in Inos : ~Alive(j)'
    BY <2>1 DEF Alive, Exists
  <2>. QED
    BY <2>1, <2>2 DEF CacheInv
<1>. QED
  BY <1>2, <1>3, <1>4, <1>5

LEMMA CacheWrite ==
    ASSUME BaseInv, WriteInv, CacheInv, FilesKept, NEW t \in Threads,
           \/ Write(t)
           \/ \E i \in Inos : \/ Swap(t, i) \/ \E k \in Idx, v \in Vals : StartPut(t, i, k, v)
                              \/ \E n \in 0 .. MaxSize : StartCut(t, i, n)
    PROVE  CacheInv'
<1>1. /\ UNCHANGED <<readers, fresh, disk, named>> /\ Spared /\ call \in [Threads -> Calls]
  BY SparedWrite, SparedStart DEF Write, WithSession, FirstChange, Swap, StartPut, StartCut, namespace, BaseInv, TypeInv
<1>2. \A i \in Inos : New(i)' => New(i)
  BY <1>1 DEF New
<1>3. ASSUME NEW i \in Inos, Swap(t, i) PROVE CacheInv'
  <2>1. \A u \in Threads : call[u].op # "sync"
    BY <1>3, FreeLock DEF Swap
  <2>. QED
    BY <1>1, <1>2, <2>1, CacheQuiet
<1>4. ASSUME UNCHANGED flushing, call[t].op # "sync", \A u \in Threads \ {t} : call'[u] = call[u] PROVE CacheInv'
  <2>1. \A i \in Inos : \A s : Committing(i, s) => Committing(i, s)'
    BY <1>4 DEF Committing, At
  <2>. QED
    BY <1>1, <1>2, <1>4, <2>1, CacheSpared
<1>5. CASE Write(t)
  <2>1. call[t].op # "sync" /\ UNCHANGED flushing
    BY <1>5 DEF Write, WithSession, FirstChange
  <2>2. (\E s : Change(t, s)) \/ Return(t) \/ \E p : Goto(t, [call[t] EXCEPT !.step = "first", !.path = p])
    BY <1>5 DEF Write, WithSession, FirstChange
  <2>3. \E c : Goto(t, c)
    BY <2>2 DEF Change, Return
  <2>. QED
    BY <1>1, <1>4, <2>1, <2>3 DEF Goto
<1>6. ASSUME NEW i \in Inos, NEW k \in Idx, NEW v \in Vals, StartPut(t, i, k, v) PROVE CacheInv'
  BY <1>1, <1>4, <1>6, OpIdle DEF StartPut, MayCall, Goto, sessions
<1>7. ASSUME NEW i \in Inos, NEW n \in 0 .. MaxSize, StartCut(t, i, n) PROVE CacheInv'
  BY <1>1, <1>4, <1>7, OpIdle DEF StartCut, MayCall, Goto, sessions
<1>. QED
  BY <1>3, <1>5, <1>6, <1>7

LEMMA CacheStep ==
    ASSUME BaseInv, WriteInv, WriteInv', OpsInv, InPlace, CacheInv, SeenInv, Next PROVE CacheInv'
<1>0. FilesKept /\ UNCHANGED workload /\ NsFree
  BY FilesStay DEF Next, OpsInv, InPlace
<1>1. ASSUME NEW t \in Threads, Get(t) \/ Stat(t) PROVE CacheInv'
  <2>1. CASE Open(t)
    <3>1. PICK i \in Inos : i = call[t].ino
      BY <2>1, FieldTypes DEF Open, Reading, BaseInv
    <3>2. Alive(i) => call[t].path = by_ino[i]
      BY <2>1, <3>1 DEF Open, SeenInv, SeenFor
    <3>. QED
      BY <1>0, <2>1, <3>1, <3>2, CacheOpen
  <2>2. CASE Fill(t)
    <3>1. PICK i \in Inos : i = call[t].ino
      BY <2>2, FieldTypes DEF Fill, Reading, BaseInv
    <3>. QED
      BY <2>2, <3>1, CacheFill
  <2>. QED
    BY <1>0, <1>1, <2>1, <2>2, CacheRead DEF Get
<1>2. ASSUME NEW t \in Threads, NEW i \in Inos, StartRead(t, i) PROVE CacheInv'
  BY <1>0, <1>2, CacheRead
<1>3. ASSUME NEW t \in Threads, Commit(t) PROVE CacheInv'
  <2>1. PICK i \in Inos : i = call[t].ino
    BY <1>3, FieldTypes DEF Commit, Publish, FailCommit, BumpEpoch, EvictReader, EndCommit, At, BaseInv
  <2>. QED
    BY <1>0, <1>3, <2>1, CachePublish, CacheCommit DEF Commit
<1>4. ASSUME NEW t \in Threads, Write(t) PROVE CacheInv'
  BY <1>0, <1>4, CacheWrite
<1>5. ASSUME NEW t \in Threads, NEW i \in Inos,
             \/ Swap(t, i) \/ \E k \in Idx, v \in Vals : StartPut(t, i, k, v)
             \/ \E n \in 0 .. MaxSize : StartCut(t, i, n)
      PROVE  CacheInv'
  BY <1>0, <1>5, CacheWrite
<1>6. ASSUME \/ \E i \in Inos : Released(i)
             \/ \E p \in Paths, i \in Inos : Lookup(p, i) \/ \E f \in Files : Create(p, f, i)
             \/ \E p \in Paths : Unlink(p)
             \/ Crash
      PROVE  CacheInv'
  <2>1. Spared
    BY <1>6, SparedNames
  <2>. QED
    BY <1>0, <1>6, <2>1, CacheNames
<1>7. ASSUME NEW t \in Threads, RenameMap(t) \/ \E p, q \in Paths : RenameFile(t, p, q) PROVE FALSE
  BY <1>0, <1>7 DEF RenameMap, RenameFile, At, InPlace, NsFree
<1>8. ASSUME NEW d \in Dirs, Mkdir(d) \/ Rmdir(d) \/ \E e \in Dirs : RenameDir(d, e) PROVE FALSE
  BY <1>8 DEF Mkdir, Rmdir, RenameDir, InPlace, Moving
<1>. QED
  BY <1>1, <1>2, <1>3, <1>4, <1>5, <1>6, <1>7, <1>8 DEF Next, StartRead

-----------------------------------------------------------------------------
(* The copy of the head                                                     *)

LEMMA ZeroIdx == 0 \in Idx
  BY SizesAreNat

LEMMA HeadApplied ==
    ASSUME NEW c \in Calls, c.op \in {"put", "cut", "sethead"}, NEW s \in Sessions, NEW content \in Contents,
           Known(c, content), Passes(s), s.head \in Vals => Len(content) >= 1 /\ s.head = Block(content, 0)
    PROVE  LET new == Applied(c, s) IN
           /\ Passes(new)
           /\ new.head \in Vals => Len(After(c, content)) >= 1 /\ new.head = Block(After(c, content), 0)
<1>. DEFINE new == Applied(c, s)
<1>0. /\ c.idx \in 0 .. MaxSize /\ c.size \in 0 .. MaxSize /\ Len(content) \in Nat /\ s.keep \in Nat
      /\ c.op \in {"put", "sethead"} => c.value \in Vals
      /\ MaxSize \in Nat /\ 0 \in Idx /\ \A v \in Vals : v \in Nat /\ v # 0
  BY KnownType, ContentFacts, SizesAreNat, SessionFacts, ZeroIdx, NotNone
<1>1. CASE c.op = "put"
  <2>1. /\ new.dirty[0] = (IF 0 = c.idx THEN c.value ELSE s.dirty[0]) /\ new.keep = s.keep
        /\ new.head = IF c.idx = 0 THEN Clear ELSE s.head
    BY <1>0, <1>1, AppliedIs
  <2>2. /\ Len(After(c, content)) = c.size
        /\ Block(After(c, content), 0) = IF 0 = c.idx THEN c.value ELSE Block(content, 0)
    BY <1>1, AfterIs
  <2>3. c.size >= Len(content)
    BY <1>0, <1>1 DEF Known
  <2>. HIDE DEF new
  <2>. QED
    BY <1>0, <2>1, <2>2, <2>3 DEF Passes, new
<1>2. CASE c.op = "cut"
  <2>1. /\ new.dirty[0] = (IF 0 < c.idx THEN s.dirty[0] ELSE None)
        /\ new.keep = (IF c.idx < s.keep THEN c.idx ELSE s.keep)
        /\ new.head = IF c.idx = 0 THEN Clear ELSE s.head
    BY <1>0, <1>2, AppliedIs
  <2>2. /\ Len(After(c, content)) = c.size
        /\ Block(After(c, content), 0) = IF 0 < c.size THEN Block(content, 0) ELSE 0
    BY <1>2, AfterIs
  <2>3. c.idx <= c.size
    BY <1>0, <1>2 DEF Known
  <2>. HIDE DEF new
  <2>. QED
    BY <1>0, <2>1, <2>2, <2>3 DEF Passes, new
<1>3. CASE c.op = "sethead"
  <2>1. new.head = c.value /\ c.value # Keep
    BY <1>0, <1>3, AppliedIs
  <2>2. Len(content) >= 1 /\ Block(content, 0) = c.value /\ After(c, content) = content
    BY <1>3 DEF Known, After
  <2>. QED
    BY <2>1, <2>2 DEF Passes
<1>. QED
  BY <1>1, <1>2, <1>3

LEMMA HeadCommitted ==
    ASSUME NEW s \in Sessions, NEW a \in Archives, SessionOver(s, Len(a.blocks)), HeadOK(a), Passes(s),
           s.head \in Vals => s.size >= 1 /\ s.head = Through(s, a.blocks, 0)
    PROVE  /\ HeadOK(Committed(s, a))
           /\ Through(s, Committed(s, a).blocks, 0) = Through(s, a.blocks, 0)
<1>. DEFINE b == Committed(s, a)
<1>0. /\ s.size \in Nat /\ s.keep \in 0 .. NoKeep /\ Len(a.blocks) \in Nat /\ s # None
      /\ s.head \in {Keep, Clear} \cup Vals /\ \A v \in Vals : v # Keep /\ v # Clear /\ v # None
  BY SessionFacts, ContentFacts, SizesAreNat, NotNone DEF Archives
<1>1. Len(b.blocks) = s.size /\ Block(b.blocks, 0) = Through(s, a.blocks, 0)
  BY CommittedBlock, ZeroIdx DEF Through
<1>2. b.head = CASE s.head = Keep -> (IF s.keep # NoKeep /\ s.size < 1 THEN None ELSE a.head)
                 [] s.head = Clear -> None
                 [] OTHER -> s.head
  BY DEF Committed
<1>. HIDE DEF b
<1>3. HeadOK(b)
  <2>. SUFFICES ASSUME b.head # None PROVE s.size >= 1 /\ b.head = Through(s, a.blocks, 0)
    BY <1>1 DEF HeadOK
  <2>1. CASE s.head = Keep
    <3>1. b.head = a.head /\ ~(s.keep # NoKeep /\ s.size < 1)
      BY <1>2, <2>1
    <3>2. Len(a.blocks) >= 1 /\ a.head = Block(a.blocks, 0)
      BY <3>1 DEF HeadOK
    <3>3. Shows(s, 0) = None
      BY <1>0, <2>1 DEF Passes, Shows
    <3>4. s.size >= 1
      BY <1>0, <3>1, <3>2 DEF SessionOver
    <3>. QED
      BY <3>1, <3>2, <3>3, <3>4 DEF Through
  <2>2. CASE s.head = Clear
    BY <1>0, <1>2, <2>2
  <2>3. CASE s.head \in Vals
    BY <1>0, <1>2, <2>3
  <2>. QED
    BY <1>0, <2>1, <2>2, <2>3
<1>. QED
  BY <1>1, <1>3 DEF Through, b

LEMMA HeadMerged ==
    ASSUME NEW a \in Sessions, NEW s \in Sessions, Passes(a), Passes(s), NEW blocks, NEW content \in Contents,
           a.size = Len(content),
           a.head \in Vals => Len(content) >= 1 /\ a.head = Block(content, 0),
           s.head \in Vals => s.size >= 1 /\ s.head = Through(s, blocks, 0),
           Len(content) >= 1 => Block(content, 0) = IF Shows(a, 0) # None THEN Shows(a, 0) ELSE Through(s, blocks, 0)
    PROVE  LET m == Merged(a, s) IN
           /\ Passes(m)
           /\ m.head \in Vals => Len(content) >= 1 /\ m.head = Block(content, 0)
<1>. DEFINE m == Merged(a, s)
<1>0. /\ a.keep \in 0 .. NoKeep /\ s.keep \in 0 .. NoKeep /\ Len(content) \in Nat /\ a # None
      /\ \A v \in Vals : v # Keep /\ v # Clear /\ NoKeep >= 1 /\ NoKeep \in Nat
      /\ NoKeep >= 1 /\ NoKeep \in Nat
  BY SessionFacts, ContentFacts, SizesAreNat, NotNone
<1>1. /\ m.dirty[0] = (IF a.dirty[0] # None THEN a.dirty[0] ELSE IF 0 < a.keep THEN s.dirty[0] ELSE None)
      /\ m.keep = (IF a.keep # NoKeep THEN a.keep ELSE s.keep)
      /\ m.head = IF a.head # Keep THEN a.head
                  ELSE IF s.head \in Vals /\ a.size < 1 THEN Clear ELSE s.head
  BY MergedIs, ZeroIdx
<1>. HIDE DEF m
<1>2. Passes(m)
  BY <1>0, <1>1 DEF Passes
<1>3. ASSUME m.head \in Vals PROVE Len(content) >= 1 /\ m.head = Block(content, 0)
  <2>1. CASE a.head # Keep
    BY <1>1, <1>3, <2>1
  <2>2. CASE a.head = Keep
    <3>1. m.head = s.head /\ s.head \in Vals /\ ~(a.size < 1)
      BY <1>0, <1>1, <1>3, <2>2
    <3>2. Shows(a, 0) = None
      BY <1>0, <2>2 DEF Passes, Shows
    <3>. QED
      BY <1>0, <3>1, <3>2
  <2>. QED
    BY <2>1, <2>2
<1>. QED
  BY <1>2, <1>3 DEF m

LEMMA SessionFrame ==
    ASSUME BaseInv, WriteInv, SessionHeads, FilesKept,
           \A i \in Inos : active'[i] \in {None, active[i]} /\ flushing'[i] \in {None, flushing[i]},
           \A i \in Inos : Alive(i) => latest'[named[i]] = latest[named[i]] /\ disk'[named[i]] = disk[named[i]]
    PROVE  SessionHeads'
<1>. SUFFICES ASSUME NEW i \in Inos, Alive(i)'
              PROVE  /\ active'[i] # None =>
                          /\ Passes(active'[i])
                          /\ active'[i].head \in Vals => /\ Len(latest'[named'[i]]) >= 1
                                                        /\ active'[i].head = Block(latest'[named'[i]], 0)
                     /\ flushing'[i] # None =>
                          /\ Passes(flushing'[i])
                          /\ flushing'[i].head \in Vals =>
                               /\ flushing'[i].size >= 1
                               /\ flushing'[i].head = Through(flushing'[i], disk'[named'[i]].blocks, 0)
  BY DEF SessionHeads, Passes, Through, Shows
<1>1. CASE New(i)
  BY <1>1 DEF WriteInv, SessionInv
<1>2. CASE ~New(i)
  <2>1. Alive(i) /\ named'[i] = named[i]
    BY <1>2 DEF FilesKept
  <2>. QED
    BY <2>1 DEF SessionHeads
<1>. QED
  BY <1>1, <1>2

LEMMA HeadChange ==
    ASSUME BaseInv, WriteInv, SessionHeads, UNCHANGED <<tree, by_ino, named, disk, flushing>>,
           NEW t \in Threads, NEW i \in Inos, Changes(t, i), NEW s \in Sessions, Change(t, s),
           s = active[i] \/ \E n : s = Session(n)
    PROVE  SessionHeads'
<1>. DEFINE c == call[t]
            f == named[i]
            new == Applied(c, s)
            content == After(c, latest[f])
<1>0. /\ c \in Calls /\ c.op \in {"put", "cut", "sethead"} /\ c.ino = i
      /\ active \in [Inos -> Sessions \cup {None}] /\ latest \in [Files -> Contents]
  BY DEF Changes, BaseInv, TypeInv, TypeOK
<1>1. f \in Files /\ f # None
  <2>1. f # None
    BY Users DEF WriteInv, CallInv, New
  <2>. QED
    BY <2>1 DEF BaseInv, TypeInv, TypeOK
<1>2. active' = [active EXCEPT ![i] = new] /\ latest' = [latest EXCEPT ![f] = content]
  BY <1>0, <1>1 DEF Change, After, Resized
<1>3. /\ \A j \in Inos : j # i => active'[j] = active[j] /\ named[j] # f
      /\ \A g \in Files : g # f => latest'[g] = latest[g]
      /\ latest'[f] = content /\ active'[i] = new
  <2>1. \A j \in Inos : j # i => named[j] # f
    BY <1>1 DEF WriteInv, NameInv
  <2>. HIDE DEF new, content, f
  <2>. QED
    BY <1>0, <1>1, <1>2, <2>1
<1>4. ASSUME Alive(i)
      PROVE  Passes(new) /\ (new.head \in Vals => Len(content) >= 1 /\ new.head = Block(content, 0))
  <2>1. Known(c, latest[f]) /\ latest[f] \in Contents
    BY <1>0, <1>1, <1>4 DEF WriteInv, CallInv
  <2>2. Passes(s) /\ (s.head \in Vals => Len(latest[f]) >= 1 /\ s.head = Block(latest[f], 0))
    <3>1. CASE s = active[i]
      <4>1. s # None
        BY NotNone
      <4>. QED
        BY <1>4, <3>1, <4>1 DEF SessionHeads
    <3>2. ASSUME NEW n, s = Session(n) PROVE Passes(s) /\ s.head \notin Vals
      BY <3>2, SizesAreNat, ZeroIdx, NotNone DEF Session, Passes
    <3>. QED
      BY <3>1, <3>2
  <2>. QED
    BY <1>0, <2>1, <2>2, HeadApplied
<1>5. \A j \in Inos : Alive(j)' <=> Alive(j)
  BY DEF Alive, Exists, PathsOf
<1>. HIDE DEF new, content
<1>6. ASSUME NEW j \in Inos, Alive(j), active'[j] # None
      PROVE  /\ Passes(active'[j])
             /\ active'[j].head \in Vals =>
                  Len(latest'[named[j]]) >= 1 /\ active'[j].head = Block(latest'[named[j]], 0)
  <2>1. CASE j = i
    BY <1>3, <1>4, <1>6, <2>1
  <2>2. CASE j # i
    BY <1>3, <1>6, <2>2, AliveFile DEF SessionHeads
  <2>. QED
    BY <2>1, <2>2
<1>7. \A j \in Inos : Alive(j) /\ flushing'[j] # None =>
        /\ Passes(flushing'[j])
        /\ flushing'[j].head \in Vals =>
             flushing'[j].size >= 1 /\ flushing'[j].head = Through(flushing'[j], disk'[named[j]].blocks, 0)
  BY DEF SessionHeads
<1>8. named' = named
  OBVIOUS
<1>. QED
  BY <1>5, <1>6, <1>7, <1>8 DEF SessionHeads, Passes, Through, Shows

LEMMA HeadWrite ==
    ASSUME BaseInv, WriteInv, HeadInv, FilesKept, NEW t \in Threads, Write(t) PROVE HeadInv'
<1>. DEFINE i == call[t].ino
<1>0. /\ call[t].op \in {"put", "cut", "sethead"} /\ Changes(t, i) /\ i \in Inos
      /\ UNCHANGED <<tree, by_ino, named, disk, flushing, readers>> /\ Spared
      /\ active[i] \in Sessions \cup {None} /\ call[t] \in Puts \cup Cuts
  <2>1. call[t].op \in {"put", "cut", "sethead"} /\ UNCHANGED <<tree, by_ino, named, disk, flushing, readers>>
    BY DEF Write, WithSession, FirstChange, namespace
  <2>2. i \in Inos /\ call[t] \in Puts \cup Cuts
    BY <2>1, FieldTypes DEF BaseInv
  <2>. QED
    BY <2>1, <2>2, SparedWrite DEF Changes, BaseInv, TypeInv, TypeOK
<1>1. SessionHeads'
  <2>1. CASE WithSession(t) /\ active[i] # None /\ Change(t, active[i])
    BY <1>0, <2>1, HeadChange DEF HeadInv
  <2>2. CASE WithSession(t) /\ ~(active[i] # None /\ Change(t, active[i]))
    <3>1. UNCHANGED <<active, latest>>
      BY <2>2 DEF WithSession
    <3>. QED
      BY <1>0, <3>1, SessionFrame DEF HeadInv
  <2>3. CASE FirstChange(t)
    <3>. DEFINE f == tree[call[t].path]
                n == IF flushing[i] # None THEN flushing[i].size ELSE IF f # None THEN Len(disk[f].blocks) ELSE 0
                s == IF active[i] # None THEN active[i] ELSE Session(n)
    <3>1. Change(t, s) /\ call[t].step = "first"
      BY <2>3 DEF FirstChange
    <3>2. n \in 0 .. MaxSize
      <4>1. call[t].path \in Paths
        BY <1>0, <3>1, NotNone DEF BaseInv, TypeInv, StepOK, Puts, Cuts
      <4>2. f # None => f \in Files /\ disk[f].blocks \in Contents
        BY <4>1 DEF BaseInv, TypeInv, TypeOK, Archives
      <4>3. flushing[i] # None => flushing[i].size \in 0 .. MaxSize
        BY <1>0, SessionFacts DEF BaseInv, TypeInv, TypeOK
      <4>. QED
        BY <4>2, <4>3, ContentFacts, SizesAreNat
    <3>3. s \in Sessions /\ (s = active[i] \/ \E m : s = Session(m))
      BY <1>0, <3>2, SessionIs
    <3>. HIDE DEF s
    <3>. QED
      BY <1>0, <3>1, <3>3, HeadChange DEF HeadInv
  <2>. QED
    BY <2>1, <2>2, <2>3 DEF Write
<1>2. DiskHeads' /\ ReaderHeads'
  <2>1. \A u \in Threads, j \in Inos : Filling(u, j)' => Filling(u, j) /\ call'[u].reader = call[u].reader
    BY <1>0 DEF Spared, Filling
  <2>. QED
    BY <1>0, <2>1 DEF HeadInv, DiskHeads, ReaderHeads, HeadOK
<1>. QED
  BY <1>1, <1>2 DEF HeadInv

\* Where sessions and files stay, only the readers matter.
LEMMA HeadQuiet ==
    ASSUME BaseInv, WriteInv, HeadInv, FilesKept, UNCHANGED disk,
           \A i \in Inos : active'[i] \in {None, active[i]} /\ flushing'[i] \in {None, flushing[i]},
           \A i \in Inos : Alive(i) => latest'[named[i]] = latest[named[i]],
           ReaderHeads'
    PROVE  HeadInv'
<1>1. SessionHeads'
  BY SessionFrame DEF HeadInv
<1>. QED
  BY <1>1 DEF HeadInv, DiskHeads, HeadOK

LEMMA SparedHeads ==
    ASSUME ReaderHeads, Spared, \A i \in Inos : readers'[i] \in {None, readers[i]} PROVE ReaderHeads'
<1>1. \A u \in Threads, j \in Inos : Filling(u, j)' => Filling(u, j) /\ call'[u].reader = call[u].reader
  BY DEF Spared, Filling
<1>. QED
  BY <1>1 DEF ReaderHeads, HeadOK

\* A commit.
LEMMA HeadCommit ==
    ASSUME BaseInv, WriteInv, HeadInv, FilesKept, NEW t \in Threads, NEW i \in Inos,
           Swap(t, i) \/ (Commit(t) /\ i = call[t].ino)
    PROVE  HeadInv'
<1>. DEFINE f == named[i]
            s == flushing[i]
<1>0. /\ UNCHANGED <<tree, by_ino, named, latest>> /\ Spared
      /\ call \in [Threads -> Calls] /\ disk \in [Files -> Archives] /\ latest \in [Files -> Contents]
      /\ active \in [Inos -> Sessions \cup {None}] /\ flushing \in [Inos -> Sessions \cup {None}]
      /\ readers \in [Inos -> Archives \cup {None}]
      /\ Alive(i) => f \in Files
  BY AliveFile, SparedCommit, SparedStart DEF Swap, Commit, Publish, FailCommit, BumpEpoch, EvictReader, EndCommit,
     namespace, BaseInv, TypeInv, TypeOK
<1>1. \A j \in Inos : readers'[j] \in {None, readers[j]}
  BY <1>0 DEF Swap, Commit, Publish, FailCommit, BumpEpoch, EvictReader, EndCommit
<1>2. ReaderHeads'
  BY <1>0, <1>1, SparedHeads DEF HeadInv
<1>3. \A j \in Inos : Alive(j)' <=> Alive(j)
  BY <1>0 DEF Alive, Exists, PathsOf
<1>4. ASSUME NEW a, NEW s1, active' = [active EXCEPT ![i] = a], flushing' = [flushing EXCEPT ![i] = s1], UNCHANGED disk,
             Alive(i) =>
               /\ a # None =>
                    Passes(a) /\ (a.head \in Vals => Len(latest[f]) >= 1 /\ a.head = Block(latest[f], 0))
               /\ s1 # None =>
                    /\ Passes(s1)
                    /\ s1.head \in Vals => s1.size >= 1 /\ s1.head = Through(s1, disk[f].blocks, 0)
      PROVE  HeadInv'
  <2>1. /\ active'[i] = a /\ flushing'[i] = s1
        /\ \A j \in Inos : j # i => active'[j] = active[j] /\ flushing'[j] = flushing[j]
    BY <1>0, <1>4
  <2>2. ASSUME NEW j \in Inos, Alive(j)
        PROVE  /\ active'[j] # None =>
                    /\ Passes(active'[j])
                    /\ active'[j].head \in Vals =>
                         Len(latest[named[j]]) >= 1 /\ active'[j].head = Block(latest[named[j]], 0)
               /\ flushing'[j] # None =>
                    /\ Passes(flushing'[j])
                    /\ flushing'[j].head \in Vals =>
                         flushing'[j].size >= 1 /\ flushing'[j].head = Through(flushing'[j], disk[named[j]].blocks, 0)
    <3>1. CASE j = i
      BY <1>4, <2>1, <2>2, <3>1
    <3>2. CASE j # i
      BY <2>1, <2>2, <3>2 DEF HeadInv, SessionHeads
    <3>. QED
      BY <3>1, <3>2
  <2>3. SessionHeads'
    BY <1>0, <1>3, <1>4, <2>2 DEF SessionHeads, Passes, Through, Shows
  <2>. QED
    BY <1>2, <1>4, <2>3 DEF HeadInv, DiskHeads, HeadOK
<1>5. CASE Swap(t, i)
  <2>1. active[i] # None /\ flushing[i] = None
    BY <1>5, FreeLock DEF Swap
  <2>2. Alive(i) =>
          /\ Passes(active[i])
          /\ active[i].head \in Vals =>
               active[i].size >= 1 /\ active[i].head = Through(active[i], disk[f].blocks, 0)
    <3>. SUFFICES ASSUME Alive(i), active[i].head \in Vals
                  PROVE  active[i].size >= 1 /\ active[i].head = Through(active[i], disk[f].blocks, 0)
      BY <2>1 DEF HeadInv, SessionHeads
    <3>1. Len(latest[f]) >= 1 /\ active[i].head = Block(latest[f], 0)
      BY <2>1 DEF HeadInv, SessionHeads
    <3>2. Size(i, f) = active[i].size /\ Size(i, f) = Len(latest[f])
      BY <2>1 DEF Size, WriteInv, DataInv
    <3>5. latest[f] \in Contents /\ Len(latest[f]) \in Nat /\ 0 < Size(i, f)
      BY <1>0, <3>1, <3>2, ContentFacts
    <3>3. Shown(i, f, 0) = Block(latest[f], 0)
      BY <3>5, ZeroIdx DEF WriteInv, DataInv
    <3>4. Shown(i, f, 0) = Through(active[i], disk[f].blocks, 0)
      BY <2>1 DEF Shown, Buffered, Through, Shows
    <3>. QED
      BY <3>1, <3>2, <3>3, <3>4
  <2>3. active' = [active EXCEPT ![i] = None] /\ flushing' = [flushing EXCEPT ![i] = active[i]] /\ UNCHANGED disk
    BY <1>5 DEF Swap
  <2>. QED
    BY <1>4, <2>2, <2>3
<1>6. CASE FailCommit(t) /\ i = call[t].ino
  <2>1. /\ s \in Sessions /\ s # None /\ active[i] \in Sessions \cup {None} /\ ~Landed(i)
    BY <1>6, CommitFacts DEF FailCommit, At
  <2>. DEFINE m == IF active[i] = None THEN s ELSE Merged(active[i], s)
  <2>2. ASSUME Alive(i)
        PROVE  Passes(m) /\ (m.head \in Vals => Len(latest[f]) >= 1 /\ m.head = Block(latest[f], 0))
    <3>1. /\ Passes(s) /\ (s.head \in Vals => s.size >= 1 /\ s.head = Through(s, disk[f].blocks, 0))
          /\ latest[f] \in Contents /\ Len(latest[f]) \in Nat
      BY <1>0, <2>1, <2>2, ContentFacts DEF HeadInv, SessionHeads
    <3>2. Size(i, f) = Len(latest[f]) /\ (Len(latest[f]) >= 1 => Shown(i, f, 0) = Block(latest[f], 0))
      BY <2>2, <3>1, ZeroIdx DEF WriteInv, DataInv
    <3>3. CASE active[i] = None
      <4>1. Size(i, f) = s.size /\ Shown(i, f, 0) = Through(s, disk[f].blocks, 0)
        BY <2>1, <3>3 DEF Size, Shown, Buffered, Through, Shows
      <4>. QED
        BY <3>1, <3>2, <3>3, <4>1
    <3>4. CASE active[i] # None
      <4>. DEFINE a == active[i]
                  c == latest[f]
      <4>1. /\ Size(i, f) = active[i].size /\ active[i] \in Sessions
            /\ Shown(i, f, 0) = IF Shows(active[i], 0) # None THEN Shows(active[i], 0)
                                ELSE Through(s, disk[f].blocks, 0)
        BY <2>1, <3>4 DEF Size, Shown, Buffered, Through
      <4>2. Passes(active[i]) /\ (active[i].head \in Vals =>
                                     Len(latest[f]) >= 1 /\ active[i].head = Block(latest[f], 0))
        BY <2>2, <3>4 DEF HeadInv, SessionHeads
      <4>3. Passes(Merged(active[i], s)) /\ (Merged(active[i], s).head \in Vals =>
                      Len(latest[f]) >= 1 /\ Merged(active[i], s).head = Block(latest[f], 0))
        <5>1. a \in Sessions /\ s \in Sessions /\ Passes(a) /\ Passes(s) /\ c \in Contents /\ a.size = Len(c)
          BY <2>1, <3>1, <3>2, <4>1, <4>2
        <5>2. /\ a.head \in Vals => Len(c) >= 1 /\ a.head = Block(c, 0)
              /\ s.head \in Vals => s.size >= 1 /\ s.head = Through(s, disk[f].blocks, 0)
              /\ Len(c) >= 1 => Block(c, 0) = IF Shows(a, 0) # None THEN Shows(a, 0) ELSE Through(s, disk[f].blocks, 0)
          BY <3>1, <3>2, <4>1, <4>2
        <5>. HIDE DEF a, s, c, f
        <5>3. /\ Passes(Merged(a, s))
              /\ Merged(a, s).head \in Vals => Len(c) >= 1 /\ Merged(a, s).head = Block(c, 0)
          BY <5>1, <5>2, HeadMerged
        <5>. QED
          BY <5>3 DEF a, c
      <4>. QED
        BY <3>4, <4>3
    <3>. QED
      BY <3>3, <3>4
  <2>3. active' = [active EXCEPT ![i] = m] /\ flushing' = [flushing EXCEPT ![i] = None] /\ UNCHANGED disk
    BY <1>6 DEF FailCommit
  <2>. HIDE DEF m
  <2>. QED
    BY <1>4, <2>2, <2>3
<1>7. CASE Publish(t) /\ i = call[t].ino
  <2>0. /\ call[t].op = "sync" /\ call[t].step = "commit" /\ Target(t) # None /\ UNCHANGED <<active, flushing>>
        /\ disk' = [disk EXCEPT ![Target(t)] = Committed(s, disk[Target(t)])]
    BY <1>7 DEF Publish, At, sessions
  <2>1. /\ s \in Sessions /\ s # None /\ Mapped(i) /\ tree[by_ino[i]] = f /\ ~Landed(i)
    BY <1>7, <2>0, CommitFacts
  <2>2. Target(t) = f /\ Alive(i) /\ f \in Files
    <3>1. Target(t) = f /\ f # None /\ by_ino[i] \in Paths
      BY <1>7, <2>0, <2>1 DEF Target, BaseInv, TypeInv, TypeOK, Mapped
    <3>2. Alive(i)
      BY <2>1, <3>1 DEF Alive, Exists, PathsOf
    <3>. QED
      BY <1>0, <3>1, <3>2
  <2>3. disk'[f] = Committed(s, disk[f]) /\ \A g \in Files : g # f => disk'[g] = disk[g]
    BY <1>0, <2>0, <2>2
  <2>4. /\ SessionOver(s, Len(disk[f].blocks)) /\ disk[f] \in Archives /\ HeadOK(disk[f]) /\ Passes(s)
        /\ s.head \in Vals => s.size >= 1 /\ s.head = Through(s, disk[f].blocks, 0)
    BY <1>0, <2>1, <2>2 DEF WriteInv, SessionInv, HeadInv, DiskHeads, SessionHeads
  <2>5. HeadOK(disk'[f]) /\ Through(s, disk'[f].blocks, 0) = Through(s, disk[f].blocks, 0)
    BY <2>1, <2>3, <2>4, HeadCommitted
  <2>6. DiskHeads'
    BY <2>3, <2>5 DEF HeadInv, DiskHeads, HeadOK
  <2>7. \A j \in Inos : j # i => named[j] # f
    BY <2>2, NotNone DEF WriteInv, NameInv
  <2>8. ASSUME NEW j \in Inos, Alive(j), flushing[j] # None
        PROVE  /\ Passes(flushing[j])
               /\ flushing[j].head \in Vals =>
                    flushing[j].size >= 1 /\ flushing[j].head = Through(flushing[j], disk'[named[j]].blocks, 0)
    <3>1. CASE j = i
      BY <2>4, <2>5, <2>8, <3>1
    <3>2. CASE j # i
      <4>1. disk'[named[j]] = disk[named[j]]
        BY <2>3, <2>7, <2>8, <3>2, AliveFile
      <4>. QED
        BY <2>8, <4>1 DEF HeadInv, SessionHeads
    <3>. QED
      BY <3>1, <3>2
  <2>9. SessionHeads'
    BY <1>0, <1>3, <2>0, <2>8 DEF HeadInv, SessionHeads, Passes, Through, Shows
  <2>. QED
    BY <1>2, <2>6, <2>9 DEF HeadInv
<1>8. CASE BumpEpoch(t) \/ EvictReader(t)
  <2>1. UNCHANGED <<disk, active, flushing>>
    BY <1>8 DEF BumpEpoch, EvictReader, sessions
  <2>. QED
    BY <1>0, <1>2, <2>1, HeadQuiet
<1>9. CASE EndCommit(t)
  <2>1. UNCHANGED <<disk, active>> /\ \A j \in Inos : flushing'[j] \in {None, flushing[j]}
    BY <1>0, <1>9 DEF EndCommit
  <2>. QED
    BY <1>0, <1>2, <2>1, HeadQuiet
<1>. QED
  BY <1>5, <1>6, <1>7, <1>8, <1>9 DEF Commit

\* Where a reading thread gets its answer from: a reader, or there is none.
Found(t, r) ==
    LET c == call[t] IN
    \/ c.step = "lookup" /\ r = readers[c.ino] /\ r # None
    \/ c.step = "fill" /\ r # None /\ r = IF readers[c.ino] # None THEN readers[c.ino] ELSE c.reader
    \/ r = None /\ c.step = "resolve" /\ by_ino[c.ino] = None
    \/ r = None /\ c.step = "open" /\ tree[c.path] = None
Gives(c, r, v) ==
    IF c.op = "get" THEN v = (IF r = None THEN 0 ELSE Block(r.blocks, c.idx))
    ELSE r # None /\ r.head # None /\ v = r.head

LEMMA AnswerIs ==
    ASSUME BaseInv, NEW t \in Threads, call[t] \in Readings, NEW r, Answer(t, r), Reading(t)'
    PROVE  \E v : call'[t] = [call[t] EXCEPT !.step = "done", !.value = v] /\ Gives(call[t], r, v)
<1>1. call \in [Threads -> Calls]
  BY DEF BaseInv, TypeInv
<1>2. ~Return(t)
  BY <1>1, OpIdle DEF Return, Goto, Reading
<1>3. CASE call[t].op = "get"
  BY <1>1, <1>3 DEF Answer, Gives, Goto
<1>4. CASE call[t].op # "get"
  BY <1>1, <1>2, <1>4 DEF Answer, Gives, Goto
<1>. QED
  BY <1>3, <1>4

\* What a step of a read leads to.
LEMMA GetGoes ==
    ASSUME BaseInv, NEW t \in Threads, Get(t), Reading(t)'
    PROVE  LET c == call[t]
               d == call'[t]
           IN /\ c \in Readings /\ d.op = c.op /\ d.ino = c.ino /\ d.idx = c.idx
              /\ \/ d.step = "resolve"
                 \/ d.step = "open" /\ d.path = by_ino[c.ino]
                 \/ /\ d.step = "fill" /\ c.step = "open" /\ tree[c.path] \in Files
                    /\ d.reader = disk[tree[c.path]]
                 \/ d.step = "done" /\ \E r : Found(t, r) /\ Gives(c, r, d.value)
<1>. DEFINE c == call[t]
<1>0. ~Return(t) /\ call \in [Threads -> Calls]
  <2>1. call \in [Threads -> Calls]
    BY DEF BaseInv, TypeInv
  <2>. QED
    BY <2>1, OpIdle DEF Return, Goto, Reading
<1>1. c \in Readings /\ c.step \in {"lookup", "resolve", "open", "fill"}
  BY <1>0, ReadingStep DEF Get, LookupReader, Resolve, Open, Fill, Done, BaseInv
<1>2. ASSUME NEW r, Answer(t, r), Found(t, r)
      PROVE  /\ call'[t].op = c.op /\ call'[t].ino = c.ino /\ call'[t].idx = c.idx
             /\ call'[t].step = "done" /\ Gives(c, r, call'[t].value)
  <2>1. PICK v : call'[t] = [c EXCEPT !.step = "done", !.value = v] /\ Gives(c, r, v)
    BY <1>1, <1>2, AnswerIs
  <2>. QED
    BY <1>1, <2>1 DEF Readings
<1>3. CASE LookupReader(t)
  <2>1. CASE readers[c.ino] # None
    <3>1. Answer(t, readers[c.ino]) /\ Found(t, readers[c.ino])
      BY <1>3, <2>1 DEF LookupReader, Found
    <3>. QED
      BY <1>1, <1>2, <3>1
  <2>2. CASE readers[c.ino] = None
    <3>1. call'[t] = [c EXCEPT !.step = "resolve"]
      BY <1>0, <1>3, <2>2, GotoIs DEF LookupReader, Step
    <3>. QED
      BY <1>1, <3>1 DEF Readings
  <2>. QED
    BY <2>1, <2>2
<1>4. CASE Resolve(t)
  <2>1. CASE by_ino[c.ino] = None
    <3>1. Answer(t, None) /\ Found(t, None)
      BY <1>4, <2>1 DEF Resolve, Found
    <3>. QED
      BY <1>1, <1>2, <3>1
  <2>2. CASE by_ino[c.ino] # None
    <3>1. call'[t] = [c EXCEPT !.step = "open", !.path = by_ino[c.ino]]
      BY <1>0, <1>4, <2>2, GotoIs DEF Resolve
    <3>. QED
      BY <1>1, <3>1 DEF Readings
  <2>. QED
    BY <2>1, <2>2
<1>5. CASE Open(t)
  <2>1. CASE tree[c.path] = None
    <3>1. Answer(t, None) /\ Found(t, None)
      BY <1>5, <2>1 DEF Open, Found
    <3>. QED
      BY <1>1, <1>2, <3>1
  <2>2. CASE tree[c.path] # None
    <3>1. c.step = "open" /\ call' = [call EXCEPT ![t] = [c EXCEPT !.step = "fill", !.reader = disk[tree[c.path]]]]
      BY <1>5, <2>2 DEF Open, Goto
    <3>2. c.path # None
      BY <1>1, <3>1 DEF BaseInv, TypeInv, StepOK, Readings
    <3>3. tree[c.path] \in Files
      BY <1>1, <2>2, <3>2 DEF BaseInv, TypeInv, TypeOK, Readings
    <3>. QED
      BY <1>0, <1>1, <3>1, <3>3 DEF Readings
  <2>. QED
    BY <2>1, <2>2
<1>6. CASE Fill(t)
  <2>. DEFINE r == IF readers[c.ino] # None THEN readers[c.ino] ELSE c.reader
  <2>1. Answer(t, r) /\ c.step = "fill"
    BY <1>6 DEF Fill
  <2>2. r # None
    BY <1>1, <2>1 DEF BaseInv, TypeInv, StepOK, Readings
  <2>3. Found(t, r)
    BY <2>1, <2>2 DEF Found
  <2>. HIDE DEF r
  <2>. QED
    BY <1>1, <1>2, <2>1, <2>3
<1>. QED
  BY <1>0, <1>3, <1>4, <1>5, <1>6 DEF Get, Done

LEMMA StatGoes ==
    ASSUME BaseInv, NEW t \in Threads, Stat(t), Reading(t)'
    PROVE  LET c == call[t]
               d == call'[t]
               s == IF active[c.ino] # None THEN active[c.ino] ELSE flushing[c.ino]
           IN /\ c \in Stats /\ d.op = "stat" /\ d.ino = c.ino /\ d.path = c.path
              /\ \/ d.step = "footer" /\ c.step = "sessions" /\ active[c.ino] = None /\ flushing[c.ino] = None
                 \/ d.step = "done" /\ c.step = "sessions" /\ s # None /\ d.value = s.size
                 \/ /\ d.step = "done" /\ c.step = "footer" /\ tree[c.path] \in Files
                    /\ d.value = Len(disk[tree[c.path]].blocks)
<1>. DEFINE c == call[t]
            s == IF active[c.ino] # None THEN active[c.ino] ELSE flushing[c.ino]
<1>0. ~Return(t) /\ call \in [Threads -> Calls] /\ c \in Stats
  <2>1. call \in [Threads -> Calls] /\ c \in Stats
    BY FieldTypes DEF BaseInv, TypeInv, Stat, AttrFromMeta, ReadFooterGeometry, At
  <2>. QED
    BY <2>1, OpIdle DEF Return, Goto, Reading
<1>1. CASE AttrFromMeta(t)
  <2>1. CASE s # None
    <3>1. c.step = "sessions" /\ call' = [call EXCEPT ![t] = [c EXCEPT !.step = "done", !.value = s.size]]
      BY <1>1, <2>1 DEF AttrFromMeta, At, Goto
    <3>. QED
      BY <1>0, <2>1, <3>1 DEF Stats
  <2>2. CASE s = None
    <3>1. c.step = "sessions" /\ call' = [call EXCEPT ![t] = [c EXCEPT !.step = "footer"]]
      BY <1>1, <2>2 DEF AttrFromMeta, At, Goto, Step
    <3>. QED
      BY <1>0, <2>2, <3>1 DEF Stats
  <2>. QED
    BY <2>1, <2>2
<1>2. CASE ReadFooterGeometry(t)
  <2>1. /\ c.step = "footer" /\ tree[c.path] # None
        /\ call' = [call EXCEPT ![t] = [c EXCEPT !.step = "done", !.value = Len(disk[tree[c.path]].blocks)]]
    BY <1>0, <1>2 DEF ReadFooterGeometry, At, Goto
  <2>2. tree[c.path] \in Files
    BY <1>0, <2>1 DEF BaseInv, TypeInv, TypeOK, Stats
  <2>. QED
    BY <1>0, <2>1, <2>2 DEF Stats
<1>. QED
  BY <1>1, <1>2 DEF Stat

LEMMA StartGoes ==
    ASSUME BaseInv, NEW t \in Threads, NEW i \in Inos, StartRead(t, i)
    PROVE  /\ Mapped(i) /\ call[t] = Idle /\ call'[t].ino = i /\ call'[t].step \in {"lookup", "sessions"}
           /\ \A u \in Threads \ {t} : call'[u] = call[u]
           /\ UNCHANGED <<namespace, disk, sessions, readers, fresh, latest>>
           /\ \/ call'[t].op = "get" /\ call'[t].idx < Size(i, named[i]) /\ Buffered(i, call'[t].idx) = None
                 /\ call'[t].idx \in Idx
              \/ call'[t].op = "head" /\ call'[t].idx = 0 /\ active[i] = None /\ flushing[i] = None
              \/ call'[t].op = "stat" /\ call'[t].path = by_ino[i]
<1>. call \in [Threads -> Calls]
  BY DEF BaseInv, TypeInv
<1>1. ASSUME NEW k \in Idx, StartGet(t, i, k) PROVE call'[t].idx = k /\ call'[t].op = "get" /\ call'[t].ino = i
  BY <1>1 DEF StartGet, Goto
<1>2. CASE \E k \in Idx : StartGet(t, i, k)
  BY <1>1, <1>2 DEF StartGet, Goto, MayCall
<1>3. CASE StartHead(t, i)
  BY <1>3 DEF StartHead, Goto, MayCall
<1>4. CASE StartStat(t, i)
  BY <1>4 DEF StartStat, Goto, MayCall
<1>. QED
  BY <1>2, <1>3, <1>4 DEF StartRead

\* A read holds what it opened, until it is done with it.
LEMMA ReadFills ==
    ASSUME BaseInv, NEW t \in Threads, Get(t) \/ Stat(t) \/ \E i \in Inos : StartRead(t, i),
           NEW u \in Threads, NEW j \in Inos, Filling(u, j)'
    PROVE  \/ u # t /\ Filling(u, j) /\ call'[u] = call[u]
           \/ /\ u = t /\ Reading(t) /\ call[t].step = "open" /\ call[t].ino = j /\ call[t] \in Readings
              /\ tree[call[t].path] \in Files /\ call'[t].reader = disk[tree[call[t].path]]
<1>1. CASE u = t
  <2>1. CASE Get(t)
    BY <1>1, <2>1, GetGoes DEF Filling, Readings, Reading
  <2>2. CASE Stat(t)
    BY <1>1, <2>2, StatGoes DEF Filling
  <2>3. CASE \E i \in Inos : StartRead(t, i)
    BY <1>1, <2>3, StartGoes DEF Filling
  <2>. QED
    BY <2>1, <2>2, <2>3
<1>2. CASE u # t
  <2>1. call'[u] = call[u]
    BY <1>2, ReadGoes, StartGoes DEF BaseInv
  <2>. QED
    BY <1>2, <2>1 DEF Filling, Reading
<1>. QED
  BY <1>1, <1>2

LEMMA HeadRead ==
    ASSUME BaseInv, WriteInv, HeadInv, FilesKept, NEW t \in Threads,
           Get(t) \/ Stat(t) \/ \E i \in Inos : StartRead(t, i)
    PROVE  HeadInv'
<1>1. UNCHANGED <<namespace, disk, sessions, latest>>
  BY ReadGoes, StartGoes DEF BaseInv
<1>2. \A u \in Threads, j \in Inos : Filling(u, j)' => HeadOK(call'[u].reader)
  BY ReadFills DEF HeadInv, DiskHeads, ReaderHeads
<1>3. \A j \in Inos : readers'[j] \in {None, readers[j]} \/ HeadOK(readers'[j])
  <2>1. CASE Fill(t)
    <3>1. PICK i \in Inos : i = call[t].ino
      BY <2>1, FieldTypes DEF Fill, Reading, BaseInv
    <3>2. readers'[i] = readers[i] \/ (readers'[i] = call[t].reader /\ Filling(t, i))
      BY <2>1, <3>1 DEF Fill, Filling, BaseInv, TypeInv, TypeOK
    <3>3. \A j \in Inos : j # i => readers'[j] = readers[j]
      BY <2>1, <3>1 DEF Fill, BaseInv, TypeInv, TypeOK
    <3>. QED
      BY <3>2, <3>3 DEF HeadInv, ReaderHeads
  <2>2. CASE ~Fill(t)
    <3>1. UNCHANGED readers
      BY <2>2, StartGoes DEF Get, LookupReader, Resolve, Open, Done, Stat, AttrFromMeta, ReadFooterGeometry
    <3>. QED
      BY <3>1
  <2>. QED
    BY <2>1, <2>2
<1>4. ReaderHeads'
  <2>1. \A j \in Inos : readers'[j] # None => HeadOK(readers'[j])
    BY <1>3 DEF HeadInv, ReaderHeads
  <2>. QED
    BY <1>2, <2>1 DEF ReaderHeads, HeadOK
<1>. QED
  BY <1>1, <1>4, HeadQuiet DEF sessions, namespace

LEMMA HeadNames ==
    ASSUME BaseInv, WriteInv, HeadInv, FilesKept, Spared, UNCHANGED workload,
           \/ \E i \in Inos : Released(i)
           \/ \E p \in Paths, i \in Inos : Lookup(p, i) \/ \E f \in Files : Create(p, f, i)
           \/ \E p \in Paths : Unlink(p)
           \/ Crash
    PROVE  HeadInv'
<1>0. /\ readers \in [Inos -> Archives \cup {None}] /\ disk \in [Files -> Archives]
      /\ active \in [Inos -> Sessions \cup {None}] /\ flushing \in [Inos -> Sessions \cup {None}]
  BY DEF BaseInv, TypeInv, TypeOK
<1>1. ASSUME NEW i \in Inos, Invalidated(i) PROVE \A j \in Inos : readers'[j] \in {readers[j], None}
  BY <1>0, <1>1 DEF Invalidated
<1>2. ASSUME NEW i \in Inos, Released(i) PROVE HeadInv'
  <2>1. ReaderHeads'
    BY <1>1, <1>2, SparedHeads DEF Released, HeadInv
  <2>. QED
    BY <1>2, <2>1, HeadQuiet DEF Released, sessions
<1>3. ASSUME NEW p \in Paths, NEW i \in Inos, Lookup(p, i) \/ \E f \in Files : Create(p, f, i) PROVE HeadInv'
  <2>1. PICK f \in Files : Enters(p, i, f)
    BY <1>3, EntersFile
  <2>2. UNCHANGED <<readers, active, flushing>> /\ (UNCHANGED disk \/ \E g \in Files : disk' = [disk EXCEPT ![g] = Empty])
    BY <1>3 DEF Lookup, Create, sessions
  <2>3. \A j \in Inos : Alive(j) => disk'[named[j]] = disk[named[j]] /\ latest'[named[j]] = latest[named[j]]
    BY <2>1, AliveFile DEF Enters
  <2>4. ReaderHeads'
    BY <2>2, SparedHeads DEF HeadInv
  <2>5. DiskHeads'
    BY <1>0, <2>2 DEF HeadInv, DiskHeads, HeadOK, Empty
  <2>6. SessionHeads'
    BY <2>2, <2>3, SessionFrame DEF HeadInv
  <2>. QED
    BY <2>4, <2>5, <2>6 DEF HeadInv
<1>4. ASSUME NEW p \in Paths, Unlink(p) PROVE HeadInv'
  <2>1. UNCHANGED <<disk, latest>>
    BY <1>4 DEF Unlink
  <2>2. /\ \A j \in Inos : readers'[j] \in {readers[j], None}
        /\ \A j \in Inos : active'[j] \in {None, active[j]} /\ flushing'[j] \in {None, flushing[j]}
    BY <1>0, <1>1, <1>4 DEF Unlink, Dropped, InosAt, sessions
  <2>3. ReaderHeads'
    BY <2>2, SparedHeads DEF HeadInv
  <2>. QED
    BY <2>1, <2>2, <2>3, HeadQuiet
<1>5. CASE Crash
  <2>1. UNCHANGED disk /\ \A j \in Inos : readers'[j] = None /\ named'[j] = None
    BY <1>5 DEF Crash
  <2>2. \A j \in Inos : ~Alive(j)'
    BY <2>1 DEF Alive, Exists
  <2>3. ReaderHeads'
    BY <2>1, SparedHeads DEF HeadInv
  <2>. QED
    BY <2>1, <2>2, <2>3 DEF HeadInv, DiskHeads, SessionHeads, HeadOK
<1>. QED
  BY <1>2, <1>3, <1>4, <1>5

LEMMA HeadStep ==
    ASSUME BaseInv, WriteInv, WriteInv', OpsInv, InPlace, HeadInv, Next PROVE HeadInv'
<1>0. FilesKept /\ UNCHANGED workload /\ NsFree
  BY FilesStay DEF Next, OpsInv, InPlace
<1>1. ASSUME NEW t \in Threads, Get(t) \/ Stat(t) \/ \E i \in Inos : StartRead(t, i) PROVE HeadInv'
  BY <1>0, <1>1, HeadRead
<1>2. ASSUME NEW t \in Threads, Commit(t) PROVE HeadInv'
  <2>1. PICK i \in Inos : i = call[t].ino
    BY <1>2, FieldTypes DEF Commit, Publish, FailCommit, BumpEpoch, EvictReader, EndCommit, At, BaseInv
  <2>. QED
    BY <1>0, <1>2, <2>1, HeadCommit
<1>3. ASSUME NEW t \in Threads, Write(t) PROVE HeadInv'
  BY <1>0, <1>3, HeadWrite
<1>4. ASSUME NEW t \in Threads, NEW i \in Inos, Swap(t, i) PROVE HeadInv'
  BY <1>0, <1>4, HeadCommit
<1>5. ASSUME NEW t \in Threads, NEW i \in Inos,
             (\E k \in Idx, v \in Vals : StartPut(t, i, k, v)) \/ \E n \in 0 .. MaxSize : StartCut(t, i, n)
      PROVE  HeadInv'
  <2>1. UNCHANGED <<disk, active, flushing, latest, readers>>
    BY <1>5 DEF StartPut, StartCut, sessions
  <2>2. ReaderHeads'
    BY <1>5, <2>1, SparedStart, SparedHeads DEF HeadInv
  <2>. QED
    BY <1>0, <2>1, <2>2, HeadQuiet
<1>6. ASSUME \/ \E i \in Inos : Released(i)
             \/ \E p \in Paths, i \in Inos : Lookup(p, i) \/ \E f \in Files : Create(p, f, i)
             \/ \E p \in Paths : Unlink(p)
             \/ Crash
      PROVE  HeadInv'
  <2>1. Spared
    BY <1>6, SparedNames
  <2>. QED
    BY <1>0, <1>6, <2>1, HeadNames
<1>7. ASSUME NEW t \in Threads, RenameMap(t) \/ \E p, q \in Paths : RenameFile(t, p, q) PROVE FALSE
  BY <1>0, <1>7 DEF RenameMap, RenameFile, At, InPlace, NsFree
<1>8. ASSUME NEW d \in Dirs, Mkdir(d) \/ Rmdir(d) \/ \E e \in Dirs : RenameDir(d, e) PROVE FALSE
  BY <1>8 DEF Mkdir, Rmdir, RenameDir, InPlace, Moving
<1>. QED
  BY <1>1, <1>2, <1>3, <1>4, <1>5, <1>6, <1>7, <1>8 DEF Next, StartRead

-----------------------------------------------------------------------------
(* What is read                                                             *)

\* A step, as who reads i sees it: the session in flushing may land in the
\* archive, the active one may follow it; a reader that was opened may be cached,
\* and the archive as it is be opened.
Goes(i) ==
    LET f == named[i] IN
    /\ \/ disk'[f] = disk[f]
       \/ /\ flushing[i] # None /\ SessionOver(flushing[i], Len(disk[f].blocks))
          /\ disk'[f] = Committed(flushing[i], disk[f])
    /\ flushing'[i] \in {None, flushing[i], active[i]}
    /\ \/ readers'[i] \in {None, readers[i]}
       \/ \E u \in Threads : Filling(u, i) /\ fresh[u] /\ readers'[i] = call[u].reader
    /\ \A u \in Threads : Filling(u, i)' =>
         \/ Filling(u, i) /\ call'[u] = call[u] /\ (fresh'[u] => fresh[u])
         \/ call'[u].reader = disk[f]

LEMMA SparedGoes ==
    ASSUME Spared, NEW i \in Inos, disk'[named[i]] = disk[named[i]],
           flushing'[i] \in {None, flushing[i], active[i]}, readers'[i] \in {None, readers[i]},
           \A u \in Threads : fresh'[u] => fresh[u]
    PROVE  Goes(i)
<1>1. \A u \in Threads : Filling(u, i)' => Filling(u, i) /\ call'[u] = call[u]
  BY DEF Filling, Spared
<1>. QED
  BY <1>1 DEF Goes

LEMMA ReadGoesOn ==
    ASSUME BaseInv, WriteInv, NsFree, SeenInv, NEW t \in Threads,
           Get(t) \/ Stat(t) \/ \E j \in Inos : StartRead(t, j), NEW i \in Inos, Alive(i)
    PROVE  Goes(i)
<1>1. UNCHANGED <<disk, flushing>>
  BY ReadGoes, StartGoes DEF BaseInv, sessions
<1>2. \/ readers'[i] = readers[i]
      \/ \E u \in Threads : Filling(u, i) /\ fresh[u] /\ readers'[i] = call[u].reader
  <2>1. CASE Fill(t)
    <3>1. PICK j \in Inos : j = call[t].ino
      BY <2>1, FieldTypes DEF Fill, Reading, BaseInv
    <3>2. CASE j = i /\ fresh[t]
      <4>1. Filling(t, i) /\ (readers'[i] = readers[i] \/ readers'[i] = call[t].reader)
        BY <2>1, <3>1, <3>2 DEF Fill, Filling, BaseInv, TypeInv, TypeOK
      <4>. QED
        BY <3>2, <4>1
    <3>3. CASE ~(j = i /\ fresh[t])
      BY <2>1, <3>1, <3>3 DEF Fill, BaseInv, TypeInv, TypeOK
    <3>. QED
      BY <3>2, <3>3
  <2>2. CASE ~Fill(t)
    BY <2>2, StartGoes DEF Get, LookupReader, Resolve, Open, Done, Stat, AttrFromMeta, ReadFooterGeometry
  <2>. QED
    BY <2>1, <2>2
<1>3. ASSUME NEW u \in Threads, u # t PROVE fresh'[u] = fresh[u]
  <2>1. fresh' = fresh \/ fresh' = [fresh EXCEPT ![t] = TRUE]
    BY StartGoes DEF Get, LookupReader, Resolve, Open, Fill, Done, Stat, AttrFromMeta, ReadFooterGeometry
  <2>. QED
    BY <1>3, <2>1 DEF BaseInv, TypeInv, TypeOK
<1>4. ASSUME NEW u \in Threads, Filling(u, i)'
      PROVE  \/ Filling(u, i) /\ call'[u] = call[u] /\ (fresh'[u] => fresh[u])
             \/ call'[u].reader = disk[named[i]]
  <2>1. CASE u # t
    BY <1>3, <1>4, <2>1, ReadFills
  <2>2. CASE u = t
    <3>1. /\ Reading(t) /\ call[t].step = "open" /\ call[t].ino = i
          /\ call'[t].reader = disk[tree[call[t].path]]
      BY <1>4, <2>2, ReadFills
    <3>2. call[t].path = by_ino[i]
      BY <3>1 DEF SeenInv, SeenFor
    <3>3. tree[by_ino[i]] = named[i]
      BY DEF WriteInv, NameInv
    <3>. QED
      BY <2>2, <3>1, <3>2, <3>3
  <2>. QED
    BY <2>1, <2>2
<1>. QED
  BY <1>1, <1>2, <1>4 DEF Goes

LEMMA CommitGoesOn ==
    ASSUME BaseInv, WriteInv, NEW t \in Threads, NEW j \in Inos, Swap(t, j) \/ (Commit(t) /\ j = call[t].ino),
           NEW i \in Inos, Alive(i)
    PROVE  Goes(i)
<1>0. /\ Spared /\ disk \in [Files -> Archives] /\ fresh \in [Threads -> BOOLEAN]
      /\ active \in [Inos -> Sessions \cup {None}] /\ flushing \in [Inos -> Sessions \cup {None}]
      /\ readers \in [Inos -> Archives \cup {None}] /\ named[i] \in Files
  BY AliveFile, SparedCommit, SparedStart DEF BaseInv, TypeInv, TypeOK
<1>1. /\ flushing'[i] \in {None, flushing[i], active[i]} /\ readers'[i] \in {None, readers[i]}
      /\ \A u \in Threads : fresh'[u] => fresh[u]
  BY <1>0 DEF Swap, Commit, Publish, FailCommit, BumpEpoch, EvictReader, EndCommit, sessions
<1>2. CASE Publish(t) /\ j = call[t].ino
  <2>1. /\ At(t, "sync", "commit") /\ Target(t) # None /\ flushing' = flushing
        /\ disk' = [disk EXCEPT ![Target(t)] = Committed(flushing[j], disk[Target(t)])]
    BY <1>2 DEF Publish, sessions
  <2>2. Mapped(j) /\ tree[by_ino[j]] = named[j] /\ ~Landed(j) /\ flushing[j] # None
    BY <1>2, <2>1, CommitFacts DEF At
  <2>3. Target(t) = named[j] /\ named[j] # None
    BY <1>2, <2>1, <2>2 DEF Target
  <2>4. CASE i = j
    <3>1. disk'[named[i]] = Committed(flushing[i], disk[named[i]])
      BY <1>0, <2>1, <2>3, <2>4
    <3>2. SessionOver(flushing[i], Len(disk[named[i]].blocks))
      BY <2>2, <2>4 DEF WriteInv, SessionInv
    <3>3. \A u \in Threads : Filling(u, i)' => Filling(u, i) /\ call'[u] = call[u]
      BY <1>0 DEF Filling, Spared
    <3>. QED
      BY <1>1, <2>2, <2>4, <3>1, <3>2, <3>3 DEF Goes
  <2>5. CASE i # j
    <3>1. named[i] # named[j]
      BY <2>3, <2>5 DEF WriteInv, NameInv
    <3>2. disk'[named[i]] = disk[named[i]]
      BY <1>0, <2>1, <2>3, <3>1
    <3>. QED
      BY <1>0, <1>1, <3>2, SparedGoes
  <2>. QED
    BY <2>4, <2>5
<1>3. CASE ~Publish(t)
  <2>1. UNCHANGED disk
    BY <1>3 DEF Swap, Commit, FailCommit, BumpEpoch, EvictReader, EndCommit
  <2>. QED
    BY <1>0, <1>1, <2>1, SparedGoes
<1>. QED
  BY <1>2, <1>3, OpIdle DEF Swap, MayCall, Publish, At

LEMMA OtherGoesOn ==
    ASSUME BaseInv, WriteInv, Spared, UNCHANGED workload, NEW i \in Inos, Alive(i), Alive(i)',
           \/ \E t \in Threads : Write(t)
           \/ \E t \in Threads, j \in Inos : \/ \E k \in Idx, v \in Vals : StartPut(t, j, k, v)
                                             \/ \E n \in 0 .. MaxSize : StartCut(t, j, n)
           \/ \E j \in Inos : Released(j)
           \/ \E p \in Paths, j \in Inos : Lookup(p, j) \/ \E f \in Files : Create(p, f, j)
           \/ \E p \in Paths : Unlink(p)
           \/ Crash
    PROVE  Goes(i)
<1>0. /\ readers \in [Inos -> Archives \cup {None}] /\ flushing \in [Inos -> Sessions \cup {None}]
      /\ fresh \in [Threads -> BOOLEAN]
  BY DEF BaseInv, TypeInv, TypeOK
<1>1. ASSUME NEW j \in Inos, Invalidated(j)
      PROVE  readers'[i] \in {None, readers[i]} /\ \A u \in Threads : fresh'[u] => fresh[u]
  BY <1>0, <1>1 DEF Invalidated
<1>2. CASE \E t \in Threads : Write(t)
  <2>1. UNCHANGED <<disk, flushing, readers, fresh>>
    BY <1>2 DEF Write, WithSession, FirstChange
  <2>. QED
    BY <2>1, SparedGoes
<1>3. CASE \E t \in Threads, j \in Inos : \/ \E k \in Idx, v \in Vals : StartPut(t, j, k, v)
                                          \/ \E n \in 0 .. MaxSize : StartCut(t, j, n)
  <2>1. ASSUME NEW t \in Threads, NEW j \in Inos, NEW k \in Idx, NEW v \in Vals, StartPut(t, j, k, v)
        PROVE  UNCHANGED <<disk, flushing, readers, fresh>>
    BY <2>1 DEF StartPut, sessions
  <2>2. ASSUME NEW t \in Threads, NEW j \in Inos, NEW n \in 0 .. MaxSize, StartCut(t, j, n)
        PROVE  UNCHANGED <<disk, flushing, readers, fresh>>
    BY <2>2 DEF StartCut, sessions
  <2>. QED
    BY <1>3, <2>1, <2>2, SparedGoes
<1>4. CASE \E j \in Inos : Released(j)
  BY <1>1, <1>4, SparedGoes DEF Released, sessions
<1>5. ASSUME NEW p \in Paths, NEW j \in Inos, Lookup(p, j) \/ \E f \in Files : Create(p, f, j) PROVE Goes(i)
  <2>1. PICK f \in Files : Enters(p, j, f)
    BY <1>5, EntersFile
  <2>2. UNCHANGED <<readers, fresh, flushing>>
    BY <1>5 DEF Lookup, Create, sessions
  <2>3. disk'[named[i]] = disk[named[i]]
    BY <2>1, AliveFile DEF Enters
  <2>. QED
    BY <2>2, <2>3, SparedGoes
<1>6. ASSUME NEW p \in Paths, Unlink(p) PROVE Goes(i)
  <2>1. flushing'[i] \in {None, flushing[i]} /\ disk' = disk
    BY <1>0, <1>6 DEF Unlink, Dropped, InosAt, sessions
  <2>2. readers'[i] \in {readers[i], None} /\ \A u \in Threads : fresh'[u] => fresh[u]
    BY <1>1, <1>6 DEF Unlink, Dropped, InosAt
  <2>. QED
    BY <2>1, <2>2, SparedGoes
<1>7. CASE Crash
  BY <1>7 DEF Crash, Alive, Exists
<1>. QED
  BY <1>2, <1>3, <1>4, <1>5, <1>6, <1>7

LEMMA GoesOn ==
    ASSUME BaseInv, WriteInv, OpsInv, InPlace, SeenInv, Next, NEW i \in Inos, Alive(i), Alive(i)'
    PROVE  Goes(i)
<1>0. UNCHANGED workload /\ NsFree
  BY DEF Next, OpsInv, InPlace
<1>1. ASSUME NEW t \in Threads, Get(t) \/ Stat(t) \/ \E j \in Inos : StartRead(t, j) PROVE Goes(i)
  BY <1>0, <1>1, ReadGoesOn
<1>2. ASSUME NEW t \in Threads, Commit(t) PROVE Goes(i)
  <2>1. PICK j \in Inos : j = call[t].ino
    BY <1>2, FieldTypes DEF Commit, Publish, FailCommit, BumpEpoch, EvictReader, EndCommit, At, BaseInv
  <2>. QED
    BY <1>2, <2>1, CommitGoesOn
<1>3. ASSUME NEW t \in Threads, NEW j \in Inos, Swap(t, j) PROVE Goes(i)
  BY <1>3, CommitGoesOn
<1>4. ASSUME NEW t \in Threads, Write(t) PROVE Goes(i)
  BY <1>0, <1>4, SparedWrite, OtherGoesOn
<1>5. ASSUME NEW t \in Threads, NEW j \in Inos,
             (\E k \in Idx, v \in Vals : StartPut(t, j, k, v)) \/ \E n \in 0 .. MaxSize : StartCut(t, j, n)
      PROVE  Goes(i)
  BY <1>0, <1>5, SparedStart, OtherGoesOn
<1>6. ASSUME \/ \E j \in Inos : Released(j)
             \/ \E p \in Paths, j \in Inos : Lookup(p, j) \/ \E f \in Files : Create(p, f, j)
             \/ \E p \in Paths : Unlink(p)
             \/ Crash
      PROVE  Goes(i)
  <2>1. Spared
    BY <1>6, SparedNames
  <2>. QED
    BY <1>0, <1>6, <2>1, OtherGoesOn
<1>7. ASSUME NEW t \in Threads, RenameMap(t) \/ \E p, q \in Paths : RenameFile(t, p, q) PROVE FALSE
  BY <1>0, <1>7 DEF RenameMap, RenameFile, At, InPlace, NsFree
<1>8. ASSUME NEW d \in Dirs, Mkdir(d) \/ Rmdir(d) \/ \E e \in Dirs : RenameDir(d, e) PROVE FALSE
  BY <1>8 DEF Mkdir, Rmdir, RenameDir, InPlace, Moving
<1>. QED
  BY <1>1, <1>2, <1>3, <1>4, <1>5, <1>6, <1>7, <1>8 DEF Next, StartRead

\* What a read may come to is among what it has seen, after any step.
LEMMA OffersKept ==
    ASSUME BaseInv, WriteInv, NEW t \in Threads, NEW i \in Inos, NEW k \in Idx, Alive(i), Goes(i),
           named'[i] = named[i], seen[t] \subseteq seen'[t],
           Block(latest[named[i]], k) \in seen'[t], Block(latest'[named[i]], k) \in seen'[t], Offers(t, i, k)
    PROVE  Offers(t, i, k)'
<1>. DEFINE f == named[i]
<1>0. f \in Files /\ disk[f] \in Archives /\ flushing[i] \in Sessions \cup {None}
  BY AliveFile DEF BaseInv, TypeInv, TypeOK
<1>1. Block(disk'[f].blocks, k) \in seen'[t]
  <2>1. CASE disk'[f] = disk[f]
    BY <2>1 DEF Offers
  <2>2. CASE /\ flushing[i] # None /\ SessionOver(flushing[i], Len(disk[f].blocks))
             /\ disk'[f] = Committed(flushing[i], disk[f])
    <3>1. Block(disk'[f].blocks, k) \in {Block(disk[f].blocks, k)} \cup ({Shows(flushing[i], k)} \ {None})
      BY <1>0, <2>2, CommittedBlock
    <3>. QED
      BY <3>1 DEF Offers
  <2>. QED
    BY <2>1, <2>2 DEF Goes
<1>2. Shows(flushing'[i], k) \in seen'[t] \cup {None}
  <2>1. CASE flushing'[i] = None
    BY <2>1 DEF Shows
  <2>2. CASE flushing'[i] = flushing[i]
    BY <2>2 DEF Offers
  <2>3. CASE flushing'[i] = active[i]
    BY <2>3, ActiveShows
  <2>. QED
    BY <2>1, <2>2, <2>3 DEF Goes
<1>3. readers'[i] # None => Block(readers'[i].blocks, k) \in seen'[t]
  BY DEF Goes, Offers
<1>4. ASSUME NEW u \in Threads, Filling(u, i)', fresh'[u] \/ u = t
      PROVE  Block(call'[u].reader.blocks, k) \in seen'[t]
  BY <1>4 DEF Goes, Offers
<1>5. Shows(flushing[i], k)' = Shows(flushing'[i], k)
  BY DEF Shows
<1>. QED
  BY <1>1, <1>2, <1>3, <1>4, <1>5 DEF Offers, Block, Shows

LEMMA SizeKept ==
    ASSUME BaseInv, WriteInv, NEW t \in Threads, NEW i \in Inos, Alive(i), Goes(i),
           named'[i] = named[i], seen[t] \subseteq seen'[t], call'[t].step = "footer" => call[t].step = "footer",
           Len(latest[named[i]]) \in seen'[t], Len(latest'[named[i]]) \in seen'[t], OffersSize(t, i)
    PROVE  OffersSize(t, i)'
<1>. DEFINE f == named[i]
<1>0. f \in Files /\ disk[f] \in Archives /\ flushing[i] \in Sessions \cup {None}
  BY AliveFile DEF BaseInv, TypeInv, TypeOK
<1>1. ASSUME call'[t].step = "footer" PROVE Len(disk'[f].blocks) \in seen'[t]
  <2>1. CASE disk'[f] = disk[f]
    BY <1>1, <2>1 DEF OffersSize
  <2>2. CASE /\ flushing[i] # None /\ SessionOver(flushing[i], Len(disk[f].blocks))
             /\ disk'[f] = Committed(flushing[i], disk[f])
    <3>1. Len(disk'[f].blocks) = flushing[i].size
      BY <1>0, <2>2, CommittedBlock, ZeroIdx
    <3>. QED
      BY <1>1, <2>2, <3>1 DEF OffersSize
  <2>. QED
    BY <2>1, <2>2 DEF Goes
<1>2. ASSUME call'[t].step = "footer", flushing'[i] # None PROVE flushing'[i].size \in seen'[t]
  <2>1. CASE flushing'[i] = flushing[i]
    BY <1>2, <2>1 DEF OffersSize
  <2>2. CASE flushing'[i] = active[i]
    <3>1. active[i].size = Len(latest[f])
      BY <1>2, <2>2 DEF Size, WriteInv, DataInv
    <3>. QED
      BY <2>2, <3>1
  <2>. QED
    BY <1>2, <2>1, <2>2 DEF Goes
<1>. QED
  BY <1>1, <1>2 DEF OffersSize

\* A read finds what it has seen.
LEMMA FoundSeen ==
    ASSUME BaseInv, WriteInv, NsFree, HeadInv, NEW t \in Threads, NEW i \in Inos, Alive(i), Reading(t),
           call[t] \in Readings, call[t].ino = i, SeenFor(t, i), NEW r, Found(t, r), NEW v, Gives(call[t], r, v)
    PROVE  v \in seen[t]
<1>1. call[t].op \in {"get", "head"} /\ Offers(t, i, call[t].idx) /\ (call[t].op = "head" => call[t].idx = 0)
  BY DEF SeenFor, Readings
<1>2. r # None
  <2>1. by_ino[i] # None /\ tree[by_ino[i]] = named[i] /\ named[i] # None
    BY DEF WriteInv, NameInv, Mapped, Alive, Exists
  <2>2. call[t].step = "open" => call[t].path = by_ino[i]
    BY DEF SeenFor
  <2>. QED
    BY <2>1, <2>2 DEF Found
<1>3. Block(r.blocks, call[t].idx) \in seen[t] /\ HeadOK(r)
  <2>1. CASE r = readers[i]
    BY <1>1, <1>2, <2>1 DEF Offers, HeadInv, ReaderHeads
  <2>2. CASE call[t].step = "fill" /\ r = call[t].reader
    <3>1. Filling(t, i)
      BY <2>2 DEF Filling
    <3>. QED
      BY <1>1, <2>2, <3>1 DEF Offers, HeadInv, ReaderHeads
  <2>. QED
    BY <1>2, <2>1, <2>2 DEF Found
<1>. QED
  BY <1>1, <1>2, <1>3 DEF Gives, HeadOK

\* A read begins with what its block, or the size, is now.
LEMMA StartSeen ==
    ASSUME BaseInv, WriteInv, CacheInv, Next, NEW t \in Threads, NEW i \in Inos, StartRead(t, i), Alive(i)
    PROVE  SeenFor(t, i)'
<1>. DEFINE f == named[i]
<1>k. PICK k : k = call'[t].idx
  OBVIOUS
<1>0. /\ f \in Files /\ UNCHANGED <<tree, by_ino, named, disk, active, flushing, readers, fresh, latest>>
      /\ call'[t].step \in {"lookup", "sessions"} /\ call'[t].ino = i
      /\ \A u \in Threads \ {t} : call'[u] = call[u]
  BY AliveFile, StartGoes DEF namespace, sessions
<1>1. ASSUME call'[t].op \in {"get", "head"}, k \in Idx, Block(disk[f].blocks, k) = Block(latest[f], k),
             Shows(flushing[i], k) = None, flushing[i] # None => k < flushing[i].size
      PROVE  SeenFor(t, i)' \/ (call'[t].op = "head" /\ k # 0)
  <2>1. Block(latest[f], k) \in seen'[t]
    BY <1>k, <1>0, <1>1, SeenGrows DEF Reading
  <2>2. \A r : Older(i, r) => Block(r.blocks, k) = Block(disk[f].blocks, k)
    BY <1>1 DEF Older
  <2>3. readers[i] # None => Block(readers[i].blocks, k) \in seen'[t]
    BY <1>1, <2>1, <2>2 DEF CacheInv
  <2>4. ASSUME NEW u \in Threads, Filling(u, i)', fresh'[u] \/ u = t
        PROVE  Block(call'[u].reader.blocks, k) \in seen'[t]
    <3>1. u # t /\ fresh[u] /\ Filling(u, i) /\ call'[u] = call[u]
      BY <1>0, <2>4 DEF Filling, Reading
    <3>. QED
      BY <1>1, <2>1, <2>2, <3>1 DEF CacheInv
  <2>5. Shows(flushing[i], k)' = None
    BY <1>0, <1>1 DEF Shows
  <2>6. Offers(t, i, k)'
    BY <1>0, <1>1, <2>1, <2>3, <2>4, <2>5 DEF Offers, Block
  <2>7. Offers(t, i, call[t].idx)'
    BY <1>k, <2>6 DEF Offers, Block, Shows
  <2>. QED
    BY <1>k, <1>0, <1>1, <2>7 DEF SeenFor
<1>2. CASE call'[t].op = "get"
  <2>1. k \in Idx /\ k < Size(i, f) /\ Buffered(i, k) = None
    BY <1>k, <1>2, StartGoes
  <2>. QED
    BY <1>1, <1>2, <2>1, DiskShows
<1>3. CASE call'[t].op = "head"
  <2>1. k = 0 /\ active[i] = None /\ flushing[i] = None /\ 0 \in Idx
    BY <1>k, <1>3, StartGoes, ZeroIdx
  <2>2. Buffered(i, 0) = None /\ Shows(flushing[i], 0) = None /\ Size(i, f) = Len(disk[f].blocks)
    BY <2>1 DEF Buffered, Shows, Size
  <2>3. Block(disk[f].blocks, 0) = Block(latest[f], 0)
    <3>1. Size(i, f) = Len(latest[f])
      BY DEF WriteInv, DataInv
    <3>2. CASE 0 < Size(i, f)
      BY <2>1, <2>2, <3>2 DEF WriteInv, DataInv, Shown
    <3>3. CASE ~(0 < Size(i, f))
      BY <2>2, <3>1, <3>3 DEF Block
    <3>. QED
      BY <3>2, <3>3
  <2>. QED
    BY <1>1, <1>3, <2>1, <2>2, <2>3
<1>4. CASE call'[t].op = "stat"
  <2>1. Len(latest[f]) \in seen'[t] /\ call'[t].path = by_ino[i]
    BY <1>4, StartGoes, SeenGrows DEF Reading
  <2>. QED
    BY <1>0, <1>4, <2>1 DEF SeenFor, OffersSize
<1>. QED
  BY <1>2, <1>3, <1>4, StartGoes

LEMMA GetSeen ==
    ASSUME BaseInv, WriteInv, NsFree, HeadInv, Next, NEW t \in Threads, NEW i \in Inos, Get(t), Reading(t)',
           call[t].ino = i, Alive(i), Goes(i), SeenFor(t, i)
    PROVE  SeenFor(t, i)'
<1>k. PICK k : k = call[t].idx
  OBVIOUS
<1>0. /\ call[t] \in Readings /\ call'[t].op = call[t].op /\ call'[t].ino = i /\ call'[t].idx = k
      /\ k \in Idx /\ Reading(t) /\ UNCHANGED <<named, by_ino>>
  BY <1>k, GetGoes, ReadGoes DEF Readings, Reading, BaseInv, namespace
<1>1. /\ seen[t] \subseteq seen'[t] /\ Block(latest[named[i]], k) \in seen'[t]
      /\ Block(latest'[named[i]], k) \in seen'[t]
  BY <1>0, SeenGrows DEF Readings
<1>2. Offers(t, i, k) /\ (call[t].op = "head" => k = 0)
  BY <1>k, <1>0 DEF SeenFor, Readings
<1>3. Offers(t, i, k)'
  BY <1>0, <1>1, <1>2, OffersKept
<1>4. Offers(t, i, call[t].idx)'
  BY <1>k, <1>0, <1>3 DEF Offers, Block, Shows
<1>5. call'[t].step = "open" => call'[t].path = by_ino[i]
  BY <1>0, GetGoes
<1>6. call'[t].step = "done" => call'[t].value \in seen[t]
  BY <1>0, GetGoes, FoundSeen
<1>. QED
  BY <1>k, <1>0, <1>1, <1>2, <1>4, <1>5, <1>6 DEF SeenFor, Readings

LEMMA StatSeen ==
    ASSUME BaseInv, WriteInv, NsFree, Next, NEW t \in Threads, NEW i \in Inos, Stat(t), Reading(t)',
           call[t].ino = i, Alive(i), Goes(i), SeenFor(t, i)
    PROVE  SeenFor(t, i)'
<1>. DEFINE f == named[i]
<1>0. /\ call[t] \in Stats /\ call[t].op = "stat" /\ call'[t].op = "stat" /\ call'[t].ino = i
      /\ call'[t].path = call[t].path
      /\ UNCHANGED <<tree, named, by_ino, disk, active, flushing, latest>>
  BY StatGoes, ReadGoes DEF Stats, BaseInv, namespace, sessions
<1>1. seen[t] \subseteq seen'[t] /\ Len(latest[f]) \in seen'[t] /\ call[t].path = by_ino[i]
  BY <1>0, SeenGrows DEF SeenFor
<1>2. Size(i, f) = Len(latest[f]) /\ tree[by_ino[i]] = f
  BY DEF WriteInv, DataInv, NameInv
<1>3. CASE call'[t].step = "footer"
  <2>1. active[i] = None /\ flushing[i] = None
    BY <1>3, StatGoes
  <2>2. Len(disk[f].blocks) = Len(latest[f])
    BY <1>2, <2>1 DEF Size
  <2>3. OffersSize(t, i)'
    BY <1>0, <1>1, <2>1, <2>2 DEF OffersSize
  <2>. QED
    BY <1>0, <1>1, <1>3, <2>3 DEF SeenFor
<1>4. CASE call'[t].step = "done"
  <2>1. call'[t].value \in seen'[t]
    <3>1. CASE call[t].step = "sessions"
      BY <1>0, <1>1, <1>2, <1>4, <3>1, StatGoes DEF Size
    <3>2. CASE call[t].step = "footer"
      <4>1. call'[t].value = Len(disk[f].blocks)
        BY <1>0, <1>1, <1>2, <1>4, <3>2, StatGoes
      <4>2. Len(disk[f].blocks) \in seen[t]
        BY <1>0, <3>2 DEF SeenFor, OffersSize
      <4>. QED
        BY <1>1, <4>1, <4>2
    <3>. QED
      BY <1>4, <3>1, <3>2, StatGoes
  <2>2. OffersSize(t, i)'
    BY <1>0, <1>1, <1>4 DEF OffersSize
  <2>. QED
    BY <1>0, <1>1, <1>4, <2>1, <2>2 DEF SeenFor
<1>. QED
  BY <1>3, <1>4, StatGoes

LEMMA SeenStep ==
    ASSUME BaseInv, WriteInv, WriteInv', OpsInv, InPlace, CacheInv, HeadInv, SeenInv, Next PROVE SeenInv'
<1>0. FilesKept /\ NsFree
  BY FilesStay DEF OpsInv, InPlace
<1>. SUFFICES ASSUME NEW t \in Threads, NEW i \in Inos, Reading(t)', call'[t].ino = i, Alive(i)'
              PROVE  SeenFor(t, i)'
  BY DEF SeenInv
<1>1. ASSUME Reading(t), call[t].ino = i
      PROVE  Alive(i) /\ named'[i] = named[i] /\ by_ino'[i] = by_ino[i] /\ SeenFor(t, i) /\ Goes(i)
  <2>1. ~New(i)
    BY <1>1 DEF WriteInv, CallInv, Uses
  <2>2. Alive(i) /\ named'[i] = named[i] /\ by_ino'[i] = by_ino[i]
    BY <1>0, <2>1 DEF FilesKept
  <2>. QED
    BY <1>1, <2>2, GoesOn DEF SeenInv
<1>2. CASE Reading(t) /\ call'[t] = call[t]
  <2>1. PICK k : k = call[t].idx
    OBVIOUS
  <2>2. Alive(i) /\ named'[i] = named[i] /\ by_ino'[i] = by_ino[i] /\ SeenFor(t, i) /\ Goes(i) /\ call[t].ino = i
    BY <1>1, <1>2
  <2>3. seen[t] \subseteq seen'[t]
    BY SeenGrows
  <2>4. CASE call[t].op = "stat"
    <3>1. Len(latest[named[i]]) \in seen'[t] /\ Len(latest'[named[i]]) \in seen'[t]
      BY <1>2, <2>2, <2>4, SeenGrows
    <3>2. OffersSize(t, i)'
      BY <1>2, <2>2, <2>3, <2>4, <3>1, SizeKept DEF SeenFor
    <3>. QED
      BY <1>2, <2>2, <2>3, <2>4, <3>2 DEF SeenFor
  <2>5. CASE call[t].op # "stat"
    <3>1. k \in Idx
      BY <1>2, <2>1, <2>5, FieldTypes DEF Reading, Readings, BaseInv
    <3>2. Block(latest[named[i]], k) \in seen'[t] /\ Block(latest'[named[i]], k) \in seen'[t]
      BY <1>2, <2>1, <2>2, <2>5, SeenGrows
    <3>3. Offers(t, i, k)
      BY <2>1, <2>2, <2>5 DEF SeenFor
    <3>4. Offers(t, i, k)'
      BY <2>2, <2>3, <3>1, <3>2, <3>3, OffersKept
    <3>5. Offers(t, i, call[t].idx)'
      BY <1>2, <2>1, <3>4 DEF Offers, Block, Shows
    <3>. QED
      BY <1>2, <2>2, <2>3, <2>5, <3>5 DEF SeenFor
  <2>. QED
    BY <2>4, <2>5
<1>3. CASE Spared
  BY <1>2, <1>3 DEF Spared
<1>4. ASSUME NEW u \in Threads, Get(u) \/ Stat(u) PROVE SeenFor(t, i)'
  <2>1. CASE u = t
    <3>1. Reading(t) /\ call[t].ino = i
      BY <1>4, <2>1, ReadGoes, OpIdle DEF BaseInv, Reading
    <3>2. CASE Get(t)
      BY <1>0, <1>1, <3>1, <3>2, GetSeen
    <3>3. CASE Stat(t)
      BY <1>0, <1>1, <3>1, <3>3, StatSeen
    <3>. QED
      BY <1>4, <2>1, <3>2, <3>3
  <2>2. CASE u # t
    BY <1>2, <1>4, <2>2, ReadGoes DEF BaseInv, Reading
  <2>. QED
    BY <2>1, <2>2
<1>5. ASSUME NEW u \in Threads, NEW j \in Inos, StartRead(u, j) PROVE SeenFor(t, i)'
  <2>1. CASE u = t
    <3>1. j = i /\ UNCHANGED <<tree, named>>
      BY <1>5, <2>1, StartGoes DEF namespace
    <3>2. Alive(i)
      BY <3>1 DEF Alive, Exists, PathsOf
    <3>. QED
      BY <1>5, <2>1, <3>1, <3>2, StartSeen
  <2>2. CASE u # t
    BY <1>2, <1>5, <2>2, StartGoes DEF Reading
  <2>. QED
    BY <2>1, <2>2
<1>. QED
  BY <1>3, <1>4, <1>5, NextReads

ReadInv == OpsInv /\ (Reads => CacheInv /\ HeadInv /\ SeenInv)

LEMMA NextReadInv ==
    ASSUME Orderly(Workloads), ReadInPlace(Workloads)
    PROVE  BaseInv /\ ViewInv /\ ViewInv' /\ ReadInv /\ [Next]_vars => ReadInv'
<1>. SUFFICES ASSUME BaseInv, ViewInv, ViewInv', ReadInv, [Next]_vars PROVE ReadInv'
  OBVIOUS
<1>1. OpsInv'
  BY NextOps DEF ReadInv
<1>2. CASE UNCHANGED vars
  <2>1. CacheInv => CacheInv'
    BY <1>2 DEF CacheInv, vars, New, Alive, Exists, PathsOf, Committing, At, Older, Shows, Block, Filling, Reading
  <2>2. HeadInv => HeadInv'
    BY <1>2 DEF HeadInv, vars, DiskHeads, ReaderHeads, SessionHeads, HeadOK, Alive, Exists, PathsOf, Filling, Reading,
                Passes, Through, Shows, Block
  <2>3. SeenInv => SeenInv'
    <3>1. \A i \in Inos : Alive(i)' <=> Alive(i)
      BY <1>2 DEF vars, Alive, Exists, PathsOf
    <3>2. \A t \in Threads, i \in Inos : (Reading(t)' <=> Reading(t)) /\ (Filling(t, i)' <=> Filling(t, i))
      BY <1>2 DEF vars, Filling, Reading
    <3>3. \A t \in Threads, i \in Inos : Offers(t, i, call[t].idx) => Offers(t, i, call[t].idx)'
      BY <1>2, <3>2 DEF vars, Offers, Shows, Block
    <3>4. \A t \in Threads, i \in Inos : OffersSize(t, i) => OffersSize(t, i)'
      BY <1>2 DEF vars, OffersSize
    <3>. QED
      BY <1>2, <3>1, <3>2, <3>3, <3>4 DEF vars, SeenInv, SeenFor
  <2>4. Reads' <=> Reads
    BY <1>2 DEF Reads, Ops, vars
  <2>. QED
    BY <1>1, <2>1, <2>2, <2>3, <2>4 DEF ReadInv
<1>3. CASE Next /\ Reads
  <2>1. /\ InPlace /\ workload \in Workloads /\ (Reads' <=> Reads) /\ (Moving' <=> Moving)
    BY <1>3 DEF BaseInv, TypeInv, TypeOK, Reads, ReadInPlace, InPlace, Moving, Ops, Next
  <2>2. WriteInv /\ WriteInv'
    BY <2>1 DEF ViewInv, WriteInv, InPlace
  <2>. QED
    BY <1>1, <1>3, <2>1, <2>2, CacheStep, HeadStep, SeenStep DEF ReadInv
<1>4. CASE Next /\ ~Reads
  BY <1>1, <1>4 DEF ReadInv, Reads, Ops, Next
<1>. QED
  BY <1>2, <1>3, <1>4 DEF ReadInv

LEMMA InitReadInv == Init => ReadInv
<1>. SUFFICES ASSUME Init PROVE ReadInv
  OBVIOUS
<1>1. /\ \A i \in Inos : named[i] = None /\ readers[i] = None /\ active[i] = None
      /\ \A t \in Threads : call[t].op = "idle"
  BY OpIdle DEF Init
<1>2. \A i \in Inos : ~Alive(i)
  BY <1>1 DEF Alive, Exists
<1>3. \A t \in Threads : ~Reading(t)
  BY <1>1 DEF Reading
<1>4. \A f \in Files : disk[f] = Empty \/ \E v \in Vals : disk[f] = [blocks |-> [k \in 1 .. MaxSize |-> v], head |-> v]
  BY ValsAssumption DEF Init
<1>5. DiskHeads
  <2>1. HeadOK(Empty)
    BY DEF HeadOK, Empty
  <2>2. ASSUME NEW v \in Vals PROVE HeadOK([blocks |-> [k \in 1 .. MaxSize |-> v], head |-> v])
    <3>1. [k \in 1 .. MaxSize |-> v] \in Seq(Vals) /\ Len([k \in 1 .. MaxSize |-> v]) = MaxSize /\ MaxSize >= 1
      BY SizesAreNat
    <3>. QED
      BY <3>1, SizesAreNat DEF HeadOK, Block
  <2>. QED
    BY <1>4, <2>1, <2>2 DEF DiskHeads
<1>. QED
  BY <1>1, <1>2, <1>3, <1>5 DEF ReadInv, OpsInv, NsFree, CacheInv, HeadInv, ReaderHeads, SessionHeads, SeenInv, Filling

LEMMA ReadShows == ASSUME BaseInv, ReadInv PROVE ReadsCurrent
<1>. SUFFICES ASSUME NEW t \in Threads, Reading(t), call[t].step = "done", Exists(named[call[t].ino])
              PROVE  call[t].value \in seen[t]
  BY DEF ReadsCurrent
<1>1. call[t].ino \in Inos
  BY FieldTypes DEF Reading, BaseInv
<1>2. Reads
  BY DEF ReadInv, OpsInv, Reads, Reading
<1>. QED
  BY <1>1, <1>2 DEF ReadInv, SeenInv, SeenFor, Alive

\* Where nothing that is read changes its path, a read that takes several
\* steps gives what its block, or the file's size, was at some moment since
\* it began: by a reader in the cache, one just opened, or what a session knows,
\* with commits, evictions, failures and other reads in between.
THEOREM ReadsAreCurrent ==
    ASSUME Orderly(Workloads), ReadInPlace(Workloads) PROVE Spec => []ReadsCurrent
<1>1. Init => BaseInv /\ ViewInv /\ ReadInv
  BY InitBase, InitView, InitReadInv
<1>2. BaseInv /\ ViewInv /\ ReadInv /\ [Next]_vars => (BaseInv /\ ViewInv /\ ReadInv)'
  BY NextBase, NextView, NextReadInv
<1>3. BaseInv /\ ReadInv => ReadsCurrent
  BY ReadShows
<1>. QED
  BY <1>1, <1>2, <1>3, PTL DEF Spec
=============================================================================
