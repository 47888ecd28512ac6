------------------------ MODULE ContainerBufferProofs ------------------------
(***************************************************************************)
(* Theorems about ContainerBuffer, for any number of inodes and blocks:     *)
(*                                                                         *)
(*   OrphansNeverStored, TypeCorrect, ReadsThrough   with every operation   *)
(*                                                   and failure            *)
(*   SyncedIsDurable      without setattr of mode and times                *)
(*   BufferImplementsWriteBack   without the three operations named there   *)
(*                                                                         *)
(* NoOrphans is not inductive by itself: a setattr in progress could, for  *)
(* all it says, write a missing size into a row that exists.  ChmodHasSize *)
(* rules that out; RowsOK says that the tables have an entry per inode.    *)
(* The other invariants are explained where they are defined.              *)
(***************************************************************************)
EXTENDS ContainerBuffer, WellFoundedInduction, TLAPS

RowsOK ==
    /\ rows = [i \in Inos |-> rows[i]]
    /\ stored = [i \in Inos |-> stored[i]]

ChmodHasSize ==
    chmod = Idle \/ \E k \in {"row", "attr"}, i \in Inos : \E n :
                        n # None /\ chmod = [kind |-> k, ino |-> i, size |-> n]

IInv == RowsOK /\ ChmodHasSize /\ NoOrphans

-----------------------------------------------------------------------------

\* A newer size, if there is one, never makes a size disappear.
LEMMA SizeStays ==
    ASSUME NEW p, NEW i, NEW n, n # None PROVE SizeUnder(p, i, n) # None
  BY DEF SizeUnder

LEMMA InitIInv == Init => IInv
  BY DEF Init, IInv, RowsOK, ChmodHasSize, NoOrphans

\* Only five kinds of step touch the tables or the attributes in progress.
LEMMA QuietStep ==
    ASSUME IInv, UNCHANGED <<rows, stored, chmod>> PROVE IInv'
  BY DEF IInv, RowsOK, ChmodHasSize, NoOrphans

LEMMA HandlerKeeps ==
    ASSUME IInv, NEW i \in Inos, Handler(i) PROVE IInv'
  <1>1. CASE FlushToRedb(i)
    <2>1. ASSUME NEW j \in Inos, rows'[j] = None PROVE stored'[j] = NoBlocks(j)
      <3>1. rows'[j] = FlushedSize(j) /\ stored'[j] = FlushedBlocks(j)
        BY <1>1 DEF FlushToRedb
      <3>2. rows[j] = None
        BY <3>1, <2>1, SizeStays DEF FlushedSize
      <3> QED  BY <3>1, <3>2 DEF FlushedBlocks, IInv, NoOrphans
    <2>2. RowsOK' /\ ChmodHasSize'
      BY <1>1 DEF FlushToRedb, IInv, RowsOK, ChmodHasSize
    <2> QED  BY <2>1, <2>2 DEF IInv, NoOrphans
  <1>2. CASE ~FlushToRedb(i)
    <2>1. UNCHANGED <<rows, stored, chmod>>
      BY <1>2 DEF Handler, Flush, FindSize, WritePut, TruncatePut, TruncateDrop, ReadStored,
                  SwapBuffers, CopyFlushing, FlushFails, ClearFlushing, db
    <2> QED  BY <2>1, QuietStep
  <1> QED  BY <1>1, <1>2

\* A row disappears together with its blocks.
LEMMA DeleteRowKeeps ==
    ASSUME IInv, NEW i, DeleteRow(i), UNCHANGED chmod PROVE IInv'
  <1>1. RowsOK' /\ ChmodHasSize'
    BY DEF DeleteRow, IInv, RowsOK, ChmodHasSize
  <1>2. ASSUME NEW j \in Inos, rows'[j] = None PROVE stored'[j] = NoBlocks(j)
    BY <1>2 DEF DeleteRow, IInv, RowsOK, NoOrphans
  <1> QED  BY <1>1, <1>2 DEF IInv, NoOrphans

LEMMA ChmodKeeps ==
    ASSUME IInv, \/ \E i \in Inos : ChmodRow(i)
                 \/ ChmodSize
                 \/ ChmodWrite
    PROVE  IInv'
  <1>1. ASSUME NEW i \in Inos, ChmodRow(i) PROVE IInv'
    BY <1>1 DEF ChmodRow, db, IInv, RowsOK, ChmodHasSize, NoOrphans
  <1>2. CASE ChmodSize
    <2>0. PICK k \in {"row", "attr"}, i \in Inos :
              \E n : n # None /\ chmod = [kind |-> k, ino |-> i, size |-> n]
      BY <1>2 DEF ChmodSize, IInv, ChmodHasSize, Idle
    <2>1. PICK n : n # None /\ chmod = [kind |-> k, ino |-> i, size |-> n]
      BY <2>0
    <2> DEFINE m == SizeUnder(active, i, SizeUnder(flushing, i, n))
    <2>2. m # None  BY <2>1, SizeStays
    <2>3. chmod' = [kind |-> "attr", ino |-> i, size |-> m]
      BY <1>2, <2>1 DEF ChmodSize
    <2>4. ChmodHasSize'
      <3> HIDE DEF m
      <3> QED  BY <2>2, <2>3 DEF ChmodHasSize
    <2> QED  BY <1>2, <2>4 DEF ChmodSize, db, IInv, RowsOK, NoOrphans
  <1>3. CASE ChmodWrite
    <2>1. chmod.size # None
      BY <1>3 DEF ChmodWrite, IInv, ChmodHasSize, Idle
    <2>2. ChmodHasSize'  BY <1>3 DEF ChmodWrite, ChmodHasSize
    <2>3. RowsOK'  BY <1>3 DEF ChmodWrite, IInv, RowsOK
    <2>4. ASSUME NEW j \in Inos, rows'[j] = None PROVE rows[j] = None
      BY <1>3, <2>1, <2>4 DEF ChmodWrite, IInv, RowsOK
    <2> QED  BY <1>3, <2>2, <2>3, <2>4 DEF ChmodWrite, IInv, NoOrphans
  <1> QED  BY <1>1, <1>2, <1>3

LEMMA StepIInv == IInv /\ [Next]_vars => IInv'
  <1> SUFFICES ASSUME IInv, [Next]_vars PROVE IInv'
    OBVIOUS
  <1>1. CASE Create
    <2>1. 0 # None  BY NoneAssumption
    <2> QED  BY <1>1, <2>1 DEF Create, IInv, RowsOK, ChmodHasSize, NoOrphans
  <1>2. CASE UnlinkCommit
    BY <1>2, DeleteRowKeeps DEF UnlinkCommit
  <1>3. CASE UnlinkFails
    BY <1>3, QuietStep DEF UnlinkFails, db
  <1>4. CASE ChmodSize \/ ChmodWrite \/ \E i \in Inos : ChmodRow(i)
    BY <1>4, ChmodKeeps
  <1>5. CASE Crash
    BY <1>5 DEF Crash, IInv, RowsOK, ChmodHasSize, NoOrphans
  <1>6. ASSUME NEW i \in Inos, Handler(i) PROVE IInv'
    BY <1>6, HandlerKeeps
  <1>7. ASSUME NEW i \in Inos, Replace(i) PROVE IInv'
    BY <1>7, DeleteRowKeeps DEF Replace
  <1>8. ASSUME NEW i \in Inos,
               \/ \E first, last \in Idx(i), v \in Vals : StartWrite(i, first, last, v)
               \/ \E n \in 0 .. Limit[i], v \in Vals : StartTruncate(i, n, v)
               \/ \E k \in Idx(i) : ReadBuffers(i, k)
               \/ StartFsync(i) \/ UnlinkBegin(i) \/ UnlinkEnd(i)
        PROVE IInv'
    <2>1. UNCHANGED <<rows, stored, chmod>>
      BY <1>8 DEF StartWrite, StartTruncate, ReadBuffers, Start, StartFsync, UnlinkBegin,
                  UnlinkEnd, db
    <2> QED  BY <2>1, QuietStep
  <1>9. CASE UNCHANGED vars
    BY <1>9, QuietStep DEF vars
  <1> QED
    BY <1>1, <1>2, <1>3, <1>4, <1>5, <1>6, <1>7, <1>8, <1>9 DEF Next, Unlinker

\* Whatever runs concurrently, and after any failure or restart, redb holds no
\* block of an inode without a row: the check for the row in flush_to_redb
\* holds against every unlink and rename.
THEOREM OrphansNeverStored == Spec => []NoOrphans
  <1>1. IInv => NoOrphans  BY DEF IInv
  <1> QED  BY <1>1, InitIInv, StepIInv, PTL DEF Spec

-----------------------------------------------------------------------------
(* Numbers and buffers                                                      *)

\* A set of natural numbers has a least one.
LEMMA LeastNat ==
    ASSUME NEW T \in SUBSET Nat, T # {}
    PROVE  \E m \in T : \A n \in T : m <= n
  <1>1. T \subseteq Nat  OBVIOUS
  <1> DEFINE R == OpToRel(<, Nat)
  <1>2. IsWellFoundedOn(R, Nat)  BY NatLessThanWellFounded
  <1>3. \E m \in T : \A n \in T : ~ (<<n, m>> \in R)
    <2> HIDE DEF R
    <2> QED  BY <1>1, <1>2, WFMin
  <1>4. PICK m \in T : \A n \in T : ~ (<<n, m>> \in R)
    BY <1>3
  <1>5. \A n \in T : ~ (n < m)
    BY <1>4 DEF OpToRel
  <1> QED  BY <1>5

\* Among numbers up to a bound, and zero, there is a greatest.
LEMMA GreatestBelow ==
    ASSUME NEW B \in Nat, NEW A \in SUBSET (1 .. B)
    PROVE  \E m \in {0} \cup A : \A i \in A : i <= m
  <1> DEFINE T == {m \in Nat : \A i \in A : i <= m}
  <1>1. B \in T  OBVIOUS
  <1>2. PICK m \in T : \A n \in T : m <= n
    BY <1>1, LeastNat
  <1>3. ASSUME m # 0, m \notin A PROVE FALSE
    <2>1. m - 1 \in T  BY <1>3
    <2> QED  BY <2>1, <1>2
  <1> QED  BY <1>3

\* The buffers are tables with an entry for each inode.
Shape(p) ==
    /\ p = [blocks |-> p.blocks, sizes |-> p.sizes, keeps |-> p.keeps]
    /\ p.blocks = [i \in Inos |-> [k \in Idx(i) |-> p.blocks[i][k]]]
    /\ p.sizes = [i \in Inos |-> p.sizes[i]]
    /\ p.keeps = [i \in Inos |-> p.keeps[i]]

\* p has nothing of inode i; p and q have the same of it; p has no answer for
\* a read of its block k.
Clean(p, i) == p.blocks[i] = NoBlocks(i) /\ p.sizes[i] = None /\ p.keeps[i] = NoKeep(i)
SameAt(p, q, i) ==
    p.blocks[i] = q.blocks[i] /\ p.sizes[i] = q.sizes[i] /\ p.keeps[i] = q.keeps[i]
Silent(p, i, k) == p.blocks[i][k] = None /\ k < p.keeps[i]

Sizes(i) == 0 .. Limit[i]
Blocks   == Vals \cup {None}
TypedAt(p, i) ==
    p.blocks[i] \in [Idx(i) -> Blocks] /\ p.sizes[i] \in Sizes(i) \cup {None}
    /\ p.keeps[i] \in 0 .. NoKeep(i)
Typed(p) == Shape(p) /\ \A i \in Inos : TypedAt(p, i)

LEMMA Limits == \A i \in Inos : Limit[i] \in Nat
  BY BoundsAssumption DEF Inos

LEMMA EmptyBuffer == Typed(Empty) /\ \A i \in Inos : Clean(Empty, i)
  BY Limits DEF Empty, Typed, Shape, TypedAt, Clean, NoBlocks, NoKeep, Blocks, Sizes, Idx

\* A buffer with nothing of any inode is the empty one.
LEMMA AllCleanIsEmpty ==
    ASSUME NEW p, Shape(p), \A i \in Inos : Clean(p, i) PROVE p = Empty
  BY DEF Shape, Clean, Empty

\* What each operation on a buffer does, inode by inode.
LEMMA PutBlockAt ==
    ASSUME NEW p, Shape(p), NEW i \in Inos, NEW k, NEW v, NEW size,
           NEW q, q = PutBlock(p, i, k, v, size)
    PROVE  /\ Shape(q)
           /\ \A j \in Inos : j # i => SameAt(q, p, j)
           /\ q.blocks[i] = [m \in Idx(i) |-> IF m = k THEN v ELSE p.blocks[i][m]]
           /\ q.sizes[i] = size /\ q.keeps[i] = p.keeps[i]
  <1>1. q.sizes = [p.sizes EXCEPT ![i] = size] /\ q.keeps = p.keeps
        /\ q.blocks = [p.blocks EXCEPT ![i][k] = v]
        /\ q = [blocks |-> q.blocks, sizes |-> q.sizes, keeps |-> q.keeps]
    BY DEF PutBlock, Shape
  <1>2. p.blocks[i] = [m \in Idx(i) |-> p.blocks[i][m]]
    BY DEF Shape
  <1>3. q.blocks[i] = [p.blocks[i] EXCEPT ![k] = v]
    BY <1>1 DEF Shape
  <1>4. q.blocks[i] = [m \in Idx(i) |-> IF m = k THEN v ELSE p.blocks[i][m]]
    BY <1>2, <1>3
  <1>5. \A j \in Inos : j # i => SameAt(q, p, j)
    BY <1>1 DEF Shape, SameAt
  <1>6. q.sizes[i] = size /\ q.keeps[i] = p.keeps[i]
    BY <1>1 DEF Shape
  <1>7. Shape(q)
    <2>1. q.blocks = [j \in Inos |-> q.blocks[j]]
      BY <1>1 DEF Shape
    <2>2. ASSUME NEW j \in Inos PROVE q.blocks[j] = [m \in Idx(j) |-> q.blocks[j][m]]
      <3>1. CASE j = i  BY <3>1, <1>4
      <3>2. CASE j # i  BY <3>2, <1>5 DEF SameAt, Shape
      <3> QED  BY <3>1, <3>2
    <2>3. q.blocks = [j \in Inos |-> [m \in Idx(j) |-> q.blocks[j][m]]]
      BY <2>1, <2>2
    <2>4. q.sizes = [j \in Inos |-> q.sizes[j]] /\ q.keeps = [j \in Inos |-> q.keeps[j]]
      BY <1>1 DEF Shape
    <2> QED  BY <1>1, <2>3, <2>4 DEF Shape
  <1> QED  BY <1>4, <1>5, <1>6, <1>7

LEMMA TruncateBlocksAt ==
    ASSUME NEW p, Shape(p), NEW i \in Inos, NEW keep, NEW size,
           NEW q, q = TruncateBlocks(p, i, keep, size)
    PROVE  /\ Shape(q)
           /\ \A j \in Inos : j # i => SameAt(q, p, j)
           /\ q.blocks[i] = [k \in Idx(i) |-> IF k < keep THEN p.blocks[i][k] ELSE None]
           /\ q.sizes[i] = size
           /\ q.keeps[i] = IF keep < p.keeps[i] THEN keep ELSE p.keeps[i]
  BY DEF TruncateBlocks, Shape, SameAt

LEMMA ForgottenAt ==
    ASSUME NEW p, Shape(p), NEW i \in Inos, NEW q, q = Forgotten(p, i)
    PROVE  /\ Shape(q)
           /\ \A j \in Inos : j # i => SameAt(q, p, j)
           /\ Clean(q, i)
  BY DEF Forgotten, Shape, SameAt, Clean, NoBlocks

LEMMA MergedAt ==
    ASSUME NEW p, NEW f, NEW q, q = Merged(p, f)
    PROVE  /\ Shape(q)
           /\ \A i \in Inos :
                /\ q.blocks[i] = [k \in Idx(i) |->
                     IF p.blocks[i][k] # None THEN p.blocks[i][k]
                     ELSE IF k < p.keeps[i] THEN f.blocks[i][k] ELSE None]
                /\ q.sizes[i] = IF p.sizes[i] # None THEN p.sizes[i] ELSE f.sizes[i]
                /\ q.keeps[i] = IF p.keeps[i] # NoKeep(i) THEN p.keeps[i] ELSE f.keeps[i]
  BY DEF Merged, Shape

\* They keep buffers typed.
LEMMA SameTyped ==
    ASSUME NEW p, NEW q, NEW i, SameAt(q, p, i), TypedAt(p, i) PROVE TypedAt(q, i)
  BY DEF SameAt, TypedAt

LEMMA PutTyped ==
    ASSUME NEW p, Typed(p), NEW i \in Inos, NEW k \in Idx(i), NEW v \in Vals,
           NEW size \in Sizes(i)
    PROVE  Typed(PutBlock(p, i, k, v, size))
  <1> DEFINE q == PutBlock(p, i, k, v, size)
  <1>1. /\ Shape(q)
        /\ \A j \in Inos : j # i => SameAt(q, p, j)
        /\ q.blocks[i] = [m \in Idx(i) |-> IF m = k THEN v ELSE p.blocks[i][m]]
        /\ q.sizes[i] = size /\ q.keeps[i] = p.keeps[i]
    BY PutBlockAt DEF Typed
  <1> HIDE DEF q
  <1>2. TypedAt(q, i)
    BY <1>1 DEF Typed, TypedAt, Blocks
  <1>3. ASSUME NEW j \in Inos PROVE TypedAt(q, j)
    BY <1>1, <1>2, SameTyped DEF Typed
  <1> QED  BY <1>1, <1>3 DEF Typed, q

LEMMA TruncateTyped ==
    ASSUME NEW p, Typed(p), NEW i \in Inos, NEW keep \in Sizes(i), NEW size \in Sizes(i)
    PROVE  Typed(TruncateBlocks(p, i, keep, size))
  <1> DEFINE q == TruncateBlocks(p, i, keep, size)
  <1>1. /\ Shape(q)
        /\ \A j \in Inos : j # i => SameAt(q, p, j)
        /\ q.blocks[i] = [k \in Idx(i) |-> IF k < keep THEN p.blocks[i][k] ELSE None]
        /\ q.sizes[i] = size
        /\ q.keeps[i] = IF keep < p.keeps[i] THEN keep ELSE p.keeps[i]
    BY TruncateBlocksAt DEF Typed
  <1> HIDE DEF q
  <1>2. TypedAt(q, i)
    BY <1>1, Limits DEF Typed, TypedAt, Blocks, Sizes, NoKeep
  <1>3. ASSUME NEW j \in Inos PROVE TypedAt(q, j)
    BY <1>1, <1>2, SameTyped DEF Typed
  <1> QED  BY <1>1, <1>3 DEF Typed, q

LEMMA ForgottenTyped ==
    ASSUME NEW p, Typed(p), NEW i \in Inos PROVE Typed(Forgotten(p, i))
  <1> DEFINE q == Forgotten(p, i)
  <1>1. Shape(q) /\ Clean(q, i) /\ \A j \in Inos : j # i => SameAt(q, p, j)
    BY ForgottenAt DEF Typed
  <1> HIDE DEF q
  <1>2. NoKeep(i) \in 0 .. NoKeep(i)
    BY Limits DEF NoKeep
  <1>3. TypedAt(q, i)
    <2>1. q.blocks[i] \in [Idx(i) -> Blocks]
      BY <1>1 DEF Clean, NoBlocks, Blocks
    <2> QED  BY <1>1, <1>2, <2>1 DEF Clean, TypedAt
  <1>4. ASSUME NEW j \in Inos PROVE TypedAt(q, j)
    BY <1>1, <1>3, SameTyped DEF Typed
  <1> QED  BY <1>1, <1>4 DEF Typed, q

LEMMA MergedTyped ==
    ASSUME NEW p, NEW f, Typed(p), Typed(f) PROVE Typed(Merged(p, f))
  <1> DEFINE q == Merged(p, f)
  <1>1. /\ Shape(q)
        /\ \A i \in Inos :
             /\ q.blocks[i] = [k \in Idx(i) |->
                  IF p.blocks[i][k] # None THEN p.blocks[i][k]
                  ELSE IF k < p.keeps[i] THEN f.blocks[i][k] ELSE None]
             /\ q.sizes[i] = IF p.sizes[i] # None THEN p.sizes[i] ELSE f.sizes[i]
             /\ q.keeps[i] = IF p.keeps[i] # NoKeep(i) THEN p.keeps[i] ELSE f.keeps[i]
    BY MergedAt
  <1> HIDE DEF q
  <1>2. ASSUME NEW i \in Inos PROVE TypedAt(q, i)
    <2>0. q.blocks[i] = [k \in Idx(i) |->
            IF p.blocks[i][k] # None THEN p.blocks[i][k]
            ELSE IF k < p.keeps[i] THEN f.blocks[i][k] ELSE None]
      BY <1>1
    <2>1. TypedAt(p, i) /\ TypedAt(f, i)
      BY DEF Typed
    <2>2. q.sizes[i] \in Sizes(i) \cup {None} /\ q.keeps[i] \in 0 .. NoKeep(i)
      BY <1>1, <2>1 DEF TypedAt
    <2>3. \A k \in Idx(i) : p.blocks[i][k] \in Blocks /\ f.blocks[i][k] \in Blocks
      BY <2>1 DEF TypedAt
    <2>4. q.blocks[i] \in [Idx(i) -> Blocks]
      BY <2>0, <2>3 DEF Blocks
    <2> QED  BY <2>2, <2>4 DEF TypedAt
  <1> QED  BY <1>1, <1>2 DEF Typed, q

LEMMA BlocksUnderTyped ==
    ASSUME NEW p, NEW i, TypedAt(p, i), NEW below \in [Idx(i) -> Blocks]
    PROVE  BlocksUnder(p, i, below) \in [Idx(i) -> Blocks]
  BY DEF BlocksUnder, TypedAt, Blocks

LEMMA SizeUnderTyped ==
    ASSUME NEW p, NEW i, TypedAt(p, i), NEW below \in Sizes(i)
    PROVE  SizeUnder(p, i, below) \in Sizes(i)
  BY DEF SizeUnder, TypedAt

-----------------------------------------------------------------------------
(* Types                                                                    *)

\* The handlers a lock can be held by, and where each can be.
SizingWrites(i) == {c \in [kind : {"write"}, at : {"size"}, row : Sizes(i), first : Idx(i),
                           last : Idx(i), v : Vals] : c.first <= c.last}
PuttingWrites(i) == {c \in [kind : {"write"}, at : {"put"}, k : Idx(i), first : Idx(i),
                            last : Idx(i), v : Vals, size : Sizes(i)] : c.k <= c.last}
SizingTruncates(i) == [kind : {"truncate"}, at : {"size"}, row : Sizes(i), n : Sizes(i), v : Vals]
CuttingTruncates(i) == [kind : {"truncate"}, at : {"cut", "drop"}, n : Sizes(i),
                        old : Sizes(i), v : Vals]
Reads(i) == [kind : {"read"}, k : Idx(i)]
Fsyncs == [kind : {"fsync"}, at : {"lock", "copy", "flush", "clear"}]
Calls(i) == {Idle} \cup SizingWrites(i) \cup PuttingWrites(i) \cup SizingTruncates(i)
            \cup CuttingTruncates(i) \cup Reads(i) \cup Fsyncs

TablesOK ==
    /\ RowsOK
    /\ \A i \in Inos : rows[i] \in Sizes(i) \cup {None} /\ stored[i] \in [Idx(i) -> Blocks]
    /\ next \in 1 .. N + 1
    /\ committer \in Inos \cup {None} /\ removing \in Inos \cup {None}
BuffersOK == Typed(active) /\ Typed(flushing) /\ Typed(writing)
CallsOK == call = [i \in Inos |-> call[i]] /\ \A i \in Inos : call[i] \in Calls(i)
ChmodOK ==
    chmod = Idle \/ \E k \in {"row", "attr"}, i \in Inos : \E n \in Sizes(i) :
                        chmod = [kind |-> k, ino |-> i, size |-> n]
PromisedOK == promised = [i \in Inos |-> promised[i]]

TypeInv == TablesOK /\ BuffersOK /\ CallsOK /\ ChmodOK /\ PromisedOK

LEMMA TypeInvTypes == TypeInv => TypeOK
  BY DEF TypeInv, TypeOK, TablesOK, BuffersOK, CallsOK, PromisedOK, PendingOK, Typed, TypedAt,
         Sizes, Blocks

LEMMA InitTypeInv == Init => TypeInv
  <1> SUFFICES ASSUME Init PROVE TypeInv
    OBVIOUS
  <1>1. TablesOK
    BY BoundsAssumption DEF Init, TablesOK, RowsOK, NoBlocks, Blocks
  <1>2. BuffersOK  BY EmptyBuffer DEF Init, BuffersOK
  <1>3. CallsOK  BY DEF Init, CallsOK, Calls
  <1> QED  BY <1>1, <1>2, <1>3 DEF Init, TypeInv, ChmodOK, PromisedOK

LEMMA CallStep ==
    ASSUME CallsOK, NEW i \in Inos, NEW c \in Calls(i), Goto(i, c) PROVE CallsOK'
  BY DEF CallsOK, Goto

LEMMA ReturnStep ==
    ASSUME CallsOK, NEW i \in Inos, Return(i) PROVE CallsOK'
  <1>1. Goto(i, Idle)  BY DEF Goto, Return
  <1> QED  BY <1>1, CallStep DEF Calls

\* The call of a handler, from where it is.
LEMMA CallIs ==
    ASSUME NEW i, NEW c \in Calls(i)
    PROVE  /\ c.kind = "write" => c \in SizingWrites(i) \/ c \in PuttingWrites(i)
           /\ c.kind = "truncate" => c \in SizingTruncates(i) \/ c \in CuttingTruncates(i)
           /\ c.kind = "read" => c \in Reads(i)
           /\ c.kind = "fsync" => c \in Fsyncs
  BY DEF Calls, Idle, SizingWrites, PuttingWrites, SizingTruncates, CuttingTruncates, Reads, Fsyncs

LEMMA SizeFound ==
    ASSUME BuffersOK, NEW i \in Inos, NEW row \in Sizes(i)
    PROVE  SizeUnder(active, i, SizeUnder(flushing, i, row)) \in Sizes(i)
  BY SizeUnderTyped DEF BuffersOK, Typed

LEMMA BlockFound ==
    ASSUME BuffersOK, TablesOK, NEW i \in Inos
    PROVE  BlocksUnder(active, i, BlocksUnder(flushing, i, stored[i])) \in [Idx(i) -> Blocks]
  BY BlocksUnderTyped DEF BuffersOK, TablesOK, Typed

LEMMA StartTypes ==
    ASSUME TypeInv, NEW i \in Inos,
           \/ \E first, last \in Idx(i), v \in Vals : StartWrite(i, first, last, v)
           \/ \E n \in 0 .. Limit[i], v \in Vals : StartTruncate(i, n, v)
           \/ \E k \in Idx(i) : ReadBuffers(i, k)
           \/ StartFsync(i)
    PROVE  TypeInv'
  <1>1. CallsOK'
    <2>0. CallsOK /\ (rows[i] # None => rows[i] \in Sizes(i))
      BY DEF TypeInv, TablesOK
    <2>1. ASSUME NEW first \in Idx(i), NEW last \in Idx(i), NEW v \in Vals,
                 StartWrite(i, first, last, v)
          PROVE  CallsOK'
      <3>1. [kind |-> "write", at |-> "size", row |-> rows[i], first |-> first,
             last |-> last, v |-> v] \in Calls(i)
        BY <2>0, <2>1 DEF StartWrite, Calls, SizingWrites
      <3> QED  BY <2>0, <2>1, <3>1, CallStep DEF StartWrite, Start
    <2>2. ASSUME NEW n \in 0 .. Limit[i], NEW v \in Vals, StartTruncate(i, n, v)
          PROVE  CallsOK'
      <3>1. [kind |-> "truncate", at |-> "size", row |-> rows[i], n |-> n, v |-> v] \in Calls(i)
        BY <2>0, <2>2 DEF StartTruncate, Calls, SizingTruncates, Sizes
      <3> QED  BY <2>0, <2>2, <3>1, CallStep DEF StartTruncate, Start
    <2>3. ASSUME NEW k \in Idx(i), ReadBuffers(i, k) PROVE CallsOK'
      <3>1. [kind |-> "read", k |-> k] \in Calls(i)
        BY DEF Calls, Reads
      <3> QED  BY <2>0, <2>3, <3>1, CallStep DEF ReadBuffers, Start
    <2>4. CASE StartFsync(i)
      <3>1. [kind |-> "fsync", at |-> "lock"] \in Calls(i)
        BY DEF Calls, Fsyncs
      <3> QED  BY <2>0, <2>4, <3>1, CallStep DEF StartFsync
    <2> QED  BY <2>1, <2>2, <2>3, <2>4
  <1>2. UNCHANGED <<rows, stored, next, active, flushing, committer, writing, removing, chmod,
                    promised>>
    BY DEF StartWrite, StartTruncate, ReadBuffers, StartFsync, Start, db, buffers
  <1> QED
    BY <1>1, <1>2 DEF TypeInv, TablesOK, RowsOK, BuffersOK, ChmodOK, PromisedOK

LEMMA FindSizeTypes ==
    ASSUME TypeInv, NEW i \in Inos, FindSize(i) PROVE CallsOK'
  <1> DEFINE c == call[i]
             size == SizeUnder(active, i, SizeUnder(flushing, i, c.row))
  <1>0. c \in Calls(i) /\ CallsOK /\ BuffersOK
    BY DEF TypeInv, CallsOK
  <1>1. CASE c.kind = "write"
    <2>1. c \in SizingWrites(i)
      BY <1>0, <1>1, CallIs DEF FindSize, PuttingWrites
    <2>2. size \in Sizes(i)
      BY <1>0, <2>1, SizeFound DEF SizingWrites
    <2> DEFINE d == [kind |-> "write", at |-> "put",
                     k |-> IF c.first < size THEN c.first ELSE size,
                     first |-> c.first, last |-> c.last, v |-> c.v,
                     size |-> SizeAfter(size, c.first, c.last)]
    <2>3. Goto(i, d)
      BY <1>1 DEF FindSize
    <2>4. c.first \in Idx(i) /\ c.last \in Idx(i) /\ c.v \in Vals /\ c.first <= c.last
      BY <2>1 DEF SizingWrites
    <2> HIDE DEF c, size
    <2>5. SizeAfter(size, c.first, c.last) \in Sizes(i)
      BY <2>2, <2>4, Limits DEF SizeAfter, Sizes, Idx
    <2>6. d \in PuttingWrites(i)
      BY <2>2, <2>4, <2>5, Limits DEF PuttingWrites, Sizes, Idx
    <2> QED  BY <1>0, <2>3, <2>6, CallStep DEF Calls
  <1>2. CASE c.kind = "truncate"
    <2>1. c \in SizingTruncates(i)
      BY <1>0, <1>2, CallIs DEF FindSize, CuttingTruncates
    <2>2. size \in Sizes(i)
      BY <1>0, <2>1, SizeFound DEF SizingTruncates
    <2> DEFINE d == [kind |-> "truncate", at |-> "cut", n |-> c.n, old |-> size, v |-> c.v]
    <2>3. Return(i) \/ Goto(i, d)
      BY <1>2 DEF FindSize
    <2>4. d \in CuttingTruncates(i)
      BY <2>1, <2>2 DEF SizingTruncates, CuttingTruncates
    <2> QED  BY <1>0, <2>3, <2>4, CallStep, ReturnStep DEF Calls
  <1> QED  BY <1>1, <1>2 DEF FindSize

LEMMA WritePutTypes ==
    ASSUME TypeInv, NEW i \in Inos, WritePut(i) PROVE Typed(active') /\ CallsOK'
  <1> DEFINE c == call[i]
             v == IF c.k < c.first /\ Block(i, c.k) # None THEN Block(i, c.k) ELSE c.v
  <1>0. c \in Calls(i) /\ CallsOK /\ BuffersOK /\ TablesOK
    BY DEF TypeInv, CallsOK
  <1>1. c \in PuttingWrites(i)
    BY <1>0, CallIs DEF WritePut, SizingWrites
  <1>2. c.k \in Idx(i) /\ c.last \in Idx(i) /\ c.v \in Vals /\ c.size \in Sizes(i) /\ c.k <= c.last
    BY <1>1 DEF PuttingWrites
  <1>3. v \in Vals
    BY <1>0, <1>2, BlockFound DEF Block, Blocks
  <1>4. active' = PutBlock(active, i, c.k, v, c.size)
    BY DEF WritePut
  <1>5. Typed(active')
    <2> HIDE DEF c, v
    <2> QED  BY <1>0, <1>2, <1>3, <1>4, PutTyped DEF BuffersOK
  <1>6. CASE c.k = c.last
    BY <1>0, <1>5, <1>6, ReturnStep DEF WritePut
  <1>7. CASE c.k # c.last
    <2>1. Goto(i, [c EXCEPT !.k = @ + 1])
      BY <1>7 DEF WritePut
    <2>2. [c EXCEPT !.k = @ + 1] \in PuttingWrites(i)
      BY <1>1, <1>2, <1>7, Limits DEF PuttingWrites, Idx
    <2> QED  BY <1>0, <1>5, <2>1, <2>2, CallStep DEF Calls
  <1> QED  BY <1>6, <1>7

LEMMA TruncateTypes ==
    ASSUME TypeInv, NEW i \in Inos, TruncatePut(i) \/ TruncateDrop(i)
    PROVE  Typed(active') /\ CallsOK'
  <1> DEFINE c == call[i]
  <1>0. c \in Calls(i) /\ CallsOK /\ BuffersOK
    BY DEF TypeInv, CallsOK
  <1>1. c \in CuttingTruncates(i)
    BY <1>0, CallIs DEF TruncatePut, TruncateDrop, SizingTruncates
  <1>2. c.n \in Sizes(i) /\ c.old \in Sizes(i) /\ c.v \in Vals
    BY <1>1 DEF CuttingTruncates
  <1>3. CASE TruncatePut(i)
    <2> DEFINE last == IF c.n < c.old THEN c.n - 1 ELSE c.old - 1
    <2>1. last \in Idx(i) /\ active' = PutBlock(active, i, last, c.v, c.n)
      BY <1>3 DEF TruncatePut
    <2>2. Typed(active')
      <3> HIDE DEF c, last
      <3> QED  BY <1>0, <1>2, <2>1, PutTyped DEF BuffersOK
    <2>3. Return(i) \/ Goto(i, [c EXCEPT !.at = "drop"])
      BY <1>3 DEF TruncatePut
    <2>4. [c EXCEPT !.at = "drop"] \in CuttingTruncates(i)
      BY <1>1 DEF CuttingTruncates
    <2> QED  BY <1>0, <2>2, <2>3, <2>4, CallStep, ReturnStep DEF Calls
  <1>4. CASE TruncateDrop(i)
    <2> DEFINE keep == IF c.n < c.old THEN c.n ELSE c.old
    <2>1. active' = TruncateBlocks(active, i, keep, c.n) /\ keep \in Sizes(i)
      BY <1>2, <1>4 DEF TruncateDrop
    <2>2. Typed(active')
      <3> HIDE DEF c, keep
      <3> QED  BY <1>0, <1>2, <2>1, TruncateTyped DEF BuffersOK
    <2> QED  BY <1>0, <1>4, <2>2, ReturnStep DEF TruncateDrop
  <1> QED  BY <1>3, <1>4

LEMMA FlushTypes ==
    ASSUME TypeInv, NEW i \in Inos, FlushToRedb(i)
    PROVE  \A j \in Inos : rows'[j] \in Sizes(j) \cup {None} /\ stored'[j] \in [Idx(j) -> Blocks]
  <1> TAKE j \in Inos
  <1>0. TypedAt(writing, j) /\ rows[j] \in Sizes(j) \cup {None} /\ stored[j] \in [Idx(j) -> Blocks]
    BY DEF TypeInv, BuffersOK, TablesOK, Typed
  <1>1. rows'[j] = FlushedSize(j) /\ stored'[j] = FlushedBlocks(j)
    BY DEF FlushToRedb
  <1>2. FlushedSize(j) \in Sizes(j) \cup {None}
    BY <1>0, SizeUnderTyped DEF FlushedSize
  <1>3. FlushedBlocks(j) \in [Idx(j) -> Blocks]
    BY <1>0, BlocksUnderTyped DEF FlushedBlocks
  <1> QED  BY <1>1, <1>2, <1>3

LEMMA HandlerTypes ==
    ASSUME TypeInv, NEW i \in Inos, Handler(i) PROVE TypeInv'
  <1> USE DEF TypeInv
  <1>1. CASE FindSize(i)
    <2>1. CallsOK'  BY <1>1, FindSizeTypes
    <2> QED  BY <1>1, <2>1 DEF FindSize, db, buffers, TablesOK, RowsOK, BuffersOK, ChmodOK, PromisedOK
  <1>2. CASE WritePut(i)
    <2>1. Typed(active') /\ CallsOK'  BY <1>2, WritePutTypes
    <2> QED
      BY <1>2, <2>1 DEF WritePut, Changed, db, TablesOK, RowsOK, BuffersOK, ChmodOK, PromisedOK
  <1>3. CASE TruncatePut(i) \/ TruncateDrop(i)
    <2>1. Typed(active') /\ CallsOK'  BY <1>3, TruncateTypes
    <2> QED
      BY <1>3, <2>1 DEF TruncatePut, TruncateDrop, Changed, db, TablesOK, RowsOK, BuffersOK, ChmodOK,
                        PromisedOK
  <1>4. CASE ReadStored(i)
    <2>1. CallsOK'  BY <1>4, ReturnStep DEF ReadStored
    <2> QED  BY <1>4, <2>1 DEF ReadStored, db, buffers, TablesOK, RowsOK, BuffersOK, ChmodOK, PromisedOK
  <1>5. CASE SwapBuffers(i)
    <2>1. [kind |-> "fsync", at |-> "copy"] \in Calls(i)
      BY DEF Calls, Fsyncs
    <2>2. CallsOK'
      BY <1>5, <2>1, CallStep, ReturnStep DEF SwapBuffers
    <2>3. BuffersOK' /\ committer' \in Inos \cup {None}
      BY <1>5 DEF SwapBuffers, BuffersOK, TablesOK
    <2> QED
      BY <1>5, <2>2, <2>3 DEF SwapBuffers, FsyncOk, db, TablesOK, RowsOK, ChmodOK, PromisedOK
  <1>6. CASE CopyFlushing(i)
    <2>1. [kind |-> "fsync", at |-> "flush"] \in Calls(i)
      BY DEF Calls, Fsyncs
    <2>2. CallsOK'
      BY <1>6, <2>1, CallStep DEF CopyFlushing
    <2> QED
      BY <1>6, <2>2 DEF CopyFlushing, db, TablesOK, RowsOK, BuffersOK, ChmodOK, PromisedOK
  <1>7. CASE FlushToRedb(i)
    <2>1. [kind |-> "fsync", at |-> "clear"] \in Calls(i)
      BY DEF Calls, Fsyncs
    <2>2. CallsOK'
      BY <1>7, <2>1, CallStep DEF FlushToRedb
    <2>3. RowsOK'
      BY <1>7 DEF FlushToRedb, RowsOK
    <2>4. TablesOK'
      BY <1>7, <2>3, FlushTypes DEF FlushToRedb, buffers, TablesOK
    <2> QED
      BY <1>7, <2>2, <2>4 DEF FlushToRedb, buffers, BuffersOK, ChmodOK, PromisedOK
  <1>8. CASE FlushFails(i) \/ ClearFlushing(i)
    <2>1. CallsOK'
      BY <1>8, ReturnStep DEF FlushFails, ClearFlushing
    <2>2. BuffersOK'
      BY <1>8, MergedTyped, EmptyBuffer DEF FlushFails, ClearFlushing, BuffersOK
    <2> QED
      BY <1>8, <2>1, <2>2 DEF FlushFails, ClearFlushing, FsyncOk, db, TablesOK, RowsOK, ChmodOK,
                              PromisedOK
  <1> QED
    BY <1>1, <1>2, <1>3, <1>4, <1>5, <1>6, <1>7, <1>8 DEF Handler, Flush

LEMMA DeleteRowTypes ==
    ASSUME TypeInv, NEW i \in Inos, DeleteRow(i), UNCHANGED <<buffers, call, chmod>>,
           removing' \in Inos \cup {None}
    PROVE  TypeInv'
  <1>1. NoBlocks(i) \in [Idx(i) -> Blocks]
    BY DEF NoBlocks, Blocks
  <1>2. TablesOK'
    BY <1>1 DEF TypeInv, TablesOK, RowsOK, DeleteRow, buffers
  <1>3. PromisedOK'
    BY DEF TypeInv, PromisedOK, DeleteRow, Changed
  <1> QED
    BY <1>2, <1>3 DEF TypeInv, BuffersOK, CallsOK, ChmodOK, buffers

LEMMA UnlinkTypes ==
    ASSUME TypeInv,
           \/ \E i \in Inos : UnlinkBegin(i) \/ UnlinkEnd(i) \/ Replace(i)
           \/ Unlinker
    PROVE  TypeInv'
  <1>1. ASSUME NEW i \in Inos, UnlinkBegin(i) \/ UnlinkEnd(i) PROVE TypeInv'
    <2>1. BuffersOK'
      BY <1>1, ForgottenTyped DEF UnlinkBegin, UnlinkEnd, DropPending, TypeInv, BuffersOK
    <2> QED
      BY <1>1, <2>1 DEF UnlinkBegin, UnlinkEnd, DropPending, db, TypeInv, TablesOK, RowsOK, CallsOK,
                        ChmodOK, PromisedOK
  <1>2. ASSUME NEW i \in Inos, Replace(i) PROVE TypeInv'
    BY <1>2, DeleteRowTypes DEF Replace, TypeInv, TablesOK
  <1>3. CASE UnlinkCommit
    BY <1>3, DeleteRowTypes DEF UnlinkCommit, TypeInv, TablesOK
  <1>4. CASE UnlinkFails
    BY <1>4 DEF UnlinkFails, db, buffers, TypeInv, TablesOK, RowsOK, BuffersOK, CallsOK, ChmodOK,
                PromisedOK
  <1> QED  BY <1>1, <1>2, <1>3, <1>4 DEF Unlinker

LEMMA ChmodTypes ==
    ASSUME TypeInv, ChmodSize \/ ChmodWrite \/ \E i \in Inos : ChmodRow(i)
    PROVE  TypeInv'
  <1>1. ASSUME NEW i \in Inos, ChmodRow(i) PROVE TypeInv'
    <2>1. rows[i] \in Sizes(i)
      BY <1>1 DEF ChmodRow, TypeInv, TablesOK
    <2>2. ChmodOK'
      BY <1>1, <2>1 DEF ChmodRow, ChmodOK
    <2> QED
      BY <1>1, <2>2 DEF ChmodRow, db, buffers, TypeInv, TablesOK, RowsOK, BuffersOK, CallsOK, PromisedOK
  <1>2. CASE ChmodSize
    <2>0. PICK i \in Inos : \E n \in Sizes(i) : chmod = [kind |-> "row", ino |-> i, size |-> n]
      BY <1>2 DEF ChmodSize, TypeInv, ChmodOK, Idle
    <2>1. PICK n \in Sizes(i) : chmod = [kind |-> "row", ino |-> i, size |-> n]
      BY <2>0
    <2> DEFINE m == SizeUnder(active, i, SizeUnder(flushing, i, n))
    <2>2. m \in Sizes(i)
      BY SizeFound DEF TypeInv
    <2>3. chmod' = [kind |-> "attr", ino |-> i, size |-> m]
      BY <1>2, <2>1 DEF ChmodSize
    <2>4. ChmodOK'
      <3> HIDE DEF m
      <3> QED  BY <2>2, <2>3 DEF ChmodOK
    <2> QED
      BY <1>2, <2>4 DEF ChmodSize, db, buffers, TypeInv, TablesOK, RowsOK, BuffersOK, CallsOK, PromisedOK
  <1>3. CASE ChmodWrite
    <2>0. PICK i \in Inos : \E n \in Sizes(i) : chmod = [kind |-> "attr", ino |-> i, size |-> n]
      BY <1>3 DEF ChmodWrite, TypeInv, ChmodOK, Idle
    <2>1. PICK n \in Sizes(i) : chmod = [kind |-> "attr", ino |-> i, size |-> n]
      BY <2>0
    <2>2. TablesOK'
      BY <1>3, <2>1 DEF ChmodWrite, buffers, TypeInv, TablesOK, RowsOK
    <2> QED
      BY <1>3, <2>2 DEF ChmodWrite, buffers, TypeInv, BuffersOK, CallsOK, ChmodOK, PromisedOK
  <1> QED  BY <1>1, <1>2, <1>3

\* The number a restart begins with: one above those in use.
LEMMA NextAfterCrash ==
    ASSUME Crash
    PROVE  next' \in 1 .. N + 1 /\ \A i \in Inos : i >= next' => rows[i] = None
  <1> DEFINE Used == {i \in Inos : rows[i] # None}
             P(m) == \A i \in Inos : rows[i] # None => i <= m
  <1>1. N \in Nat
    BY BoundsAssumption
  <1>2. Used \in SUBSET (1 .. N)
    BY DEF Inos
  <1>3. \E m \in {0} \cup Used : \A i \in Used : i <= m
    <2> HIDE DEF Used
    <2> QED  BY <1>1, <1>2, GreatestBelow
  <1>4. \E m \in {0} \cup Used : P(m)
    BY <1>3
  <1> DEFINE g == CHOOSE m \in {0} \cup Used : P(m)
  <1>5. g \in {0} \cup Used /\ P(g)
    <2> HIDE DEF Used, P
    <2> QED  BY <1>4
  <1>6. next' = 1 + g
    BY DEF Crash
  <1> HIDE DEF g
  <1> QED  BY <1>1, <1>2, <1>5, <1>6 DEF Inos

LEMMA CrashTypes == ASSUME TypeInv, Crash PROVE TypeInv'
  <1>1. TablesOK'
    BY NextAfterCrash DEF Crash, TypeInv, TablesOK, RowsOK
  <1>2. BuffersOK' /\ CallsOK'
    BY EmptyBuffer DEF Crash, BuffersOK, CallsOK, Calls
  <1> QED  BY <1>1, <1>2 DEF Crash, TypeInv, ChmodOK, PromisedOK

LEMMA CreateTypes == ASSUME TypeInv, Create PROVE TypeInv'
  <1>1. 0 \in Sizes(next) /\ next + 1 \in 1 .. N + 1
    BY Limits, BoundsAssumption DEF Create, Sizes, Inos
  <1>2. TablesOK'
    BY <1>1 DEF Create, buffers, TypeInv, TablesOK, RowsOK
  <1> QED  BY <1>2 DEF Create, buffers, TypeInv, BuffersOK, CallsOK, ChmodOK, PromisedOK

LEMMA StepTypeInv == TypeInv /\ [Next]_vars => TypeInv'
  <1> SUFFICES ASSUME TypeInv, [Next]_vars PROVE TypeInv'
    OBVIOUS
  <1>1. CASE UNCHANGED vars
    BY <1>1 DEF vars, TypeInv, TablesOK, RowsOK, BuffersOK, CallsOK, ChmodOK, PromisedOK
  <1> QED
    BY <1>1, CreateTypes, UnlinkTypes, ChmodTypes, CrashTypes, StartTypes, HandlerTypes DEF Next

\* Every operation, failure and restart keeps rows, blocks and buffers within
\* the files' limits and numbers within those that exist.
THEOREM TypeCorrect == Spec => []TypeOK
  <1> QED  BY InitTypeInv, StepTypeInv, TypeInvTypes, PTL DEF Spec

-----------------------------------------------------------------------------
(* What an fsync promised                                                   *)
(*                                                                         *)
(* FsyncDurable says of files that were synced; the invariant says what     *)
(* there is of the others: who commits, what the batch still holds of each  *)
(* inode while it is copied, written and cleared, and that a number not yet *)
(* given out has left nothing anywhere.                                     *)

At(i, at) == call[i].kind = "fsync" /\ call[i].at = at
Committing(i) == call[i].kind = "fsync" /\ call[i].at \in {"copy", "flush", "clear"}

\* Redb has what p holds of i.
Absorbed(p, i) == BlocksUnder(p, i, stored[i]) = stored[i] /\ SizeUnder(p, i, rows[i]) = rows[i]

OneCommitter == \A i \in Inos : Committing(i) <=> committer = i
NoneCommits == committer = None => flushing = Empty /\ writing = Empty
CommitterWaits == \A i \in Inos : committer = i => Clean(active, i)
BatchKept ==
    \A i, j \in Inos : At(i, "flush") => SameAt(flushing, writing, j) \/ Clean(flushing, j)
BatchLanded ==
    \A i, j \in Inos : At(i, "clear") /\ rows[j] # None => Absorbed(flushing, j)
Unused ==
    \A i \in Inos : i >= next =>
        /\ rows[i] = None /\ call[i].kind \in {"idle", "fsync"}
        /\ Clean(active, i) /\ Clean(flushing, i) /\ Clean(writing, i)
CommitInv == OneCommitter /\ NoneCommits /\ CommitterWaits /\ BatchKept /\ BatchLanded /\ Unused

PromiseKept ==
    \A i \in Inos : promised[i] # None =>
        Durable(i) = promised[i] /\ Clean(active, i) /\ Clean(flushing, i) /\ Clean(writing, i)

NoChmod == chmod = Idle
SyncInv == TypeInv /\ NoChmod /\ CommitInv /\ PromiseKept

\* SameAt is equality, and what a buffer shows of i depends on its part of i.
LEMMA SameShows ==
    ASSUME NEW p, NEW q, NEW i, SameAt(p, q, i)
    PROVE  /\ SameAt(q, p, i)
           /\ Clean(p, i) <=> Clean(q, i)
           /\ \A below : BlocksUnder(p, i, below) = BlocksUnder(q, i, below)
           /\ \A below : SizeUnder(p, i, below) = SizeUnder(q, i, below)
  BY DEF SameAt, Clean, BlocksUnder, SizeUnder

LEMMA SameAsItself == \A p, i : SameAt(p, p, i)
  BY DEF SameAt

\* A buffer with nothing of i hides nothing.
LEMMA CleanShows ==
    ASSUME NEW p, NEW i \in Inos, Clean(p, i), NEW b \in [Idx(i) -> Blocks], NEW n
    PROVE  BlocksUnder(p, i, b) = b /\ SizeUnder(p, i, n) = n
  <1>1. \A k \in Idx(i) : ~(k >= NoKeep(i))
    BY Limits DEF Idx, NoKeep
  <1>2. BlocksUnder(p, i, b) = [k \in Idx(i) |-> b[k]]
    BY <1>1 DEF Clean, BlocksUnder, NoBlocks
  <1> QED  BY <1>2 DEF Clean, SizeUnder

\* What was put under a buffer's part once is not changed by it again.
LEMMA UnderTwice ==
    ASSUME NEW p, NEW i, NEW b, NEW n
    PROVE  /\ BlocksUnder(p, i, BlocksUnder(p, i, b)) = BlocksUnder(p, i, b)
           /\ SizeUnder(p, i, SizeUnder(p, i, n)) = SizeUnder(p, i, n)
  BY DEF BlocksUnder, SizeUnder

LEMMA CleanAbsorbed ==
    ASSUME TablesOK, NEW p, NEW i \in Inos, Clean(p, i) PROVE Absorbed(p, i)
  BY CleanShows DEF TablesOK, Absorbed

\* With nothing new in active and everything of flushing in redb, readers see
\* what a restart would find.
LEMMA ViewIsDurable ==
    ASSUME TablesOK, NEW i \in Inos, Clean(active, i), rows[i] # None => Absorbed(flushing, i)
    PROVE  View(i) = Durable(i)
  <1>1. CASE rows[i] = None  BY <1>1 DEF View, Durable
  <1>2. CASE rows[i] # None
    <2>1. stored[i] \in [Idx(i) -> Blocks]
      BY DEF TablesOK
    <2>2. Size(i) = rows[i] /\ BlocksUnder(active, i, BlocksUnder(flushing, i, stored[i])) = stored[i]
      BY <1>2, <2>1, CleanShows DEF Absorbed, Size
    <2> QED  BY <1>2, <2>2 DEF View, Durable
  <1> QED  BY <1>1, <1>2

LEMMA InitSyncInv == Init => SyncInv
  <1> SUFFICES ASSUME Init PROVE SyncInv
    OBVIOUS
  <1>1. CommitInv
    <2>1. \A i \in Inos : call[i] = Idle /\ rows[i] = None
      BY DEF Init
    <2>2. OneCommitter /\ BatchKept /\ BatchLanded
      BY <2>1, NoneAssumption DEF Init, OneCommitter, Committing, At, Idle, BatchKept, BatchLanded, Inos
    <2>3. NoneCommits /\ CommitterWaits /\ Unused
      BY <2>1, EmptyBuffer DEF Init, NoneCommits, CommitterWaits, Unused, Idle
    <2> QED  BY <2>2, <2>3 DEF CommitInv
  <1>2. PromiseKept  BY DEF Init, PromiseKept
  <1> QED  BY <1>1, <1>2, InitTypeInv DEF Init, SyncInv, NoChmod

\* A step of a handler that does not commit.
LEMMA WorkerKeeps ==
    ASSUME SyncInv, NEW i \in Inos, ~Committing(i), ~Committing(i)',
           \A j \in Inos : j # i => call'[j] = call[j] /\ SameAt(active', active, j),
           i < next \/ (SameAt(active', active, i) /\ call'[i].kind \in {"idle", "fsync"}),
           UNCHANGED <<rows, stored, next, flushing, committer, writing>>
    PROVE  CommitInv'
  <1>1. OneCommitter' /\ committer # i
    BY DEF SyncInv, CommitInv, OneCommitter, Committing
  <1>2. NoneCommits'
    BY DEF SyncInv, CommitInv, NoneCommits
  <1>3. CommitterWaits'
    BY <1>1, SameShows DEF SyncInv, CommitInv, CommitterWaits
  <1>4. ASSUME NEW j \in Inos, NEW at \in {"copy", "flush", "clear"}, At(j, at)' PROVE At(j, at)
    BY <1>4 DEF At, Committing
  <1>5. BatchKept' /\ BatchLanded'
    BY <1>4 DEF SyncInv, CommitInv, BatchKept, BatchLanded, Absorbed
  <1>6. Unused'
    <2> SUFFICES ASSUME NEW j \in Inos, j >= next
                 PROVE  /\ rows[j] = None /\ call'[j].kind \in {"idle", "fsync"}
                        /\ Clean(active', j) /\ Clean(flushing, j) /\ Clean(writing, j)
      BY DEF Unused
    <2>0. next \in Int /\ j \in Int
      BY DEF SyncInv, TypeInv, TablesOK, Inos
    <2>1. SameAt(active', active, j) /\ call'[j].kind \in {"idle", "fsync"}
      BY <2>0 DEF SyncInv, CommitInv, Unused
    <2> QED  BY <2>1, SameShows DEF SyncInv, CommitInv, Unused
  <1> QED  BY <1>1, <1>2, <1>3, <1>5, <1>6 DEF CommitInv

LEMMA WorkerPromises ==
    ASSUME SyncInv, NEW i \in Inos,
           \A j \in Inos : j # i => SameAt(active', active, j) /\ promised'[j] = promised[j],
           (SameAt(active', active, i) /\ promised'[i] = promised[i]) \/ promised'[i] = None,
           UNCHANGED <<rows, stored, flushing, writing>>
    PROVE  PromiseKept'
  <1> SUFFICES ASSUME NEW j \in Inos, promised'[j] # None
               PROVE  /\ Durable(j) = promised'[j]
                      /\ Clean(active', j) /\ Clean(flushing, j) /\ Clean(writing, j)
    BY DEF PromiseKept, Durable
  <1>1. SameAt(active', active, j) /\ promised'[j] = promised[j]
    OBVIOUS
  <1> QED  BY <1>1, SameShows DEF SyncInv, PromiseKept

\* The start of a handler, and those of its steps that leave the buffers alone.
LEMMA QuietHandler ==
    ASSUME SyncInv, NEW i \in Inos,
           \/ \E first, last \in Idx(i), v \in Vals : StartWrite(i, first, last, v)
           \/ \E n \in 0 .. Limit[i], v \in Vals : StartTruncate(i, n, v)
           \/ \E k \in Idx(i) : ReadBuffers(i, k)
           \/ StartFsync(i) \/ FindSize(i) \/ ReadStored(i)
    PROVE  CommitInv' /\ PromiseKept'
  <1>0. call = [j \in Inos |-> call[j]] /\ next \in Int /\ i \in Int
    BY DEF SyncInv, TypeInv, CallsOK, TablesOK, Inos
  <1>1. UNCHANGED <<rows, stored, next, active, flushing, committer, writing, promised>>
    BY DEF StartWrite, StartTruncate, ReadBuffers, StartFsync, FindSize, ReadStored, Start, db, buffers
  <1>2. ~Committing(i)
    <2>1. call[i] = Idle \/ call[i].kind \in {"write", "truncate", "read"}
      BY DEF StartWrite, StartTruncate, ReadBuffers, StartFsync, FindSize, ReadStored, Start
    <2> QED  BY <2>1 DEF Committing, Idle
  <1>3. ~Committing(i)' /\ \A j \in Inos : j # i => call'[j] = call[j]
    BY <1>0 DEF StartWrite, StartTruncate, ReadBuffers, StartFsync, FindSize, ReadStored, Start,
                Goto, Return, Committing, Idle
  <1>4. i < next \/ call'[i].kind \in {"idle", "fsync"}
    <2>1. CASE StartFsync(i)  BY <1>0, <2>1 DEF StartFsync, Goto
    <2>2. CASE ~StartFsync(i)
      <3>1. rows[i] # None \/ call[i].kind \in {"write", "truncate", "read"}
        BY <2>2 DEF StartWrite, StartTruncate, ReadBuffers, FindSize, ReadStored, Start
      <3> QED  BY <1>0, <3>1 DEF SyncInv, CommitInv, Unused
    <2> QED  BY <2>1, <2>2
  <1>5. \A j \in Inos : SameAt(active', active, j)
    BY <1>1, SameAsItself
  <1>6. CommitInv'  BY <1>1, <1>2, <1>3, <1>4, <1>5, WorkerKeeps
  <1>7. PromiseKept'  BY <1>1, <1>5, WorkerPromises
  <1> QED  BY <1>6, <1>7

LEMMA ChangingHandler ==
    ASSUME SyncInv, NEW i \in Inos, WritePut(i) \/ TruncatePut(i) \/ TruncateDrop(i)
    PROVE  CommitInv' /\ PromiseKept'
  <1>0. /\ call = [j \in Inos |-> call[j]] /\ promised = [j \in Inos |-> promised[j]]
        /\ next \in Int /\ i \in Int /\ Shape(active)
    BY DEF SyncInv, TypeInv, CallsOK, PromisedOK, TablesOK, Inos, BuffersOK, Typed
  <1>1. UNCHANGED <<rows, stored, next, flushing, committer, writing>>
    BY DEF WritePut, TruncatePut, TruncateDrop, db
  <1>2. call[i].kind \in {"write", "truncate"}
    BY DEF WritePut, TruncatePut, TruncateDrop
  <1>3. ~Committing(i)' /\ \A j \in Inos : j # i => call'[j] = call[j]
    <2>1. /\ \A j \in Inos : j # i => call'[j] = call[j]
          /\ call'[i] = Idle \/ call'[i] = [call[i] EXCEPT !.k = @ + 1]
             \/ call'[i] = [call[i] EXCEPT !.at = "drop"]
      BY <1>0 DEF WritePut, TruncatePut, TruncateDrop, Goto, Return
    <2>2. CASE call'[i] = [call[i] EXCEPT !.at = "drop"]
      <3>1. call[i].kind = "truncate" => call[i] \in SizingTruncates(i) \/ call[i] \in CuttingTruncates(i)
        BY CallIs DEF SyncInv, TypeInv, CallsOK
      <3>2. call[i].kind = "write" => call[i] \in SizingWrites(i) \/ call[i] \in PuttingWrites(i)
        BY CallIs DEF SyncInv, TypeInv, CallsOK
      <3>3. call'[i].kind = call[i].kind
        BY <1>2, <2>2, <3>1, <3>2
           DEF SizingTruncates, CuttingTruncates, SizingWrites, PuttingWrites
      <3> QED  BY <1>2, <2>1, <3>3 DEF Committing
    <2>3. CASE call'[i] = [call[i] EXCEPT !.k = @ + 1]
      <3>1. call[i].kind = "truncate" => call[i] \in SizingTruncates(i) \/ call[i] \in CuttingTruncates(i)
        BY CallIs DEF SyncInv, TypeInv, CallsOK
      <3>2. call[i].kind = "write" => call[i] \in SizingWrites(i) \/ call[i] \in PuttingWrites(i)
        BY CallIs DEF SyncInv, TypeInv, CallsOK
      <3>3. call'[i].kind = call[i].kind
        BY <1>2, <2>3, <3>1, <3>2
           DEF SizingTruncates, CuttingTruncates, SizingWrites, PuttingWrites
      <3> QED  BY <1>2, <2>1, <3>3 DEF Committing
    <2> QED  BY <2>1, <2>2, <2>3 DEF Committing, Idle
  <1>4. i < next
    BY <1>0, <1>2 DEF SyncInv, CommitInv, Unused
  <1>5. \A j \in Inos : j # i => SameAt(active', active, j)
    <2>1. \/ \E k, v, size : active' = PutBlock(active, i, k, v, size)
          \/ \E keep, size : active' = TruncateBlocks(active, i, keep, size)
      BY DEF WritePut, TruncatePut, TruncateDrop
    <2>2. ASSUME NEW k, NEW v, NEW size, active' = PutBlock(active, i, k, v, size)
          PROVE  \A j \in Inos : j # i => SameAt(active', active, j)
      BY <1>0, <2>2, PutBlockAt
    <2>3. ASSUME NEW keep, NEW size, active' = TruncateBlocks(active, i, keep, size)
          PROVE  \A j \in Inos : j # i => SameAt(active', active, j)
      BY <1>0, <2>3, TruncateBlocksAt
    <2> QED  BY <2>1, <2>2, <2>3
  <1>6. promised'[i] = None /\ \A j \in Inos : j # i => promised'[j] = promised[j]
    BY <1>0 DEF WritePut, TruncatePut, TruncateDrop, Changed
  <1>7. CommitInv'  BY <1>1, <1>2, <1>3, <1>4, <1>5, WorkerKeeps DEF Committing
  <1>8. PromiseKept'  BY <1>1, <1>5, <1>6, WorkerPromises
  <1> QED  BY <1>7, <1>8

LEMMA SwapKeeps ==
    ASSUME SyncInv, NEW i \in Inos, SwapBuffers(i) PROVE CommitInv' /\ PromiseKept'
  <1>0. /\ call = [j \in Inos |-> call[j]] /\ promised = [j \in Inos |-> promised[j]]
        /\ TablesOK /\ committer = None /\ flushing = Empty /\ writing = Empty /\ CommitInv
    BY DEF SwapBuffers, SyncInv, CommitInv, NoneCommits, TypeInv, CallsOK, PromisedOK
  <1>1. CASE active = Empty
    <2>1. UNCHANGED <<rows, stored, next, active, flushing, committer, writing>>
      BY <1>1 DEF SwapBuffers, db
    <2>2. /\ \A j \in Inos : j # i => call'[j] = call[j] /\ promised'[j] = promised[j]
          /\ call'[i] = Idle /\ promised'[i] = View(i)
      BY <1>0, <1>1 DEF SwapBuffers, Return, FsyncOk
    <2>3. CommitInv'
      BY <1>0, <2>1, <2>2, SameAsItself, WorkerKeeps DEF SwapBuffers, Committing, Idle
    <2>4. View(i) = Durable(i)
      BY <1>0, <1>1, EmptyBuffer, CleanAbsorbed, ViewIsDurable
    <2>5. PromiseKept'
      BY <1>0, <1>1, <2>1, <2>2, <2>4, EmptyBuffer DEF SyncInv, PromiseKept, Durable
    <2> QED  BY <2>3, <2>5
  <1>2. CASE active # Empty
    <2>1. /\ active' = Empty /\ flushing' = active /\ writing' = Empty /\ committer' = i
          /\ UNCHANGED <<rows, stored, next, promised>>
      BY <1>0, <1>2 DEF SwapBuffers, db
    <2>2. /\ \A j \in Inos : j # i => call'[j] = call[j]
          /\ call'[i] = [kind |-> "fsync", at |-> "copy"]
      BY <1>0, <1>2 DEF SwapBuffers, Goto
    <2>3. \A j \in Inos : ~Committing(j)
      BY <1>0, NoneAssumption DEF CommitInv, OneCommitter, Inos
    <2>4. OneCommitter' /\ NoneCommits'
      BY <2>1, <2>2, <2>3, NoneAssumption DEF OneCommitter, NoneCommits, Committing, Inos
    <2>5. CommitterWaits'  BY <2>1, EmptyBuffer DEF CommitterWaits
    <2>6. BatchKept' /\ BatchLanded'
      BY <2>2, <2>3 DEF BatchKept, BatchLanded, At, Committing
    <2>7. Unused'
      BY <1>0, <2>1, <2>2, EmptyBuffer DEF CommitInv, Unused
    <2>8. PromiseKept'
      BY <2>1, EmptyBuffer DEF SyncInv, PromiseKept, Durable
    <2> QED  BY <2>4, <2>5, <2>6, <2>7, <2>8 DEF CommitInv
  <1> QED  BY <1>1, <1>2

\* A handler that commits does so alone: the other inodes' calls stay where
\* they are, and outside a commit.
LEMMA CommitterMoves ==
    ASSUME SyncInv, NEW i \in Inos, Committing(i)
    PROVE  committer = i /\ committer # None /\ \A j \in Inos : j # i => ~Committing(j)
  BY NoneAssumption DEF SyncInv, CommitInv, OneCommitter, Inos

LEMMA CopyKeeps ==
    ASSUME SyncInv, NEW i \in Inos, CopyFlushing(i) PROVE CommitInv' /\ PromiseKept'
  <1>0. call = [j \in Inos |-> call[j]] /\ CommitInv
    BY DEF SyncInv, TypeInv, CallsOK
  <1>1. writing' = flushing /\ UNCHANGED <<rows, stored, next, active, flushing, committer, promised>>
    BY DEF CopyFlushing, db
  <1>2. /\ \A j \in Inos : j # i => call'[j] = call[j]
        /\ call'[i] = [kind |-> "fsync", at |-> "flush"]
    BY <1>0 DEF CopyFlushing, Goto
  <1>3. committer = i /\ committer # None /\ \A j \in Inos : j # i => ~Committing(j)
    BY CommitterMoves DEF CopyFlushing, Committing
  <1>4. OneCommitter' /\ NoneCommits'
    BY <1>1, <1>2, <1>3 DEF OneCommitter, NoneCommits, Committing
  <1>5. CommitterWaits' /\ Unused'
    BY <1>0, <1>1, <1>2 DEF CommitInv, CommitterWaits, Unused
  <1>6. BatchKept' /\ BatchLanded'
    BY <1>1, <1>2, <1>3, SameAsItself DEF BatchKept, BatchLanded, At, Committing
  <1>7. PromiseKept'
    BY <1>1 DEF SyncInv, PromiseKept, Durable
  <1> QED  BY <1>4, <1>5, <1>6, <1>7 DEF CommitInv

LEMMA FlushKeeps ==
    ASSUME SyncInv, NEW i \in Inos, FlushToRedb(i) PROVE CommitInv' /\ PromiseKept'
  <1>0. call = [j \in Inos |-> call[j]] /\ CommitInv /\ TablesOK
    BY DEF SyncInv, TypeInv, CallsOK
  <1>1. UNCHANGED <<next, active, flushing, writing, committer, promised>>
    BY DEF FlushToRedb, buffers
  <1>2. /\ \A j \in Inos : j # i => call'[j] = call[j]
        /\ call'[i] = [kind |-> "fsync", at |-> "clear"]
    BY <1>0 DEF FlushToRedb, Goto
  <1>3. committer = i /\ committer # None /\ \A j \in Inos : j # i => ~Committing(j)
    BY CommitterMoves DEF FlushToRedb, Committing
  <1>4. OneCommitter' /\ NoneCommits' /\ BatchKept'
    BY <1>1, <1>2, <1>3 DEF OneCommitter, NoneCommits, BatchKept, At, Committing
  <1>5. CommitterWaits'
    BY <1>0, <1>1 DEF CommitInv, CommitterWaits
  <1>6. \A j \in Inos : rows'[j] = FlushedSize(j) /\ stored'[j] = FlushedBlocks(j)
    BY DEF FlushToRedb
  <1>7. Unused'
    BY <1>0, <1>1, <1>2, <1>6 DEF CommitInv, Unused, FlushedSize
  <1>8. ASSUME NEW j \in Inos, rows'[j] # None PROVE Absorbed(flushing, j)'
    <2>1. /\ rows[j] # None
          /\ rows'[j] = SizeUnder(writing, j, rows[j])
          /\ stored'[j] = BlocksUnder(writing, j, stored[j])
      BY <1>6, <1>8 DEF FlushedSize, FlushedBlocks
    <2>2. CASE SameAt(flushing, writing, j)
      <3>1. BlocksUnder(flushing, j, stored'[j]) = BlocksUnder(writing, j, stored'[j])
            /\ SizeUnder(flushing, j, rows'[j]) = SizeUnder(writing, j, rows'[j])
        BY <2>2, SameShows
      <3> QED  BY <1>1, <2>1, <3>1, UnderTwice DEF Absorbed
    <2>3. CASE Clean(flushing, j)
      <3>1. stored'[j] \in [Idx(j) -> Blocks]
        BY FlushTypes DEF SyncInv
      <3>2. BlocksUnder(flushing, j, stored'[j]) = stored'[j]
            /\ SizeUnder(flushing, j, rows'[j]) = rows'[j]
        BY <2>3, <3>1, CleanShows
      <3> QED  BY <1>1, <3>2 DEF Absorbed
    <2> QED  BY <1>0, <2>2, <2>3 DEF FlushToRedb, At, CommitInv, BatchKept
  <1>9. BatchLanded'
    BY <1>8 DEF BatchLanded
  <1>10. ASSUME NEW j \in Inos, Clean(writing, j) PROVE rows'[j] = rows[j] /\ stored'[j] = stored[j]
    BY <1>0, <1>6, <1>10, CleanShows DEF FlushedSize, FlushedBlocks, TablesOK
  <1>11. PromiseKept'
    BY <1>1, <1>10 DEF SyncInv, PromiseKept, Durable
  <1> QED  BY <1>4, <1>5, <1>7, <1>9, <1>11 DEF CommitInv

\* The end of a commit, as far as both ends go.
LEMMA CommitEnds ==
    ASSUME SyncInv, NEW i \in Inos, Committing(i), Return(i),
           committer' = None, flushing' = Empty, writing' = Empty,
           UNCHANGED <<rows, stored, next>>,
           \A j \in Inos : Clean(active, j) /\ Clean(flushing, j) => Clean(active', j)
    PROVE  CommitInv'
  <1>0. call = [j \in Inos |-> call[j]] /\ CommitInv
    BY DEF SyncInv, TypeInv, CallsOK
  <1>1. call'[i] = Idle /\ \A j \in Inos : j # i => call'[j] = call[j] /\ ~Committing(j)
    BY <1>0, CommitterMoves DEF Return
  <1>2. \A j \in Inos : ~Committing(j)'
    BY <1>1 DEF Committing, Idle
  <1>3. OneCommitter' /\ NoneCommits' /\ CommitterWaits' /\ BatchKept' /\ BatchLanded'
    BY <1>2, NoneAssumption DEF OneCommitter, NoneCommits, CommitterWaits, BatchKept, BatchLanded,
       At, Committing, Inos
  <1>4. Unused'
    BY <1>0, <1>1, EmptyBuffer DEF CommitInv, Unused, Idle
  <1> QED  BY <1>3, <1>4 DEF CommitInv

LEMMA CleanMerge ==
    ASSUME NEW p, NEW f, NEW j \in Inos, Clean(p, j), Clean(f, j) PROVE Clean(Merged(p, f), j)
  <1> DEFINE q == Merged(p, f)
  <1>1. /\ q.blocks[j] = [k \in Idx(j) |->
             IF p.blocks[j][k] # None THEN p.blocks[j][k]
             ELSE IF k < p.keeps[j] THEN f.blocks[j][k] ELSE None]
        /\ q.sizes[j] = IF p.sizes[j] # None THEN p.sizes[j] ELSE f.sizes[j]
        /\ q.keeps[j] = IF p.keeps[j] # NoKeep(j) THEN p.keeps[j] ELSE f.keeps[j]
    BY MergedAt
  <1> HIDE DEF q
  <1>2. Clean(q, j)  BY <1>1 DEF Clean, NoBlocks
  <1> QED  BY <1>2 DEF q

LEMMA FlushFailsKeeps ==
    ASSUME SyncInv, NEW i \in Inos, FlushFails(i) PROVE CommitInv' /\ PromiseKept'
  <1>1. \A j \in Inos : Clean(active, j) /\ Clean(flushing, j) => Clean(active', j)
    BY CleanMerge DEF FlushFails
  <1>2. CommitInv'
    BY <1>1, CommitEnds DEF FlushFails, Committing, db
  <1>3. PromiseKept'
    BY <1>1, EmptyBuffer DEF FlushFails, db, SyncInv, PromiseKept, Durable
  <1> QED  BY <1>2, <1>3

LEMMA ClearKeeps ==
    ASSUME SyncInv, NEW i \in Inos, ClearFlushing(i) PROVE CommitInv' /\ PromiseKept'
  <1>0. promised = [j \in Inos |-> promised[j]] /\ TablesOK /\ CommitInv
    BY DEF SyncInv, TypeInv, PromisedOK
  <1>1. CommitInv'
    BY CommitEnds DEF ClearFlushing, Committing, db
  <1>2. Clean(active, i) /\ (rows[i] # None => Absorbed(flushing, i))
    BY <1>0, CommitterMoves DEF ClearFlushing, Committing, At, CommitInv, CommitterWaits, BatchLanded
  <1>3. promised'[i] = Durable(i)
    BY <1>0, <1>2, ViewIsDurable DEF ClearFlushing, FsyncOk
  <1>4. \A j \in Inos : j # i => promised'[j] = promised[j]
    BY <1>0 DEF ClearFlushing, FsyncOk
  <1>5. PromiseKept'
    BY <1>2, <1>3, <1>4, EmptyBuffer DEF ClearFlushing, db, SyncInv, PromiseKept, Durable
  <1> QED  BY <1>1, <1>5

\* Steps without an inode's lock.

LEMMA CreateKeeps == ASSUME SyncInv, Create PROVE CommitInv' /\ PromiseKept'
  <1>0. TablesOK /\ CommitInv /\ next \in Inos /\ next \in Int /\ rows[next] = None
    BY DEF SyncInv, TypeInv, TablesOK, CommitInv, Unused, Create
  <1>1. UNCHANGED <<stored, active, flushing, committer, writing, call, promised>>
    BY DEF Create, buffers
  <1>2. /\ next' = next + 1 /\ rows'[next] = 0
        /\ \A j \in Inos : j # next => rows'[j] = rows[j]
    BY <1>0 DEF Create, TablesOK, RowsOK
  <1>3. OneCommitter' /\ NoneCommits' /\ CommitterWaits' /\ BatchKept'
    BY <1>0, <1>1 DEF CommitInv, OneCommitter, NoneCommits, CommitterWaits, BatchKept, Committing, At
  <1>4. ASSUME NEW j \in Inos, Absorbed(flushing, j) \/ j = next PROVE Absorbed(flushing, j)'
    <2>1. CASE j = next
      <3>1. Clean(flushing, j) /\ stored[j] \in [Idx(j) -> Blocks]
        BY <1>0, <2>1 DEF TablesOK, CommitInv, Unused
      <3> QED  BY <1>1, <3>1, CleanShows DEF Absorbed
    <2>2. CASE j # next
      BY <1>1, <1>2, <1>4, <2>2 DEF Absorbed
    <2> QED  BY <2>1, <2>2
  <1>5. BatchLanded'
    BY <1>0, <1>1, <1>2, <1>4 DEF CommitInv, BatchLanded, At
  <1>6. Unused'
    <2>1. ASSUME NEW j \in Inos, j >= next' PROVE j >= next /\ j # next
      BY <1>0, <1>2, <2>1 DEF Inos
    <2> QED  BY <1>0, <1>1, <1>2, <2>1 DEF CommitInv, Unused
  <1>7. promised[next] = None
    BY <1>0 DEF SyncInv, PromiseKept, Durable
  <1>8. PromiseKept'
    BY <1>1, <1>2, <1>7 DEF SyncInv, PromiseKept, Durable
  <1> QED  BY <1>3, <1>5, <1>6, <1>8 DEF CommitInv

LEMMA DeleteRowSyncs ==
    ASSUME SyncInv, NEW i \in Inos, DeleteRow(i), UNCHANGED <<buffers, call>>
    PROVE  CommitInv' /\ PromiseKept'
  <1>0. TablesOK /\ CommitInv /\ promised = [j \in Inos |-> promised[j]]
    BY DEF SyncInv, TypeInv, PromisedOK
  <1>1. UNCHANGED <<next, active, flushing, committer, writing, call>>
    BY DEF DeleteRow, buffers
  <1>2. /\ rows'[i] = None /\ promised'[i] = None
        /\ \A j \in Inos : j # i =>
             rows'[j] = rows[j] /\ stored'[j] = stored[j] /\ promised'[j] = promised[j]
    BY <1>0 DEF DeleteRow, Changed, TablesOK, RowsOK
  <1>3. OneCommitter' /\ NoneCommits' /\ CommitterWaits' /\ BatchKept'
    BY <1>0, <1>1 DEF CommitInv, OneCommitter, NoneCommits, CommitterWaits, BatchKept, Committing, At
  <1>4. BatchLanded'
    BY <1>0, <1>1, <1>2 DEF CommitInv, BatchLanded, At, Absorbed
  <1>5. Unused'
    BY <1>0, <1>1, <1>2 DEF CommitInv, Unused
  <1>6. PromiseKept'
    BY <1>1, <1>2 DEF SyncInv, PromiseKept, Durable
  <1> QED  BY <1>3, <1>4, <1>5, <1>6 DEF CommitInv

LEMMA DropPendingKeeps ==
    ASSUME SyncInv, NEW i \in Inos, DropPending(i), UNCHANGED <<db, call, promised>>
    PROVE  CommitInv' /\ PromiseKept'
  <1>0. TablesOK /\ CommitInv /\ Shape(active) /\ Shape(flushing)
    BY DEF SyncInv, TypeInv, BuffersOK, Typed
  <1>1. UNCHANGED <<rows, stored, next, committer, writing, call, promised>>
    BY DEF DropPending, db
  <1>2. /\ Shape(active') /\ Clean(active', i) /\ \A j \in Inos : j # i => SameAt(active', active, j)
        /\ Shape(flushing') /\ Clean(flushing', i)
        /\ \A j \in Inos : j # i => SameAt(flushing', flushing, j)
    BY <1>0, ForgottenAt DEF DropPending
  <1>3. \A j \in Inos : /\ Clean(active, j) => Clean(active', j)
                        /\ Clean(flushing, j) => Clean(flushing', j)
    BY <1>2, SameShows
  <1>4. OneCommitter' /\ CommitterWaits'
    BY <1>0, <1>1, <1>3 DEF CommitInv, OneCommitter, CommitterWaits, Committing
  <1>5. NoneCommits'
    <2> SUFFICES ASSUME committer = None PROVE flushing' = Empty
      BY <1>0, <1>1 DEF CommitInv, NoneCommits
    <2>1. \A j \in Inos : Clean(flushing', j)
      BY <1>0, <1>3, EmptyBuffer DEF CommitInv, NoneCommits
    <2> QED  BY <1>2, <2>1, AllCleanIsEmpty
  <1>6. BatchKept'
    <2> SUFFICES ASSUME NEW c \in Inos, NEW j \in Inos, At(c, "flush")
                 PROVE  SameAt(flushing', writing, j) \/ Clean(flushing', j)
      BY <1>1 DEF BatchKept, At
    <2>1. SameAt(flushing, writing, j) \/ Clean(flushing, j)
      BY <1>0 DEF CommitInv, BatchKept
    <2> QED  BY <1>2, <1>3, <2>1 DEF SameAt
  <1>7. BatchLanded'
    <2> SUFFICES ASSUME NEW c \in Inos, NEW j \in Inos, At(c, "clear"), rows[j] # None
                 PROVE  Absorbed(flushing, j)'
      BY <1>1 DEF BatchLanded, At
    <2>1. CASE j = i
      <3>1. stored[j] \in [Idx(j) -> Blocks]
        BY <1>0 DEF TablesOK
      <3> QED  BY <1>1, <1>2, <2>1, <3>1, CleanShows DEF Absorbed
    <2>2. CASE j # i
      BY <1>0, <1>1, <1>2, <2>2, SameShows DEF CommitInv, BatchLanded, Absorbed
    <2> QED  BY <2>1, <2>2
  <1>8. Unused'
    BY <1>0, <1>1, <1>3 DEF CommitInv, Unused
  <1>9. PromiseKept'
    BY <1>1, <1>3 DEF SyncInv, PromiseKept, Durable
  <1> QED  BY <1>4, <1>5, <1>6, <1>7, <1>8, <1>9 DEF CommitInv

LEMMA UnlinkKeeps ==
    ASSUME SyncInv,
           \/ \E i \in Inos : UnlinkBegin(i) \/ UnlinkEnd(i) \/ Replace(i)
           \/ Unlinker
    PROVE  CommitInv' /\ PromiseKept'
  <1>1. ASSUME NEW i \in Inos, UnlinkBegin(i) \/ UnlinkEnd(i) PROVE CommitInv' /\ PromiseKept'
    BY <1>1, DropPendingKeeps DEF UnlinkBegin, UnlinkEnd
  <1>2. ASSUME NEW i \in Inos, Replace(i) PROVE CommitInv' /\ PromiseKept'
    BY <1>2, DeleteRowSyncs DEF Replace
  <1>3. CASE UnlinkCommit
    BY <1>3, DeleteRowSyncs DEF UnlinkCommit, SyncInv, TypeInv, TablesOK
  <1>4. CASE UnlinkFails
    BY <1>4 DEF UnlinkFails, db, buffers, SyncInv, CommitInv, OneCommitter, NoneCommits, CommitterWaits,
                BatchKept, BatchLanded, Unused, PromiseKept, Committing, At, Absorbed, Durable
  <1> QED  BY <1>1, <1>2, <1>3, <1>4 DEF Unlinker

LEMMA CrashKeeps == ASSUME SyncInv, Crash PROVE CommitInv' /\ PromiseKept'
  <1>1. /\ active' = Empty /\ flushing' = Empty /\ writing' = Empty /\ committer' = None
        /\ \A i \in Inos : call'[i] = Idle
        /\ UNCHANGED <<rows, stored, promised>>
    BY DEF Crash
  <1>2. \A i \in Inos : ~Committing(i)'
    BY <1>1 DEF Committing, Idle
  <1>3. OneCommitter' /\ NoneCommits' /\ CommitterWaits' /\ BatchKept' /\ BatchLanded'
    BY <1>1, <1>2, NoneAssumption DEF OneCommitter, NoneCommits, CommitterWaits, BatchKept,
       BatchLanded, Committing, At, Inos
  <1>4. Unused'
    BY <1>1, NextAfterCrash, EmptyBuffer DEF Unused, Idle
  <1>5. PromiseKept'
    BY <1>1, EmptyBuffer DEF SyncInv, PromiseKept, Durable
  <1> QED  BY <1>3, <1>4, <1>5 DEF CommitInv

LEMMA StepSyncInv ==
    ASSUME "chmod" \notin Ops PROVE SyncInv /\ [Next]_vars => SyncInv'
  <1> SUFFICES ASSUME SyncInv, [Next]_vars PROVE SyncInv'
    OBVIOUS
  <1>1. TypeInv'  BY StepTypeInv DEF SyncInv
  <1>2. chmod.kind \notin {"row", "attr"} /\ \A i : ~ChmodRow(i)
    BY DEF SyncInv, NoChmod, Idle, ChmodRow
  <1>3. NoChmod'
    <2>1. ASSUME NEW i \in Inos, Handler(i) PROVE chmod' = chmod
      BY <2>1 DEF Handler, Flush, FindSize, WritePut, TruncatePut, TruncateDrop, ReadStored,
         SwapBuffers, CopyFlushing, FlushToRedb, FlushFails, ClearFlushing
    <2>2. ASSUME NEW i \in Inos,
                 \/ \E first, last \in Idx(i), v \in Vals : StartWrite(i, first, last, v)
                 \/ \E n \in 0 .. Limit[i], v \in Vals : StartTruncate(i, n, v)
                 \/ \E k \in Idx(i) : ReadBuffers(i, k)
                 \/ StartFsync(i) \/ UnlinkBegin(i) \/ UnlinkEnd(i) \/ Replace(i)
          PROVE  chmod' = chmod
      BY <2>2 DEF StartWrite, StartTruncate, ReadBuffers, Start, StartFsync, UnlinkBegin, UnlinkEnd,
         Replace
    <2>3. ASSUME Create \/ Unlinker \/ UNCHANGED vars PROVE chmod' = chmod
      BY <2>3 DEF Create, Unlinker, UnlinkCommit, UnlinkFails, vars
    <2>4. ASSUME Crash PROVE chmod' = Idle
      BY <2>4 DEF Crash
    <2> QED
      BY <1>2, <2>1, <2>2, <2>3, <2>4 DEF SyncInv, NoChmod, Next, ChmodSize, ChmodWrite
  <1>4. CommitInv' /\ PromiseKept'
    <2>1. CASE UNCHANGED vars
      BY <2>1 DEF vars, SyncInv, CommitInv, OneCommitter, NoneCommits, CommitterWaits, BatchKept,
                  BatchLanded, Unused, PromiseKept, Committing, At, Absorbed, Durable
    <2>2. CASE \E i \in Inos : Handler(i)
      BY <2>2, QuietHandler, ChangingHandler, SwapKeeps, CopyKeeps, FlushKeeps, FlushFailsKeeps,
         ClearKeeps DEF Handler, Flush
    <2> QED
      BY <1>2, <2>1, <2>2, CreateKeeps, UnlinkKeeps, CrashKeeps, QuietHandler
         DEF Next, ChmodSize, ChmodWrite
  <1> QED  BY <1>1, <1>3, <1>4 DEF SyncInv

\* What was written before an fsync that succeeded is what a restart finds,
\* until the file is changed or removed: whichever inode's commit wrote it,
\* whatever failed since.  A setattr of attributes is left out: it writes back
\* a size that may be older than the fsync.
THEOREM SyncedIsDurable ==
    ASSUME "chmod" \notin Ops PROVE Spec => []FsyncDurable
  <1>1. SyncInv => FsyncDurable
    BY DEF SyncInv, PromiseKept, FsyncDurable
  <1> QED  BY <1>1, InitSyncInv, StepSyncInv, PTL DEF Spec

-----------------------------------------------------------------------------
(* Reads that have left the buffers' lock                                   *)

ReadSilent ==
    \A i \in Inos : call[i].kind = "read" =>
        Silent(active, i, call[i].k) /\ Silent(flushing, i, call[i].k)

LEMMA CleanIsSilent ==
    ASSUME NEW p, NEW i \in Inos, Clean(p, i), NEW k \in Idx(i) PROVE Silent(p, i, k)
  BY Limits DEF Clean, Silent, NoBlocks, NoKeep, Idx

LEMMA SilentMerge ==
    ASSUME NEW p, NEW f, NEW i \in Inos, NEW k \in Idx(i), Silent(p, i, k), Silent(f, i, k)
    PROVE  Silent(Merged(p, f), i, k)
  <1> DEFINE q == Merged(p, f)
  <1>1. /\ q.blocks[i] = [m \in Idx(i) |->
             IF p.blocks[i][m] # None THEN p.blocks[i][m]
             ELSE IF m < p.keeps[i] THEN f.blocks[i][m] ELSE None]
        /\ q.keeps[i] = IF p.keeps[i] # NoKeep(i) THEN p.keeps[i] ELSE f.keeps[i]
    BY MergedAt
  <1> HIDE DEF q
  <1>2. Silent(q, i, k)  BY <1>1 DEF Silent
  <1> QED  BY <1>2 DEF q

\* Both buffers stay silent on what is being read.
LEMMA ReadsStay ==
    ASSUME ReadSilent, CallsOK,
           \A j \in Inos : call'[j].kind = "read" =>
             /\ call'[j] = call[j]
             /\ \A k \in Idx(j) : Silent(active, j, k) /\ Silent(flushing, j, k) =>
                                  Silent(active, j, k)' /\ Silent(flushing, j, k)'
    PROVE  ReadSilent'
  <1> SUFFICES ASSUME NEW i \in Inos, call'[i].kind = "read"
               PROVE  Silent(active', i, call'[i].k) /\ Silent(flushing', i, call'[i].k)
    BY DEF ReadSilent, Silent
  <1>1. call[i] = call'[i] /\ call[i] \in Calls(i) /\ call[i].kind = "read"
    BY DEF CallsOK
  <1>2. call[i] \in Reads(i)  BY <1>1, CallIs
  <1>3. call[i].k \in Idx(i)  BY <1>2 DEF Reads
  <1>4. Silent(active, i, call[i].k) /\ Silent(flushing, i, call[i].k)
    BY <1>1 DEF ReadSilent
  <1> QED  BY <1>1, <1>3, <1>4 DEF Silent

LEMMA HandlerReads ==
    ASSUME TypeInv, ReadSilent, NEW i \in Inos, Handler(i) PROVE ReadSilent'
  <1>0. CallsOK /\ call = [j \in Inos |-> call[j]] /\ Shape(active)
    BY DEF TypeInv, CallsOK, BuffersOK, Typed
  <1>1. ASSUME UNCHANGED <<active, flushing>>,
               \A j \in Inos : call'[j].kind = "read" => call'[j] = call[j]
        PROVE  ReadSilent'
    BY <1>0, <1>1, ReadsStay DEF Silent
  <1>2. CASE ReadStored(i) \/ CopyFlushing(i) \/ FlushToRedb(i)
    BY <1>0, <1>1, <1>2 DEF ReadStored, CopyFlushing, FlushToRedb, Return, Goto, Idle, buffers
  <1>3. CASE FindSize(i)
    <2>1. /\ \A j \in Inos : j # i => call'[j] = call[j]
          /\ call'[i] = Idle \/ call'[i].kind \in {"write", "truncate"}
      BY <1>0, <1>3 DEF FindSize, Return, Goto
    <2> QED  BY <1>1, <1>3, <2>1 DEF FindSize, Idle, buffers
  <1>4. CASE WritePut(i) \/ TruncatePut(i) \/ TruncateDrop(i)
    <2>1. call[i].kind \in {"write", "truncate"}
      BY <1>4 DEF WritePut, TruncatePut, TruncateDrop
    <2>2. call[i] \in SizingWrites(i) \/ call[i] \in PuttingWrites(i)
          \/ call[i] \in SizingTruncates(i) \/ call[i] \in CuttingTruncates(i)
      BY <1>0, <2>1, CallIs DEF CallsOK
    <2>3. /\ \A j \in Inos : j # i => call'[j] = call[j]
          /\ call'[i] = Idle \/ call'[i] = [call[i] EXCEPT !.k = @ + 1]
             \/ call'[i] = [call[i] EXCEPT !.at = "drop"]
      BY <1>0, <1>4 DEF WritePut, TruncatePut, TruncateDrop, Goto, Return
    <2>4. call'[i].kind # "read"
      <3>1. CASE call'[i] = Idle  BY <3>1 DEF Idle
      <3>2. CASE call'[i] = [call[i] EXCEPT !.k = @ + 1]
        <4>1. call'[i].kind = call[i].kind
          BY <2>2, <3>2 DEF SizingWrites, PuttingWrites, SizingTruncates, CuttingTruncates
        <4> QED  BY <2>1, <4>1
      <3>3. CASE call'[i] = [call[i] EXCEPT !.at = "drop"]
        <4>1. call'[i].kind = call[i].kind
          BY <2>2, <3>3 DEF SizingWrites, PuttingWrites, SizingTruncates, CuttingTruncates
        <4> QED  BY <2>1, <4>1
      <3> QED  BY <2>3, <3>1, <3>2, <3>3
    <2>5. \/ \E k, v, size : active' = PutBlock(active, i, k, v, size)
          \/ \E keep, size : active' = TruncateBlocks(active, i, keep, size)
      BY <1>4 DEF WritePut, TruncatePut, TruncateDrop
    <2>6. ASSUME NEW k, NEW v, NEW size, active' = PutBlock(active, i, k, v, size)
          PROVE  \A j \in Inos : j # i => SameAt(active', active, j)
      BY <1>0, <2>6, PutBlockAt
    <2>7. ASSUME NEW keep, NEW size, active' = TruncateBlocks(active, i, keep, size)
          PROVE  \A j \in Inos : j # i => SameAt(active', active, j)
      BY <1>0, <2>7, TruncateBlocksAt
    <2>8. \A j \in Inos : j # i => SameAt(active', active, j)
      BY <2>5, <2>6, <2>7
    <2>9. flushing' = flushing
      BY <1>4 DEF WritePut, TruncatePut, TruncateDrop
    <2> QED  BY <1>0, <2>3, <2>4, <2>8, <2>9, ReadsStay DEF SameAt, Silent
  <1>5. CASE SwapBuffers(i)
    <2>1. \A j \in Inos : call'[j].kind = "read" => call'[j] = call[j]
      BY <1>0, <1>5 DEF SwapBuffers, Return, Goto, Idle
    <2>2. (active' = active /\ flushing' = flushing) \/ (active' = flushing /\ flushing' = active)
      BY <1>5 DEF SwapBuffers
    <2> QED  BY <1>0, <2>1, <2>2, ReadsStay DEF Silent
  <1>6. CASE FlushFails(i)
    <2>1. \A j \in Inos : call'[j].kind = "read" => call'[j] = call[j]
      BY <1>0, <1>6 DEF FlushFails, Return, Idle
    <2>2. \A j \in Inos : \A k \in Idx(j) : Silent(Empty, j, k)
      BY EmptyBuffer, CleanIsSilent
    <2>3. active' = Merged(active, flushing) /\ flushing' = Empty
      BY <1>6 DEF FlushFails
    <2>4. \A j \in Inos : \A k \in Idx(j) :
            Silent(active, j, k) /\ Silent(flushing, j, k) =>
            Silent(active', j, k) /\ Silent(flushing', j, k)
      BY <2>2, <2>3, SilentMerge
    <2> QED  BY <1>0, <2>1, <2>4, ReadsStay DEF Silent
  <1>7. CASE ClearFlushing(i)
    <2>1. \A j \in Inos : call'[j].kind = "read" => call'[j] = call[j]
      BY <1>0, <1>7 DEF ClearFlushing, Return, Idle
    <2>2. \A j \in Inos : \A k \in Idx(j) : Silent(Empty, j, k)
      BY EmptyBuffer, CleanIsSilent
    <2> QED  BY <1>0, <1>7, <2>1, <2>2, ReadsStay DEF ClearFlushing, Silent
  <1> QED  BY <1>2, <1>3, <1>4, <1>5, <1>6, <1>7 DEF Handler, Flush

LEMMA StepReadSilent == TypeInv /\ ReadSilent /\ [Next]_vars => ReadSilent'
  <1> SUFFICES ASSUME TypeInv, ReadSilent, [Next]_vars PROVE ReadSilent'
    OBVIOUS
  <1>0. CallsOK /\ call = [j \in Inos |-> call[j]] /\ Shape(active) /\ Shape(flushing)
    BY DEF TypeInv, CallsOK, BuffersOK, Typed
  <1>1. ASSUME UNCHANGED <<active, flushing, call>> PROVE ReadSilent'
    BY <1>1 DEF ReadSilent, Silent
  <1>2. ASSUME NEW i \in Inos,
               \/ \E first, last \in Idx(i), v \in Vals : StartWrite(i, first, last, v)
               \/ \E n \in 0 .. Limit[i], v \in Vals : StartTruncate(i, n, v)
               \/ StartFsync(i)
        PROVE  ReadSilent'
    <2>1. UNCHANGED <<active, flushing>> /\ \A j \in Inos : j # i => call'[j] = call[j]
      BY <1>0, <1>2 DEF StartWrite, StartTruncate, StartFsync, Start, Goto, buffers
    <2>2. call'[i].kind \in {"write", "truncate", "fsync"}
      BY <1>0, <1>2 DEF StartWrite, StartTruncate, StartFsync, Start, Goto
    <2> QED  BY <1>0, <2>1, <2>2, ReadsStay DEF Silent
  <1>3. ASSUME NEW i \in Inos, NEW k \in Idx(i), ReadBuffers(i, k) PROVE ReadSilent'
    <2>1. /\ UNCHANGED <<active, flushing>> /\ \A j \in Inos : j # i => call'[j] = call[j]
          /\ call'[i] = [kind |-> "read", k |-> k]
      BY <1>0, <1>3 DEF ReadBuffers, Start, Goto, buffers
    <2>2. Silent(active, i, k) /\ Silent(flushing, i, k)
      BY <1>3 DEF ReadBuffers, Silent
    <2> QED  BY <2>1, <2>2 DEF ReadSilent, Silent
  <1>4. ASSUME NEW i \in Inos, UnlinkBegin(i) \/ UnlinkEnd(i) PROVE ReadSilent'
    <2>1. call' = call /\ active' = Forgotten(active, i) /\ flushing' = Forgotten(flushing, i)
      BY <1>4 DEF UnlinkBegin, UnlinkEnd, DropPending
    <2>2. /\ Clean(active', i) /\ \A j \in Inos : j # i => SameAt(active', active, j)
          /\ Clean(flushing', i) /\ \A j \in Inos : j # i => SameAt(flushing', flushing, j)
      BY <1>0, <2>1, ForgottenAt
    <2>3. \A j \in Inos : \A k \in Idx(j) :
            Silent(active, j, k) /\ Silent(flushing, j, k) =>
            Silent(active', j, k) /\ Silent(flushing', j, k)
      BY <2>2, CleanIsSilent DEF SameAt, Silent
    <2> QED  BY <1>0, <2>1, <2>3, ReadsStay DEF Silent
  <1>5. CASE Crash
    BY <1>5 DEF Crash, ReadSilent, Idle
  <1>6. CASE UNCHANGED vars \/ Create \/ Unlinker \/ ChmodSize \/ ChmodWrite
             \/ \E i \in Inos : Replace(i) \/ ChmodRow(i)
    BY <1>1, <1>6 DEF vars, Create, Unlinker, UnlinkCommit, UnlinkFails, ChmodSize, ChmodWrite, Replace,
                      ChmodRow, buffers
  <1> QED
    BY <1>2, <1>3, <1>4, <1>5, <1>6, HandlerReads DEF Next

LEMMA SilentReads ==
    ASSUME TypeInv, ReadSilent PROVE ReadThrough
  <1> SUFFICES ASSUME NEW i \in Inos, call[i].kind = "read"
               PROVE  stored[i][call[i].k] = Block(i, call[i].k)
    BY DEF ReadThrough
  <1>1. call[i] \in Reads(i)  BY CallIs DEF TypeInv, CallsOK
  <1>2. call[i].k \in Idx(i)  BY <1>1 DEF Reads
  <1>3. /\ TypedAt(active, i) /\ TypedAt(flushing, i)
        /\ Silent(active, i, call[i].k) /\ Silent(flushing, i, call[i].k)
    BY DEF ReadSilent, TypeInv, BuffersOK, Typed
  <1>4. call[i].k \in Int /\ active.keeps[i] \in Int /\ flushing.keeps[i] \in Int
    BY <1>2, <1>3 DEF TypedAt, Idx
  <1> QED  BY <1>2, <1>3, <1>4 DEF Block, BlocksUnder, Silent

\* A read that found nothing in the buffers and goes on to redb without their
\* lock returns the current block, whatever was committed, removed or merged
\* back in between.
THEOREM ReadsThrough == Spec => []ReadThrough
  <1>1. Init => ReadSilent
    BY DEF Init, ReadSilent, Idle
  <1> QED  BY <1>1, InitTypeInv, StepTypeInv, StepReadSilent, SilentReads, PTL DEF Spec

-----------------------------------------------------------------------------
(* ContainerBuffer implements WriteBackStore, for any number of inodes and   *)
(* blocks.  Three operations are left out because the code with them does    *)
(* not: truncations other than to zero, whose pending parts a failed commit  *)
(* merges wrongly; a setattr of attributes, which writes an older size; and  *)
(* an unlink whose transaction fails after it dropped the pending data.      *)
(*                                                                           *)
(* RefInv adds to the invariants above what the mapping needs: truncations   *)
(* are to zero, so a merge loses none (KeepsAllOrNone); what is being        *)
(* written is what readers see (BatchWhole).                                 *)

\* All truncations are to zero.
TruncatesEmpty == \A i \in Inos : call[i].kind = "truncate" => call[i].n = 0
KeepsAllOrNone ==
    \A i \in Inos : /\ active.keeps[i] \in {0, NoKeep(i)} /\ flushing.keeps[i] \in {0, NoKeep(i)}
                    /\ writing.keeps[i] \in {0, NoKeep(i)}

\* What is written is what readers see, of all files that stay.
BatchWhole ==
    \A i, j \in Inos : At(i, "flush") /\ rows[j] # None /\ removing # j =>
        SameAt(flushing, writing, j)
RemovedHasRow == removing # None => rows[removing] # None

RefInv == SyncInv /\ TruncatesEmpty /\ KeepsAllOrNone /\ BatchWhole /\ RemovedHasRow

LEMMA InitRefInv == Init => RefInv
  <1> SUFFICES ASSUME Init PROVE RefInv
    OBVIOUS
  <1>1. TruncatesEmpty /\ BatchWhole /\ RemovedHasRow
    BY DEF Init, TruncatesEmpty, BatchWhole, RemovedHasRow, At, Idle
  <1>2. KeepsAllOrNone
    BY EmptyBuffer DEF Init, KeepsAllOrNone, Clean
  <1> QED  BY <1>1, <1>2, InitSyncInv DEF RefInv

LEMMA EmptyKeeps == \A i \in Inos : Empty.keeps[i] = NoKeep(i)
  BY EmptyBuffer DEF Clean

\* The calls that begin, go on and end: truncations stay those to zero.
LEMMA TruncatesStay ==
    ASSUME RefInv, "cut" \notin Ops, "grow" \notin Ops, Next PROVE TruncatesEmpty'
  <1>0. CallsOK /\ call = [j \in Inos |-> call[j]] /\ TruncatesEmpty
    BY DEF RefInv, SyncInv, TypeInv, CallsOK
  <1>1. ASSUME \A j \in Inos : call'[j] = call[j] \/ call'[j].kind # "truncate"
                               \/ call'[j].n = 0
        PROVE  TruncatesEmpty'
    BY <1>0, <1>1 DEF TruncatesEmpty
  <1>2. ASSUME NEW i \in Inos, NEW n \in 0 .. Limit[i], NEW v \in Vals, StartTruncate(i, n, v)
        PROVE  TruncatesEmpty'
    <2>1. n = 0
      BY <1>2, Limits DEF StartTruncate
    <2> QED  BY <1>0, <1>1, <1>2, <2>1 DEF StartTruncate, Start, Goto
  <1>3. ASSUME NEW i \in Inos,
               \/ \E first, last \in Idx(i), v \in Vals : StartWrite(i, first, last, v)
               \/ \E k \in Idx(i) : ReadBuffers(i, k)
               \/ StartFsync(i)
        PROVE  TruncatesEmpty'
    BY <1>0, <1>1, <1>3 DEF StartWrite, ReadBuffers, StartFsync, Start, Goto
  <1>4. ASSUME NEW i \in Inos, Handler(i) PROVE TruncatesEmpty'
    <2>1. CASE call[i].kind = "truncate"
      <3>1. call[i] \in SizingTruncates(i) \/ call[i] \in CuttingTruncates(i)
        BY <1>0, <2>1, CallIs DEF CallsOK
      <3>2. call[i].n = 0  BY <1>0, <2>1 DEF TruncatesEmpty
      <3>3. /\ \A j \in Inos : j # i => call'[j] = call[j]
            /\ call'[i].kind # "truncate" \/ call'[i].n = 0
        BY <1>0, <1>4, <2>1, <3>1, <3>2
           DEF Handler, Flush, FindSize, WritePut, TruncatePut, TruncateDrop, ReadStored, SwapBuffers,
               CopyFlushing, FlushToRedb, FlushFails, ClearFlushing, Return, Goto, Idle,
               SizingTruncates, CuttingTruncates
      <3> QED  BY <1>1, <3>3
    <2>2. CASE call[i].kind = "write"
      <3>1. call[i] \in SizingWrites(i) \/ call[i] \in PuttingWrites(i)
        BY <1>0, <2>2, CallIs DEF CallsOK
      <3>2. FindSize(i) \/ WritePut(i)
        BY <1>4, <2>2 DEF Handler, Flush, TruncatePut, TruncateDrop, ReadStored, SwapBuffers,
               CopyFlushing, FlushToRedb, FlushFails, ClearFlushing
      <3>3. /\ \A j \in Inos : j # i => call'[j] = call[j]
            /\ call'[i].kind # "truncate"
        BY <1>0, <2>2, <3>1, <3>2
           DEF FindSize, WritePut, Return, Goto, Idle, SizingWrites, PuttingWrites
      <3> QED  BY <1>1, <3>3
    <2>3. CASE call[i].kind \notin {"truncate", "write"}
      <3>1. /\ \A j \in Inos : j # i => call'[j] = call[j]
            /\ call'[i].kind # "truncate"
        BY <1>0, <1>4, <2>3
           DEF Handler, Flush, FindSize, WritePut, TruncatePut, TruncateDrop, ReadStored, SwapBuffers,
               CopyFlushing, FlushToRedb, FlushFails, ClearFlushing, Return, Goto, Idle
      <3> QED  BY <1>1, <3>1
    <2> QED  BY <2>1, <2>2, <2>3
  <1>5. CASE Crash
    BY <1>5, <1>1 DEF Crash, Idle
  <1>6. CASE Create \/ Unlinker \/ ChmodSize \/ ChmodWrite
             \/ \E i \in Inos : UnlinkBegin(i) \/ UnlinkEnd(i) \/ Replace(i) \/ ChmodRow(i)
    BY <1>1, <1>6 DEF Create, Unlinker, UnlinkCommit, UnlinkFails, ChmodSize, ChmodWrite, UnlinkBegin,
                      UnlinkEnd, Replace, ChmodRow
  <1> QED  BY <1>2, <1>3, <1>4, <1>5, <1>6 DEF Next

\* What every step does to a buffer's truncations: none, one to zero, or those
\* of another buffer.
LEMMA KeepsStay ==
    ASSUME RefInv, Next PROVE KeepsAllOrNone'
  <1>0. KeepsAllOrNone /\ Shape(active) /\ Shape(flushing) /\ CallsOK /\ TruncatesEmpty
    BY DEF RefInv, SyncInv, TypeInv, BuffersOK, Typed
  <1>1. ASSUME \A j \in Inos : active'.keeps[j] \in {0, active.keeps[j]},
               UNCHANGED <<flushing, writing>>
        PROVE  KeepsAllOrNone'
    BY <1>0, <1>1 DEF KeepsAllOrNone
  <1>2. ASSUME NEW i \in Inos, WritePut(i) \/ TruncatePut(i) PROVE KeepsAllOrNone'
    <2>1. PICK k, v, size : active' = PutBlock(active, i, k, v, size)
      BY <1>2 DEF WritePut, TruncatePut
    <2>2. /\ Shape(active')
          /\ \A j \in Inos : j # i => SameAt(active', active, j)
          /\ active'.blocks[i] = [m \in Idx(i) |-> IF m = k THEN v ELSE active.blocks[i][m]]
          /\ active'.sizes[i] = size /\ active'.keeps[i] = active.keeps[i]
      BY <1>0, <2>1, PutBlockAt
    <2>3. \A j \in Inos : active'.keeps[j] = active.keeps[j]
      BY <2>2 DEF SameAt
    <2> QED  BY <1>1, <1>2, <2>3 DEF WritePut, TruncatePut
  <1>3. ASSUME NEW i \in Inos, TruncateDrop(i) PROVE KeepsAllOrNone'
    <2>1. call[i] \in CuttingTruncates(i) /\ call[i].n = 0
      BY <1>0, <1>3, CallIs DEF TruncateDrop, CallsOK, SizingTruncates, TruncatesEmpty
    <2>2. call[i].old \in Nat
      BY <2>1 DEF CuttingTruncates, Sizes
    <2>3. active' = TruncateBlocks(active, i, 0, call[i].n)
      BY <1>3, <2>1, <2>2 DEF TruncateDrop
    <2>4. /\ Shape(active')
          /\ \A j \in Inos : j # i => SameAt(active', active, j)
          /\ active'.blocks[i] = [k \in Idx(i) |-> IF k < 0 THEN active.blocks[i][k] ELSE None]
          /\ active'.sizes[i] = call[i].n
          /\ active'.keeps[i] = IF 0 < active.keeps[i] THEN 0 ELSE active.keeps[i]
      BY <1>0, <2>3, TruncateBlocksAt
    <2>5. \A j \in Inos : active'.keeps[j] \in {0, active.keeps[j]}
      BY <2>4 DEF SameAt
    <2> QED  BY <1>1, <1>3, <2>5 DEF TruncateDrop
  <1>4. ASSUME NEW i \in Inos, SwapBuffers(i) \/ CopyFlushing(i) PROVE KeepsAllOrNone'
    BY <1>0, <1>4 DEF SwapBuffers, CopyFlushing, KeepsAllOrNone
  <1>5. ASSUME NEW i \in Inos, FlushFails(i) \/ ClearFlushing(i) PROVE KeepsAllOrNone'
    <2> DEFINE q == Merged(active, flushing)
    <2>0. /\ Shape(q)
          /\ \A j \in Inos :
               /\ q.blocks[j] = [k \in Idx(j) |->
                    IF active.blocks[j][k] # None THEN active.blocks[j][k]
                    ELSE IF k < active.keeps[j] THEN flushing.blocks[j][k] ELSE None]
               /\ q.sizes[j] = IF active.sizes[j] # None THEN active.sizes[j] ELSE flushing.sizes[j]
               /\ q.keeps[j] = IF active.keeps[j] # NoKeep(j) THEN active.keeps[j]
                              ELSE flushing.keeps[j]
      BY MergedAt
    <2>1. \A j \in Inos : q.keeps[j] \in {0, NoKeep(j)}
      <3> HIDE DEF q
      <3> QED  BY <1>0, <2>0 DEF KeepsAllOrNone
    <2> QED  BY <1>0, <1>5, <2>1, EmptyKeeps DEF FlushFails, ClearFlushing, KeepsAllOrNone
  <1>6. ASSUME NEW i \in Inos, UnlinkBegin(i) \/ UnlinkEnd(i) PROVE KeepsAllOrNone'
    <2>1. \A j \in Inos : /\ Forgotten(active, i).keeps[j] \in {NoKeep(j), active.keeps[j]}
                          /\ Forgotten(flushing, i).keeps[j] \in {NoKeep(j), flushing.keeps[j]}
      BY <1>0, ForgottenAt DEF Clean, SameAt
    <2> QED  BY <1>0, <1>6, <2>1 DEF UnlinkBegin, UnlinkEnd, DropPending, KeepsAllOrNone
  <1>7. CASE Crash
    BY <1>7, EmptyKeeps DEF Crash, KeepsAllOrNone
  <1>8. ASSUME UNCHANGED <<active, flushing, writing>> PROVE KeepsAllOrNone'
    BY <1>0, <1>8 DEF KeepsAllOrNone
  <1>9. ASSUME NEW i \in Inos,
               \/ \E first, last \in Idx(i), v \in Vals : StartWrite(i, first, last, v)
               \/ \E n \in 0 .. Limit[i], v \in Vals : StartTruncate(i, n, v)
               \/ \E k \in Idx(i) : ReadBuffers(i, k)
               \/ StartFsync(i) \/ FindSize(i) \/ ReadStored(i) \/ FlushToRedb(i) \/ Replace(i)
               \/ ChmodRow(i)
        PROVE  KeepsAllOrNone'
    BY <1>8, <1>9 DEF StartWrite, StartTruncate, ReadBuffers, StartFsync, Start, FindSize, ReadStored,
       FlushToRedb, Replace, ChmodRow, buffers
  <1>10. CASE Create \/ Unlinker \/ ChmodSize \/ ChmodWrite
    BY <1>8, <1>10 DEF Create, Unlinker, UnlinkCommit, UnlinkFails, ChmodSize, ChmodWrite, buffers
  <1> QED
    BY <1>2, <1>3, <1>4, <1>5, <1>6, <1>7, <1>9, <1>10 DEF Next, Handler, Flush

\* Which commits are at which step.
LEMMA AtFlush ==
    ASSUME SyncInv, NEW i \in Inos, At(i, "flush") PROVE committer = i /\ committer # None
  BY CommitterMoves DEF At, Committing

LEMMA BatchStays ==
    ASSUME RefInv, "unlink" \notin Faults, "chmod" \notin Ops, Next
    PROVE  BatchWhole' /\ RemovedHasRow'
  <1>0. /\ call = [j \in Inos |-> call[j]] /\ BatchWhole /\ RemovedHasRow /\ TablesOK
        /\ Shape(active) /\ Shape(flushing) /\ CommitInv
    BY DEF RefInv, SyncInv, TypeInv, CallsOK, BuffersOK, Typed
  <1>1. ASSUME UNCHANGED <<rows, removing, flushing, writing>>,
               \A j \in Inos : At(j, "flush")' => At(j, "flush")
        PROVE  BatchWhole' /\ RemovedHasRow'
    BY <1>0, <1>1 DEF BatchWhole, RemovedHasRow, SameAt
  <1>2. ASSUME NEW i \in Inos,
               \/ \E first, last \in Idx(i), v \in Vals : StartWrite(i, first, last, v)
               \/ \E n \in 0 .. Limit[i], v \in Vals : StartTruncate(i, n, v)
               \/ \E k \in Idx(i) : ReadBuffers(i, k)
               \/ StartFsync(i)
        PROVE  BatchWhole' /\ RemovedHasRow'
    <2>1. UNCHANGED <<rows, removing, flushing, writing>>
      BY <1>2 DEF StartWrite, StartTruncate, ReadBuffers, StartFsync, Start, db, buffers
    <2>2. /\ \A j \in Inos : j # i => call'[j] = call[j]
          /\ call'[i].kind \in {"write", "truncate", "read"} \/ call'[i].at = "lock"
      BY <1>0, <1>2 DEF StartWrite, StartTruncate, ReadBuffers, StartFsync, Start, Goto
    <2> QED  BY <1>1, <2>1, <2>2 DEF At
  <1>3. ASSUME NEW i \in Inos, FindSize(i) \/ ReadStored(i) PROVE BatchWhole' /\ RemovedHasRow'
    <2>1. UNCHANGED <<rows, removing, flushing, writing>>
      BY <1>3 DEF FindSize, ReadStored, db, buffers
    <2>2. /\ \A j \in Inos : j # i => call'[j] = call[j]
          /\ call'[i] = Idle \/ call'[i].kind \in {"write", "truncate"}
      BY <1>0, <1>3 DEF FindSize, ReadStored, Goto, Return
    <2> QED  BY <1>1, <2>1, <2>2 DEF At, Idle
  <1>4. ASSUME NEW i \in Inos, WritePut(i) \/ TruncatePut(i) \/ TruncateDrop(i)
        PROVE  BatchWhole' /\ RemovedHasRow'
    <2>1. UNCHANGED <<rows, removing, flushing, writing>>
      BY <1>4 DEF WritePut, TruncatePut, TruncateDrop, db
    <2>2. CommitInv' /\ committer' = committer /\ ~Committing(i)
      BY <1>4, ChangingHandler DEF RefInv, WritePut, TruncatePut, TruncateDrop, Committing
    <2>3. ~Committing(i)'
      BY <1>0, <2>2 DEF CommitInv, OneCommitter
    <2>4. \A j \in Inos : j # i => call'[j] = call[j]
      BY <1>0, <1>4 DEF WritePut, TruncatePut, TruncateDrop, Goto, Return
    <2> QED  BY <1>1, <2>1, <2>3, <2>4 DEF At, Committing
  <1>5. ASSUME NEW i \in Inos, SwapBuffers(i) PROVE BatchWhole' /\ RemovedHasRow'
    <2>1. \A j \in Inos : ~Committing(j)
      BY <1>0, <1>5, NoneAssumption DEF SwapBuffers, CommitInv, OneCommitter, Inos
    <2>2. \A j \in Inos : ~At(j, "flush")'
      BY <1>0, <1>5, <2>1 DEF SwapBuffers, At, Committing, Goto, Return, Idle
    <2> QED  BY <1>0, <1>5, <2>2 DEF SwapBuffers, db, BatchWhole, RemovedHasRow
  <1>6. ASSUME NEW i \in Inos, CopyFlushing(i) PROVE BatchWhole' /\ RemovedHasRow'
    BY <1>0, <1>6, SameAsItself DEF CopyFlushing, db, BatchWhole, RemovedHasRow
  <1>7. ASSUME NEW i \in Inos, FlushToRedb(i) \/ FlushFails(i) \/ ClearFlushing(i)
        PROVE  BatchWhole' /\ RemovedHasRow'
    <2>1. \A j \in Inos : j # i => ~Committing(j)
      BY <1>7, CommitterMoves DEF RefInv, FlushToRedb, FlushFails, ClearFlushing, Committing
    <2>2. \A j \in Inos : ~At(j, "flush")'
      BY <1>0, <1>7, <2>1 DEF FlushToRedb, FlushFails, ClearFlushing, At, Committing, Goto, Return, Idle
    <2>3. removing' = removing /\ (removing # None => rows'[removing] = rows[removing])
      BY <1>7 DEF FlushToRedb, FlushFails, ClearFlushing, db
    <2> QED  BY <1>0, <2>2, <2>3 DEF BatchWhole, RemovedHasRow
  <1>8. CASE Create
    <2>1. /\ UNCHANGED <<flushing, writing, call, removing>> /\ removing = None
          /\ \A j \in Inos : j # next => rows'[j] = rows[j]
      BY <1>0, <1>8 DEF Create, buffers, TablesOK, RowsOK
    <2>2. next \in Inos => SameAt(flushing, writing, next)
      BY <1>0 DEF CommitInv, Unused, TablesOK, Clean, SameAt, Inos
    <2> QED  BY <1>0, <2>1, <2>2 DEF BatchWhole, RemovedHasRow, At, SameAt
  <1>9. ASSUME NEW i \in Inos, UnlinkBegin(i) PROVE BatchWhole' /\ RemovedHasRow'
    <2>1. /\ removing = None /\ removing' = i /\ rows[i] # None
          /\ UNCHANGED <<rows, call, writing>> /\ flushing' = Forgotten(flushing, i)
      BY <1>9 DEF UnlinkBegin, DropPending, db
    <2>2. \A j \in Inos : j # i => SameAt(flushing', flushing, j)
      BY <1>0, <2>1, ForgottenAt
    <2>3. i # None  BY NoneAssumption DEF Inos
    <2>4. \A j \in Inos : removing # j  BY <2>1, NoneAssumption DEF Inos
    <2> QED  BY <1>0, <2>1, <2>2, <2>3, <2>4 DEF BatchWhole, RemovedHasRow, At, SameAt
  <1>10. ASSUME NEW i \in Inos, UnlinkEnd(i) PROVE BatchWhole' /\ RemovedHasRow'
    <2>1. /\ rows[i] = None /\ UNCHANGED <<rows, call, writing, removing>>
          /\ flushing' = Forgotten(flushing, i)
      BY <1>10 DEF UnlinkEnd, DropPending, db
    <2>2. \A j \in Inos : j # i => SameAt(flushing', flushing, j)
      BY <1>0, <2>1, ForgottenAt
    <2> QED  BY <1>0, <2>1, <2>2 DEF BatchWhole, RemovedHasRow, At, SameAt
  <1>11. CASE UnlinkCommit \/ \E i \in Inos : Replace(i)
    <2>1. PICK i \in Inos : /\ DeleteRow(i) /\ UNCHANGED <<buffers, call>>
                            /\ removing' = None /\ (removing = None \/ removing = i)
      BY <1>0, <1>11 DEF UnlinkCommit, Replace, TablesOK
    <2>2. /\ rows'[i] = None /\ \A j \in Inos : j # i => rows'[j] = rows[j]
          /\ UNCHANGED <<flushing, writing>>
      BY <1>0, <2>1 DEF DeleteRow, TablesOK, RowsOK, buffers
    <2> QED  BY <1>0, <2>1, <2>2 DEF BatchWhole, RemovedHasRow, At, SameAt
  <1>12. CASE Crash
    BY <1>12 DEF Crash, BatchWhole, RemovedHasRow, At, Idle
  <1>13. chmod = Idle /\ ~UnlinkFails
    BY DEF RefInv, SyncInv, NoChmod, UnlinkFails
  <1> QED
    BY <1>2, <1>3, <1>4, <1>5, <1>6, <1>7, <1>8, <1>9, <1>10, <1>11, <1>12, <1>13
       DEF Next, Handler, Flush, Unlinker, ChmodRow, ChmodSize, ChmodWrite, Idle

LEMMA StepRefInv ==
    ASSUME Ops \cap {"cut", "grow", "chmod"} = {}, "unlink" \notin Faults
    PROVE  RefInv /\ [Next]_vars => RefInv'
  <1> SUFFICES ASSUME RefInv, [Next]_vars PROVE RefInv'
    OBVIOUS
  <1>1. SyncInv'  BY StepSyncInv DEF RefInv
  <1>2. CASE Next
    BY <1>1, <1>2, TruncatesStay, KeepsStay, BatchStays DEF RefInv
  <1>3. CASE UNCHANGED vars
    BY <1>1, <1>3 DEF vars, RefInv, TruncatesEmpty, KeepsAllOrNone, BatchWhole, RemovedHasRow, At, SameAt
  <1> QED  BY <1>2, <1>3

-----------------------------------------------------------------------------
(* Every step is one of WriteBackStore, or changes nothing it shows         *)

\* What readers see of i, and the batch under way.
Shown(i) == BlocksUnder(active, i, BlocksUnder(flushing, i, stored[i]))
Copied  == [j \in Inos |-> InFlight(j, flushing)]
Written == [j \in Inos |-> InFlight(j, writing)]

LEMMA ViewIs ==
    \A i : View(i) = IF rows[i] = None THEN None ELSE File(Size(i), Shown(i))
  BY DEF View, Shown

LEMMA ViewSame ==
    ASSUME NEW i, rows'[i] = rows[i], removing' = i <=> removing = i,
           rows[i] # None => Size(i)' = Size(i) /\ Shown(i)' = Shown(i)
    PROVE  ViewOrGone(i)' = ViewOrGone(i)
  <1>1. View(i)' = IF rows'[i] = None THEN None ELSE File(Size(i)', Shown(i)')
    BY DEF View, Shown
  <1> QED  BY <1>1, ViewIs DEF ViewOrGone

LEMMA FileIsContents ==
    ASSUME NEW i \in Inos, NEW n \in Sizes(i), NEW b \in [Idx(i) -> Blocks]
    PROVE  File(n, b) \in Contents
  <1>1. n \in UNION {0 .. Limit[j] : j \in Inos}
    BY DEF Sizes
  <1>2. \A k \in 1 .. n : k - 1 \in Idx(i)
    BY Limits DEF Sizes, Idx
  <1>3. File(n, b) \in [1 .. n -> Vals \cup {None}]
    BY <1>2 DEF File, Blocks
  <1> QED  BY <1>1, <1>3 DEF Contents

LEMMA NoneApart == None \notin Contents /\ None \notin [Inos -> Contents \cup {None}]
  BY NoneAssumption

\* None is no file and no batch of files.
LEMMA ViewIsContents ==
    ASSUME TypeInv, NEW i \in Inos
    PROVE  /\ rows[i] # None => View(i) \in Contents /\ Durable(i) \in Contents
           /\ rows[i] = None => View(i) = None /\ Durable(i) = None
           /\ \A p : Typed(p) => InFlight(i, p) \in Contents \cup {None}
  <1>1. rows[i] \in Sizes(i) \cup {None} /\ stored[i] \in [Idx(i) -> Blocks]
    BY DEF TypeInv, TablesOK
  <1>2. CASE rows[i] # None
    <2>1. Shown(i) \in [Idx(i) -> Blocks]
      BY BlockFound DEF TypeInv, Shown
    <2>2. Size(i) \in Sizes(i)
      BY <1>1, <1>2, SizeFound DEF TypeInv, Size
    <2>3. View(i) \in Contents /\ Durable(i) \in Contents
      BY <1>1, <1>2, <2>1, <2>2, ViewIs, FileIsContents DEF Durable
    <2>4. ASSUME NEW p, Typed(p) PROVE InFlight(i, p) \in Contents \cup {None}
      <3>1. TypedAt(p, i)  BY <2>4 DEF Typed
      <3>2. SizeUnder(p, i, rows[i]) \in Sizes(i) /\ BlocksUnder(p, i, stored[i]) \in [Idx(i) -> Blocks]
        BY <1>1, <1>2, <3>1, SizeUnderTyped, BlocksUnderTyped
      <3> QED  BY <3>2, FileIsContents DEF InFlight
    <2> QED  BY <1>2, <2>3, <2>4
  <1>3. CASE rows[i] = None  BY <1>3 DEF View, Durable, InFlight
  <1> QED  BY <1>2, <1>3

LEMMA BatchIs ==
    /\ (\E i \in Inos : At(i, "copy")) => Batch = Copied
    /\ (\E i \in Inos : At(i, "flush")) /\ (\A i \in Inos : ~At(i, "copy")) => Batch = Written
    /\ (\A i \in Inos : ~At(i, "copy") /\ ~At(i, "flush")) => Batch = None
  BY DEF Batch, At, Copied, Written

LEMMA BatchThen ==
    /\ (\E i \in Inos : At(i, "copy")') => Batch' = Copied'
    /\ (\E i \in Inos : At(i, "flush")') /\ (\A i \in Inos : ~At(i, "copy")') => Batch' = Written'
    /\ (\A i \in Inos : ~At(i, "copy")' /\ ~At(i, "flush")') => Batch' = None
  BY DEF Batch, At, Copied, Written

\* The batch of the inode that commits.
LEMMA BatchOf ==
    ASSUME SyncInv, NEW i \in Inos, Committing(i)
    PROVE  /\ At(i, "copy") => Batch = Copied
           /\ At(i, "flush") => Batch = Written
           /\ At(i, "clear") => Batch = None
  <1>1. \A j \in Inos : j # i => ~Committing(j)
    BY CommitterMoves
  <1> QED  BY <1>1, BatchIs DEF At, Committing

LEMMA BatchIsSomething ==
    ASSUME TypeInv PROVE Copied # None /\ Written # None
  <1>1. Copied \in [Inos -> Contents \cup {None}]
    BY ViewIsContents DEF TypeInv, BuffersOK, Copied
  <1>2. Written \in [Inos -> Contents \cup {None}]
    BY ViewIsContents DEF TypeInv, BuffersOK, Written
  <1> QED  BY <1>1, <1>2, NoneApart

\* Where nothing moves: steps that leave redb and the commits alone.
LEMMA BatchSame ==
    ASSUME UNCHANGED <<rows, stored, removing, flushing, writing>>,
           \A j \in Inos : \A at \in {"copy", "flush"} : At(j, at)' <=> At(j, at)
    PROVE  Batch' = Batch
  <1>1. Copied' = Copied /\ Written' = Written
    BY DEF Copied, Written, InFlight
  <1>2. CASE \E i \in Inos : At(i, "copy")
    BY <1>1, <1>2, BatchIs, BatchThen
  <1>3. CASE (\E i \in Inos : At(i, "flush")) /\ \A i \in Inos : ~At(i, "copy")
    BY <1>1, <1>3, BatchIs, BatchThen
  <1>4. CASE \A i \in Inos : ~At(i, "copy") /\ ~At(i, "flush")
    BY <1>1, <1>4, BatchIs, BatchThen
  <1> QED  BY <1>2, <1>3, <1>4

Mapped == <<[i \in Inos |-> ViewOrGone(i)], Batch, [i \in Inos |-> Durable(i)]>>

LEMMA Stutters ==
    ASSUME \A i \in Inos : ViewOrGone(i)' = ViewOrGone(i) /\ Durable(i)' = Durable(i), Batch' = Batch
    PROVE  UNCHANGED Mapped
  BY DEF Mapped

LEMMA QuietMaps ==
    ASSUME RefInv, NEW i \in Inos,
           \/ \E first, last \in Idx(i), v \in Vals : StartWrite(i, first, last, v)
           \/ \E n \in 0 .. Limit[i], v \in Vals : StartTruncate(i, n, v)
           \/ \E k \in Idx(i) : ReadBuffers(i, k)
           \/ StartFsync(i) \/ FindSize(i) \/ ReadStored(i)
    PROVE  UNCHANGED Mapped
  <1>0. call = [j \in Inos |-> call[j]]
    BY DEF RefInv, SyncInv, TypeInv, CallsOK
  <1>1. UNCHANGED <<rows, stored, removing, active, flushing, writing>>
    BY DEF StartWrite, StartTruncate, ReadBuffers, StartFsync, FindSize, ReadStored, Start, db, buffers
  <1>2. call[i] = Idle \/ call[i].kind \in {"write", "truncate", "read"}
    BY DEF StartWrite, StartTruncate, ReadBuffers, StartFsync, FindSize, ReadStored, Start
  <1>3. /\ \A j \in Inos : j # i => call'[j] = call[j]
        /\ call'[i] = Idle \/ call'[i].kind \in {"write", "truncate", "read"} \/ call'[i].at = "lock"
    BY <1>0 DEF StartWrite, StartTruncate, ReadBuffers, StartFsync, FindSize, ReadStored, Start,
                Goto, Return
  <1>4. Batch' = Batch
    BY <1>1, <1>2, <1>3, BatchSame DEF At, Idle
  <1>5. \A j \in Inos : ViewOrGone(j)' = ViewOrGone(j) /\ Durable(j)' = Durable(j)
    BY <1>1, ViewSame DEF Size, Shown, Durable
  <1> QED  BY <1>4, <1>5, Stutters

LEMMA ChangeMaps ==
    ASSUME RefInv, TypeInv', NEW i \in Inos, WritePut(i) \/ TruncatePut(i) \/ TruncateDrop(i)
    PROVE  Promise!Change(i) \/ UNCHANGED Mapped
  <1>0. call = [j \in Inos |-> call[j]] /\ CommitInv /\ CommitInv'
    BY ChangingHandler DEF RefInv, SyncInv, TypeInv, CallsOK
  <1>1. UNCHANGED <<rows, stored, removing, flushing, writing, committer>>
    BY DEF WritePut, TruncatePut, TruncateDrop, db
  <1>2. \A j \in Inos : j # i => call'[j] = call[j]
    BY <1>0 DEF WritePut, TruncatePut, TruncateDrop, Goto, Return
  <1>3. ~Committing(i) /\ ~Committing(i)'
    BY <1>0, <1>1 DEF WritePut, TruncatePut, TruncateDrop, Committing, CommitInv, OneCommitter
  <1>4. Batch' = Batch
    BY <1>1, <1>2, <1>3, BatchSame DEF At, Committing
  <1>5. \A j \in Inos : Durable(j)' = Durable(j)
    BY <1>1 DEF Durable
  <1>6. \A j \in Inos : j # i => SameAt(active', active, j)
    <2>0. Shape(active)
      BY DEF RefInv, SyncInv, TypeInv, BuffersOK, Typed
    <2>1. \/ \E k, v, size : active' = PutBlock(active, i, k, v, size)
          \/ \E keep, size : active' = TruncateBlocks(active, i, keep, size)
      BY DEF WritePut, TruncatePut, TruncateDrop
    <2>2. ASSUME NEW k, NEW v, NEW size, active' = PutBlock(active, i, k, v, size)
          PROVE  \A j \in Inos : j # i => SameAt(active', active, j)
      BY <2>0, <2>2, PutBlockAt
    <2>3. ASSUME NEW keep, NEW size, active' = TruncateBlocks(active, i, keep, size)
          PROVE  \A j \in Inos : j # i => SameAt(active', active, j)
      BY <2>0, <2>3, TruncateBlocksAt
    <2> QED  BY <2>1, <2>2, <2>3
  <1>7. \A j \in Inos : j # i => ViewOrGone(j)' = ViewOrGone(j)
    BY <1>1, <1>6, SameShows, ViewSame DEF Size, Shown
  <1>8. CASE rows[i] = None \/ removing = i
    <2>1. ViewOrGone(i)' = ViewOrGone(i)
      BY <1>1, <1>8, ViewSame DEF ViewOrGone
    <2> QED  BY <1>4, <1>5, <1>7, <2>1, Stutters
  <1>9. CASE rows[i] # None /\ removing # i
    <2>1. ViewOrGone(i) # None
      BY <1>9, ViewIsContents, NoneApart DEF ViewOrGone, RefInv, SyncInv
    <2>2. ViewOrGone(i)' \in Contents
      <3>1. Shown(i)' \in [Idx(i) -> Blocks] /\ Size(i)' \in Sizes(i)
        <4>1. /\ TypedAt(active', i) /\ TypedAt(flushing', i) /\ rows'[i] \in Sizes(i)
              /\ stored'[i] \in [Idx(i) -> Blocks]
          BY <1>1, <1>9 DEF TypeInv, BuffersOK, TablesOK, Typed
        <4>2. BlocksUnder(flushing', i, stored'[i]) \in [Idx(i) -> Blocks]
              /\ SizeUnder(flushing', i, rows'[i]) \in Sizes(i)
          BY <4>1, BlocksUnderTyped, SizeUnderTyped
        <4> QED  BY <4>1, <4>2, BlocksUnderTyped, SizeUnderTyped DEF Shown, Size
      <3>2. View(i)' = File(Size(i)', Shown(i)')
        BY <1>1, <1>9 DEF View, Shown
      <3> QED  BY <1>1, <1>9, <3>1, <3>2, FileIsContents DEF ViewOrGone
    <2>3. [j \in Inos |-> ViewOrGone(j)]' =
            [[j \in Inos |-> ViewOrGone(j)] EXCEPT ![i] = ViewOrGone(i)']
      BY <1>7
    <2> QED  BY <1>4, <1>5, <2>1, <2>2, <2>3 DEF Promise!Change
  <1> QED  BY <1>8, <1>9

\* Taking both layers in the other order changes nothing when one is empty.
LEMMA SwapMaps ==
    ASSUME RefInv, NEW i \in Inos, SwapBuffers(i) PROVE Promise!Take \/ UNCHANGED Mapped
  <1>0. /\ call = [j \in Inos |-> call[j]] /\ CommitInv /\ TypeInv
        /\ committer = None /\ flushing = Empty
    BY DEF SwapBuffers, RefInv, SyncInv, CommitInv, NoneCommits, TypeInv, CallsOK
  <1>1. UNCHANGED <<rows, stored, removing, writing>>
    BY DEF SwapBuffers, db
  <1>2. \A j \in Inos : ~Committing(j)
    BY <1>0, NoneAssumption DEF CommitInv, OneCommitter, Inos
  <1>3. Batch = None
    BY <1>2, BatchIs DEF At, Committing
  <1>4. CASE active = Empty
    <2>1. UNCHANGED <<active, flushing>> /\ call'[i] = Idle
          /\ \A j \in Inos : j # i => call'[j] = call[j]
      BY <1>0, <1>4 DEF SwapBuffers, Return
    <2>2. Batch' = Batch
      BY <1>1, <1>2, <2>1, BatchSame DEF At, Committing, Idle
    <2>3. \A j \in Inos : ViewOrGone(j)' = ViewOrGone(j) /\ Durable(j)' = Durable(j)
      BY <1>1, <2>1, ViewSame DEF Size, Shown, Durable
    <2> QED  BY <2>2, <2>3, Stutters
  <1>5. CASE active # Empty
    <2>1. active' = Empty /\ flushing' = active /\ call'[i] = [kind |-> "fsync", at |-> "copy"]
      BY <1>0, <1>5 DEF SwapBuffers, Goto
    <2>2. Batch' = Copied'
      BY <2>1, BatchThen DEF At
    <2>3. ASSUME NEW j \in Inos
          PROVE  /\ ViewOrGone(j)' = ViewOrGone(j) /\ Durable(j)' = Durable(j)
                 /\ InFlight(j, flushing)' = ViewOrGone(j)
      <3>1. stored[j] \in [Idx(j) -> Blocks] /\ TypedAt(active, j)
        BY <1>0 DEF TypeInv, TablesOK, BuffersOK, Typed
      <3>2. BlocksUnder(active, j, stored[j]) \in [Idx(j) -> Blocks]
        BY <3>1, BlocksUnderTyped
      <3>3. Clean(Empty, j)  BY EmptyBuffer
      <3>4. /\ Shown(j) = BlocksUnder(active, j, stored[j])
            /\ Size(j) = SizeUnder(active, j, rows[j])
        BY <1>0, <3>1, <3>3, CleanShows DEF Shown, Size
      <3>5. /\ Shown(j)' = BlocksUnder(active, j, stored[j])
            /\ Size(j)' = SizeUnder(active, j, rows[j])
        BY <1>1, <2>1, <3>2, <3>3, CleanShows DEF Shown, Size
      <3>6. ViewOrGone(j)' = ViewOrGone(j)
        BY <1>1, <3>4, <3>5, ViewSame
      <3>7. InFlight(j, flushing)' = ViewOrGone(j)
        BY <1>1, <2>1, <3>4, ViewIs DEF InFlight, ViewOrGone
      <3> QED  BY <1>1, <3>6, <3>7 DEF Durable
    <2>4. Copied' = [j \in Inos |-> ViewOrGone(j)]
      BY <2>3 DEF Copied
    <2> QED  BY <1>3, <2>2, <2>3, <2>4 DEF Promise!Take
  <1> QED  BY <1>4, <1>5

LEMMA CopyMaps ==
    ASSUME RefInv, NEW i \in Inos, CopyFlushing(i) PROVE UNCHANGED Mapped
  <1>0. call = [j \in Inos |-> call[j]] /\ SyncInv
    BY DEF RefInv, SyncInv, TypeInv, CallsOK
  <1>1. /\ UNCHANGED <<rows, stored, removing, active, flushing>> /\ writing' = flushing
        /\ At(i, "copy") /\ Committing(i)
    BY DEF CopyFlushing, db, At, Committing
  <1>2. call'[i] = [kind |-> "fsync", at |-> "flush"] /\ \A j \in Inos : j # i => call'[j] = call[j]
    BY <1>0 DEF CopyFlushing, Goto
  <1>3. \A j \in Inos : j # i => ~Committing(j)
    BY <1>0, <1>1, CommitterMoves
  <1>4. Batch = Copied /\ Batch' = Written'
    BY <1>0, <1>1, <1>2, <1>3, BatchOf, BatchThen DEF At, Committing
  <1>5. Written' = Copied
    BY <1>1 DEF Written, Copied, InFlight
  <1>6. \A j \in Inos : ViewOrGone(j)' = ViewOrGone(j) /\ Durable(j)' = Durable(j)
    BY <1>1, ViewSame DEF Size, Shown, Durable
  <1> QED  BY <1>4, <1>5, <1>6, Stutters

LEMMA LandMaps ==
    ASSUME RefInv, TypeInv', NEW i \in Inos, FlushToRedb(i) PROVE Promise!Land
  <1>0. call = [j \in Inos |-> call[j]] /\ SyncInv /\ TypeInv /\ CommitInv'
    BY FlushKeeps DEF RefInv, SyncInv, TypeInv, CallsOK
  <1>1. /\ UNCHANGED <<removing, active, flushing, writing>> /\ removing = None
        /\ At(i, "flush") /\ Committing(i)
        /\ \A j \in Inos : rows'[j] = FlushedSize(j) /\ stored'[j] = FlushedBlocks(j)
    BY DEF FlushToRedb, buffers, At, Committing
  <1>2. call'[i] = [kind |-> "fsync", at |-> "clear"] /\ \A j \in Inos : j # i => call'[j] = call[j]
    BY <1>0 DEF FlushToRedb, Goto
  <1>3. \A j \in Inos : j # i => ~Committing(j)
    BY <1>0, <1>1, CommitterMoves
  <1>4. Batch = Written /\ Batch' = None /\ Batch # None
    BY <1>0, <1>1, <1>2, <1>3, BatchOf, BatchThen, BatchIsSomething DEF At, Committing
  <1>5. ASSUME NEW j \in Inos
        PROVE  /\ ViewOrGone(j)' = ViewOrGone(j)
               /\ Durable(j)' = IF Written[j] = None THEN Durable(j) ELSE Written[j]
    <2>0. j # None  BY NoneAssumption DEF Inos
    <2>1. CASE rows[j] = None
      <3>1. rows'[j] = None  BY <1>1, <2>1 DEF FlushedSize
      <3> QED  BY <1>1, <2>1, <3>1 DEF ViewOrGone, View, Durable, Written, InFlight
    <2>2. CASE rows[j] # None
      <3>1. /\ rows'[j] = SizeUnder(writing, j, rows[j]) /\ rows'[j] # None
            /\ stored'[j] = BlocksUnder(writing, j, stored[j])
        BY <1>1, <2>2, SizeStays DEF FlushedSize, FlushedBlocks
      <3>2. SameAt(flushing, writing, j)
        BY <1>1, <2>0, <2>2 DEF RefInv, BatchWhole
      <3>3. /\ BlocksUnder(flushing, j, stored'[j]) = BlocksUnder(flushing, j, stored[j])
            /\ SizeUnder(flushing, j, rows'[j]) = SizeUnder(flushing, j, rows[j])
        BY <3>1, <3>2, SameShows, UnderTwice
      <3>4. Size(j)' = Size(j) /\ Shown(j)' = Shown(j)
        BY <1>1, <3>3 DEF Size, Shown
      <3>5. View(j)' = View(j)
        <4>1. View(j)' = File(Size(j)', Shown(j)')
          BY <3>1 DEF View, Shown
        <4> QED  BY <2>2, <3>4, <4>1, ViewIs
      <3>6. Written[j] = File(rows'[j], stored'[j])
        BY <1>1, <2>0, <2>2, <3>1 DEF Written, InFlight
      <3>7. Durable(j)' = Written[j]
        BY <3>1, <3>6 DEF Durable
      <3>8. Written[j] # None
        <4>1. rows'[j] \in Sizes(j) /\ stored'[j] \in [Idx(j) -> Blocks]
          BY <3>1 DEF TypeInv, TablesOK
        <4> QED  BY <3>6, <4>1, FileIsContents, NoneApart
      <3> QED  BY <1>1, <3>5, <3>7, <3>8 DEF ViewOrGone
    <2> QED  BY <2>1, <2>2
  <1>6. [j \in Inos |-> Durable(j)]' =
          [j \in Inos |-> IF Batch[j] = None THEN [k \in Inos |-> Durable(k)][j] ELSE Batch[j]]
    BY <1>4, <1>5
  <1>7. [j \in Inos |-> ViewOrGone(j)]' = [j \in Inos |-> ViewOrGone(j)]
    BY <1>5
  <1> QED  BY <1>4, <1>6, <1>7 DEF Promise!Land

\* A failed commit merges its batch under the newer entries, and nobody sees it.
LEMMA MergeShows ==
    ASSUME NEW p, NEW f, NEW i \in Inos, NEW b, NEW n,
           p.keeps[i] \in {0, NoKeep(i)}, f.keeps[i] \in {0, NoKeep(i)}
    PROVE  /\ BlocksUnder(Merged(p, f), i, b) = BlocksUnder(p, i, BlocksUnder(f, i, b))
           /\ SizeUnder(Merged(p, f), i, n) = SizeUnder(p, i, SizeUnder(f, i, n))
  <1> DEFINE q == Merged(p, f)
  <1>1. /\ Shape(q)
        /\ \A j \in Inos :
             /\ q.blocks[j] = [k \in Idx(j) |->
                  IF p.blocks[j][k] # None THEN p.blocks[j][k]
                  ELSE IF k < p.keeps[j] THEN f.blocks[j][k] ELSE None]
             /\ q.sizes[j] = IF p.sizes[j] # None THEN p.sizes[j] ELSE f.sizes[j]
             /\ q.keeps[j] = IF p.keeps[j] # NoKeep(j) THEN p.keeps[j] ELSE f.keeps[j]
    BY MergedAt
  <1> HIDE DEF q
  <1>2. SizeUnder(q, i, n) = SizeUnder(p, i, SizeUnder(f, i, n))
    BY <1>1 DEF SizeUnder
  <1>3. \A k \in Idx(i) : k \in Int /\ k >= 0 /\ k < NoKeep(i)
    BY Limits DEF Idx, NoKeep
  <1>4. NoKeep(i) \in Int /\ NoKeep(i) > 0
    BY Limits DEF NoKeep
  <1>5. ASSUME NEW k \in Idx(i)
        PROVE  BlocksUnder(q, i, b)[k] = BlocksUnder(p, i, BlocksUnder(f, i, b))[k]
    <2>0. q.blocks[i] = [m \in Idx(i) |->
            IF p.blocks[i][m] # None THEN p.blocks[i][m]
            ELSE IF m < p.keeps[i] THEN f.blocks[i][m] ELSE None]
      BY <1>1
    <2>1. q.blocks[i][k] = IF p.blocks[i][k] # None THEN p.blocks[i][k]
                           ELSE IF k < p.keeps[i] THEN f.blocks[i][k] ELSE None
      BY <2>0
    <2>2. q.keeps[i] = IF p.keeps[i] # NoKeep(i) THEN p.keeps[i] ELSE f.keeps[i]
      BY <1>1
    <2>3. BlocksUnder(q, i, b)[k] = IF q.blocks[i][k] # None THEN q.blocks[i][k]
                                    ELSE IF k >= q.keeps[i] THEN None ELSE b[k]
      BY DEF BlocksUnder
    <2>4. BlocksUnder(p, i, BlocksUnder(f, i, b))[k] =
            IF p.blocks[i][k] # None THEN p.blocks[i][k]
            ELSE IF k >= p.keeps[i] THEN None
            ELSE IF f.blocks[i][k] # None THEN f.blocks[i][k]
            ELSE IF k >= f.keeps[i] THEN None ELSE b[k]
      BY DEF BlocksUnder
    <2>5. k \in Int /\ k >= 0 /\ k < NoKeep(i) /\ ~(k >= NoKeep(i)) /\ ~(k < 0)
      BY <1>3, <1>4
    <2>6. CASE p.keeps[i] = 0
      <3>1. q.keeps[i] = 0  BY <1>4, <2>2, <2>6
      <3> QED  BY <2>1, <2>3, <2>4, <2>5, <2>6, <3>1
    <2>7. CASE p.keeps[i] = NoKeep(i)
      <3>1. q.keeps[i] = f.keeps[i]  BY <2>2, <2>7
      <3> QED  BY <2>1, <2>3, <2>4, <2>5, <2>7, <3>1
    <2> QED  BY <2>6, <2>7
  <1>6. BlocksUnder(q, i, b) = BlocksUnder(p, i, BlocksUnder(f, i, b))
    BY <1>5 DEF BlocksUnder
  <1> QED  BY <1>2, <1>6 DEF q

LEMMA DropMaps ==
    ASSUME RefInv, NEW i \in Inos, FlushFails(i) PROVE Promise!Drop
  <1>0. call = [j \in Inos |-> call[j]] /\ SyncInv /\ TypeInv
    BY DEF RefInv, SyncInv, TypeInv, CallsOK
  <1>1. /\ UNCHANGED <<rows, stored, removing>>
        /\ active' = Merged(active, flushing) /\ flushing' = Empty
        /\ At(i, "flush") /\ Committing(i)
    BY DEF FlushFails, db, At, Committing
  <1>2. call'[i] = Idle /\ \A j \in Inos : j # i => call'[j] = call[j] /\ ~Committing(j)
    BY <1>0, <1>1, CommitterMoves DEF FlushFails, Return
  <1>3. Batch # None /\ Batch' = None
    BY <1>0, <1>1, <1>2, BatchOf, BatchThen, BatchIsSomething DEF At, Committing, Idle
  <1>4. ASSUME NEW j \in Inos
        PROVE  ViewOrGone(j)' = ViewOrGone(j) /\ Durable(j)' = Durable(j)
    <2>1. active.keeps[j] \in {0, NoKeep(j)} /\ flushing.keeps[j] \in {0, NoKeep(j)}
      BY DEF RefInv, KeepsAllOrNone
    <2>2. /\ BlocksUnder(Merged(active, flushing), j, stored[j]) = Shown(j)
          /\ SizeUnder(Merged(active, flushing), j, rows[j]) = Size(j)
      BY <2>1, MergeShows DEF Shown, Size
    <2>3. stored[j] \in [Idx(j) -> Blocks] /\ Clean(Empty, j)
      BY <1>0, EmptyBuffer DEF TypeInv, TablesOK
    <2>4. Shown(j)' = Shown(j) /\ Size(j)' = Size(j)
      BY <1>1, <2>2, <2>3, CleanShows DEF Shown, Size
    <2> QED  BY <1>1, <2>4, ViewSame DEF Durable
  <1>5. /\ [j \in Inos |-> ViewOrGone(j)]' = [j \in Inos |-> ViewOrGone(j)]
        /\ [j \in Inos |-> Durable(j)]' = [j \in Inos |-> Durable(j)]
    BY <1>4
  <1> QED  BY <1>3, <1>5 DEF Promise!Drop

LEMMA ClearMaps ==
    ASSUME RefInv, NEW i \in Inos, ClearFlushing(i) PROVE UNCHANGED Mapped
  <1>0. call = [j \in Inos |-> call[j]] /\ SyncInv /\ TypeInv /\ CommitInv
    BY DEF RefInv, SyncInv, TypeInv, CallsOK
  <1>1. /\ UNCHANGED <<rows, stored, removing, active>> /\ flushing' = Empty
        /\ At(i, "clear") /\ Committing(i)
    BY DEF ClearFlushing, db, At, Committing
  <1>2. call'[i] = Idle /\ \A j \in Inos : j # i => call'[j] = call[j] /\ ~Committing(j)
    BY <1>0, <1>1, CommitterMoves DEF ClearFlushing, Return
  <1>3. Batch = None /\ Batch' = None
    BY <1>0, <1>1, <1>2, BatchOf, BatchThen DEF At, Committing, Idle
  <1>4. ASSUME NEW j \in Inos
        PROVE  ViewOrGone(j)' = ViewOrGone(j) /\ Durable(j)' = Durable(j)
    <2>1. rows[j] # None => Absorbed(flushing, j)
      BY <1>0, <1>1 DEF CommitInv, BatchLanded
    <2>2. stored[j] \in [Idx(j) -> Blocks] /\ Clean(Empty, j)
      BY <1>0, EmptyBuffer DEF TypeInv, TablesOK
    <2>3. rows[j] # None => Shown(j)' = Shown(j) /\ Size(j)' = Size(j)
      BY <1>1, <2>1, <2>2, CleanShows DEF Shown, Size, Absorbed
    <2> QED  BY <1>1, <2>3, ViewSame DEF Durable
  <1> QED  BY <1>3, <1>4, Stutters

LEMMA CreateMaps ==
    ASSUME RefInv, Create, NEW m \in Inos, m = next PROVE Promise!Create(m)
  <1>0. /\ TypeInv /\ TablesOK /\ CommitInv /\ next = m /\ rows[m] = None
        /\ removing = None /\ removing' = None
        /\ Clean(active, m) /\ Clean(flushing, m) /\ Clean(writing, m)
    BY DEF RefInv, SyncInv, TypeInv, TablesOK, CommitInv, Unused, Create
  <1>1. UNCHANGED <<stored, active, flushing, writing, call>>
    BY DEF Create, buffers
  <1>2. rows'[m] = 0 /\ \A j \in Inos : j # m => rows'[j] = rows[j]
    BY <1>0 DEF Create, TablesOK, RowsOK
  <1>3. \A j \in Inos : removing # j
    BY <1>0, NoneAssumption DEF Inos
  <1>4. \A b : File(0, b) = <<>>
    BY DEF File
  <1>5. 0 # None  BY NoneAssumption
  <1>6. ViewOrGone(m) = None /\ Durable(m) = None
    BY <1>0, ViewIsContents DEF ViewOrGone
  <1>7. ViewOrGone(m)' = <<>> /\ Durable(m)' = <<>>
    <2>1. Size(m)' = 0
      BY <1>0, <1>1, <1>2 DEF Size, SizeUnder, Clean
    <2> QED
      BY <1>0, <1>1, <1>2, <1>3, <1>4, <1>5, <2>1 DEF View, ViewOrGone, Durable
  <1>8. ASSUME NEW j \in Inos, j # m
        PROVE  /\ ViewOrGone(j)' = ViewOrGone(j) /\ Durable(j)' = Durable(j)
               /\ InFlight(j, flushing)' = InFlight(j, flushing)
               /\ InFlight(j, writing)' = InFlight(j, writing)
    <2>1. ViewOrGone(j)' = ViewOrGone(j)
      BY <1>0, <1>1, <1>2, <1>8, ViewSame DEF Size, Shown
    <2> QED  BY <1>0, <1>1, <1>2, <1>8, <2>1 DEF Durable, InFlight
  <1>9. InFlight(m, flushing)' = <<>> /\ InFlight(m, writing)' = <<>>
    BY <1>0, <1>1, <1>2, <1>3, <1>4, <1>5 DEF InFlight, SizeUnder, Clean
  <1>10. Copied' = [Copied EXCEPT ![m] = <<>>] /\ Written' = [Written EXCEPT ![m] = <<>>]
    BY <1>8, <1>9 DEF Copied, Written
  <1>11. \A j \in Inos : \A at \in {"copy", "flush"} : At(j, at)' <=> At(j, at)
    BY <1>1 DEF At
  <1>12. Batch' = Promise!InBatch(m, <<>>)
    <2>1. CASE \E i \in Inos : At(i, "copy")
      BY <1>0, <1>10, <1>11, <2>1, BatchIs, BatchThen, BatchIsSomething DEF Promise!InBatch
    <2>2. CASE (\E i \in Inos : At(i, "flush")) /\ \A i \in Inos : ~At(i, "copy")
      BY <1>0, <1>10, <1>11, <2>2, BatchIs, BatchThen, BatchIsSomething DEF Promise!InBatch
    <2>3. CASE \A i \in Inos : ~At(i, "copy") /\ ~At(i, "flush")
      BY <1>11, <2>3, BatchIs, BatchThen DEF Promise!InBatch
    <2> QED  BY <2>1, <2>2, <2>3
  <1>13. /\ [j \in Inos |-> ViewOrGone(j)]' = [[j \in Inos |-> ViewOrGone(j)] EXCEPT ![m] = <<>>]
         /\ [j \in Inos |-> Durable(j)]' = [[j \in Inos |-> Durable(j)] EXCEPT ![m] = <<>>]
    BY <1>7, <1>8
  <1> QED  BY <1>0, <1>6, <1>12, <1>13 DEF Promise!Create, Promise!Fresh

\* A removal is seen when unlink has dropped the pending data.
LEMMA VanishMaps ==
    ASSUME RefInv, NEW i \in Inos, UnlinkBegin(i) PROVE Promise!Vanish(i)
  <1>0. /\ TypeInv /\ Shape(active) /\ Shape(flushing) /\ i # None
        /\ removing = None /\ removing' = i /\ rows[i] # None
        /\ UNCHANGED <<rows, stored, call, writing>>
        /\ active' = Forgotten(active, i) /\ flushing' = Forgotten(flushing, i)
    BY NoneAssumption
       DEF RefInv, SyncInv, TypeInv, BuffersOK, Typed, UnlinkBegin, DropPending, db, Inos
  <1>1. \A j \in Inos : j # i => SameAt(active', active, j) /\ SameAt(flushing', flushing, j)
    BY <1>0, ForgottenAt
  <1>2. \A j \in Inos : removing # j
    BY <1>0, NoneAssumption DEF Inos
  <1>3. ViewOrGone(i) # None /\ ViewOrGone(i)' = None
    BY <1>0, <1>2, ViewIsContents, NoneApart DEF ViewOrGone
  <1>4. ASSUME NEW j \in Inos, j # i
        PROVE  /\ ViewOrGone(j)' = ViewOrGone(j)
               /\ InFlight(j, flushing)' = InFlight(j, flushing)
               /\ InFlight(j, writing)' = InFlight(j, writing)
    <2>1. /\ \A b : BlocksUnder(active', j, b) = BlocksUnder(active, j, b)
          /\ \A n : SizeUnder(active', j, n) = SizeUnder(active, j, n)
          /\ \A b : BlocksUnder(flushing', j, b) = BlocksUnder(flushing, j, b)
          /\ \A n : SizeUnder(flushing', j, n) = SizeUnder(flushing, j, n)
      BY <1>1, <1>4, SameShows
    <2>2. Size(j)' = Size(j) /\ Shown(j)' = Shown(j)
      BY <1>0, <2>1 DEF Size, Shown
    <2> QED  BY <1>0, <1>2, <1>4, <2>1, <2>2, ViewSame DEF InFlight
  <1>5. InFlight(i, flushing)' = None /\ InFlight(i, writing)' = None
    BY <1>0 DEF InFlight
  <1>6. Copied' = [Copied EXCEPT ![i] = None] /\ Written' = [Written EXCEPT ![i] = None]
    BY <1>4, <1>5 DEF Copied, Written
  <1>7. \A j \in Inos : \A at \in {"copy", "flush"} : At(j, at)' <=> At(j, at)
    BY <1>0 DEF At
  <1>8. Batch' = Promise!InBatch(i, None)
    <2>1. CASE \E j \in Inos : At(j, "copy")
      BY <1>0, <1>6, <1>7, <2>1, BatchIs, BatchThen, BatchIsSomething DEF Promise!InBatch
    <2>2. CASE (\E j \in Inos : At(j, "flush")) /\ \A j \in Inos : ~At(j, "copy")
      BY <1>0, <1>6, <1>7, <2>2, BatchIs, BatchThen, BatchIsSomething DEF Promise!InBatch
    <2>3. CASE \A j \in Inos : ~At(j, "copy") /\ ~At(j, "flush")
      BY <1>7, <2>3, BatchIs, BatchThen DEF Promise!InBatch
    <2> QED  BY <2>1, <2>2, <2>3
  <1>9. [j \in Inos |-> ViewOrGone(j)]' = [[j \in Inos |-> ViewOrGone(j)] EXCEPT ![i] = None]
    BY <1>3, <1>4
  <1>10. [j \in Inos |-> Durable(j)]' = [j \in Inos |-> Durable(j)]
    BY <1>0 DEF Durable
  <1> QED  BY <1>3, <1>8, <1>9, <1>10 DEF Promise!Vanish

\* After the removal nothing of it can be seen.
LEMMA DropPendingMaps ==
    ASSUME RefInv, NEW i \in Inos, UnlinkEnd(i) PROVE UNCHANGED Mapped
  <1>0. /\ Shape(active) /\ Shape(flushing) /\ rows[i] = None
        /\ UNCHANGED <<rows, stored, call, writing, removing>>
        /\ active' = Forgotten(active, i) /\ flushing' = Forgotten(flushing, i)
    BY DEF RefInv, SyncInv, TypeInv, BuffersOK, Typed, UnlinkEnd, DropPending, db
  <1>1. \A j \in Inos : j # i => SameAt(active', active, j) /\ SameAt(flushing', flushing, j)
    BY <1>0, ForgottenAt
  <1>2. ASSUME NEW j \in Inos
        PROVE  /\ ViewOrGone(j)' = ViewOrGone(j)
               /\ InFlight(j, flushing)' = InFlight(j, flushing)
               /\ InFlight(j, writing)' = InFlight(j, writing)
    <2>1. CASE j = i
      BY <1>0, <2>1, ViewSame DEF InFlight
    <2>2. CASE j # i
      <3>1. /\ \A b : BlocksUnder(active', j, b) = BlocksUnder(active, j, b)
            /\ \A n : SizeUnder(active', j, n) = SizeUnder(active, j, n)
            /\ \A b : BlocksUnder(flushing', j, b) = BlocksUnder(flushing, j, b)
            /\ \A n : SizeUnder(flushing', j, n) = SizeUnder(flushing, j, n)
        BY <1>1, <2>2, SameShows
      <3>2. Size(j)' = Size(j) /\ Shown(j)' = Shown(j)
        BY <1>0, <3>1 DEF Size, Shown
      <3> QED  BY <1>0, <3>1, <3>2, ViewSame DEF InFlight
    <2> QED  BY <2>1, <2>2
  <1>3. Copied' = Copied /\ Written' = Written
    BY <1>2 DEF Copied, Written
  <1>4. \A j \in Inos : \A at \in {"copy", "flush"} : At(j, at)' <=> At(j, at)
    BY <1>0 DEF At
  <1>5. Batch' = Batch
    <2>1. CASE \E j \in Inos : At(j, "copy")
      BY <1>3, <1>4, <2>1, BatchIs, BatchThen
    <2>2. CASE (\E j \in Inos : At(j, "flush")) /\ \A j \in Inos : ~At(j, "copy")
      BY <1>3, <1>4, <2>2, BatchIs, BatchThen
    <2>3. CASE \A j \in Inos : ~At(j, "copy") /\ ~At(j, "flush")
      BY <1>4, <2>3, BatchIs, BatchThen
    <2> QED  BY <2>1, <2>2, <2>3
  <1>6. \A j \in Inos : ViewOrGone(j)' = ViewOrGone(j) /\ Durable(j)' = Durable(j)
    BY <1>0, <1>2 DEF Durable
  <1> QED  BY <1>5, <1>6, Stutters

\* The row goes, by unlink or by rename, and with it the file everywhere.
LEMMA RemoveMaps ==
    ASSUME RefInv, NEW i \in Inos, DeleteRow(i), UNCHANGED <<buffers, call>>,
           rows[i] # None, removing' = None, removing \in {None, i}
    PROVE  Promise!Remove(i)
  <1>0. /\ TypeInv /\ TablesOK
        /\ UNCHANGED <<active, flushing, writing, call>>
        /\ i # None /\ \A j \in Inos : j # None
    BY NoneAssumption DEF RefInv, SyncInv, TypeInv, buffers, Inos
  <1>1. /\ rows'[i] = None
        /\ \A j \in Inos : j # i => rows'[j] = rows[j] /\ stored'[j] = stored[j]
    BY <1>0 DEF DeleteRow, TablesOK, RowsOK
  <1>2. Durable(i) # None /\ Durable(i)' = None /\ ViewOrGone(i)' = None
    BY <1>0, <1>1, ViewIsContents, NoneApart DEF Durable, View, ViewOrGone
  <1>3. ASSUME NEW j \in Inos, j # i
        PROVE  /\ ViewOrGone(j)' = ViewOrGone(j) /\ Durable(j)' = Durable(j)
               /\ InFlight(j, flushing)' = InFlight(j, flushing)
               /\ InFlight(j, writing)' = InFlight(j, writing)
    <2>1. removing # j /\ removing' # j
      BY <1>0, <1>3
    <2>2. Size(j)' = Size(j) /\ Shown(j)' = Shown(j)
      BY <1>0, <1>1, <1>3 DEF Size, Shown
    <2> QED  BY <1>0, <1>1, <1>3, <2>1, <2>2, ViewSame DEF Durable, InFlight
  <1>4. InFlight(i, flushing)' = None /\ InFlight(i, writing)' = None
    BY <1>1 DEF InFlight
  <1>5. Copied' = [Copied EXCEPT ![i] = None] /\ Written' = [Written EXCEPT ![i] = None]
    BY <1>3, <1>4 DEF Copied, Written
  <1>6. \A j \in Inos : \A at \in {"copy", "flush"} : At(j, at)' <=> At(j, at)
    BY <1>0 DEF At
  <1>7. Batch' = Promise!InBatch(i, None)
    <2>1. CASE \E j \in Inos : At(j, "copy")
      BY <1>0, <1>5, <1>6, <2>1, BatchIs, BatchThen, BatchIsSomething DEF Promise!InBatch
    <2>2. CASE (\E j \in Inos : At(j, "flush")) /\ \A j \in Inos : ~At(j, "copy")
      BY <1>0, <1>5, <1>6, <2>2, BatchIs, BatchThen, BatchIsSomething DEF Promise!InBatch
    <2>3. CASE \A j \in Inos : ~At(j, "copy") /\ ~At(j, "flush")
      BY <1>6, <2>3, BatchIs, BatchThen DEF Promise!InBatch
    <2> QED  BY <2>1, <2>2, <2>3
  <1>8. /\ [j \in Inos |-> ViewOrGone(j)]' = [[j \in Inos |-> ViewOrGone(j)] EXCEPT ![i] = None]
        /\ [j \in Inos |-> Durable(j)]' = [[j \in Inos |-> Durable(j)] EXCEPT ![i] = None]
    BY <1>2, <1>3
  <1> QED  BY <1>2, <1>7, <1>8 DEF Promise!Remove

LEMMA CrashMaps == ASSUME RefInv, Crash PROVE Promise!Crash
  <1>0. /\ TypeInv /\ UNCHANGED <<rows, stored>>
        /\ active' = Empty /\ flushing' = Empty /\ removing' = None
        /\ \A j \in Inos : call'[j] = Idle
    BY DEF RefInv, SyncInv, Crash
  <1>1. Batch' = None
    BY <1>0, BatchThen DEF At, Idle
  <1>2. ASSUME NEW j \in Inos PROVE ViewOrGone(j)' = Durable(j) /\ Durable(j)' = Durable(j)
    <2>1. stored[j] \in [Idx(j) -> Blocks] /\ Clean(Empty, j) /\ j # None
      BY <1>0, EmptyBuffer, NoneAssumption DEF TypeInv, TablesOK, Inos
    <2>2. Shown(j)' = stored[j] /\ Size(j)' = rows[j]
      BY <1>0, <2>1, CleanShows DEF Shown, Size
    <2>3. View(j)' = IF rows[j] = None THEN None ELSE File(Size(j)', Shown(j)')
      BY <1>0 DEF View, Shown
    <2> QED  BY <1>0, <2>1, <2>2, <2>3 DEF ViewOrGone, Durable
  <1>3. /\ [j \in Inos |-> ViewOrGone(j)]' = [j \in Inos |-> Durable(j)]
        /\ [j \in Inos |-> Durable(j)]' = [j \in Inos |-> Durable(j)]
    BY <1>2
  <1> QED  BY <1>1, <1>3 DEF Promise!Crash

LEMMA InitMaps == Init => Promise!Init
  <1> SUFFICES ASSUME Init PROVE Promise!Init
    OBVIOUS
  <1>1. \A j \in Inos : ViewOrGone(j) = None /\ Durable(j) = None
    BY DEF Init, ViewOrGone, View, Durable
  <1>2. Batch = None
    BY BatchIs DEF Init, At, Idle
  <1> QED  BY <1>1, <1>2 DEF Promise!Init

LEMMA StepMaps ==
    ASSUME Ops \cap {"cut", "grow", "chmod"} = {}, "unlink" \notin Faults
    PROVE  RefInv /\ TypeInv' /\ [Next]_vars => Promise!Next \/ UNCHANGED Mapped
  <1> SUFFICES ASSUME RefInv, TypeInv', [Next]_vars PROVE Promise!Next \/ UNCHANGED Mapped
    OBVIOUS
  <1>1. CASE UNCHANGED vars
    BY <1>1, Stutters DEF vars, ViewOrGone, View, Size, Block, Durable, Batch, InFlight
  <1>2. ASSUME NEW i \in Inos,
               \/ \E first, last \in Idx(i), v \in Vals : StartWrite(i, first, last, v)
               \/ \E n \in 0 .. Limit[i], v \in Vals : StartTruncate(i, n, v)
               \/ \E k \in Idx(i) : ReadBuffers(i, k)
               \/ StartFsync(i) \/ FindSize(i) \/ ReadStored(i)
        PROVE  UNCHANGED Mapped
    BY <1>2, QuietMaps
  <1>3. ASSUME NEW i \in Inos, WritePut(i) \/ TruncatePut(i) \/ TruncateDrop(i)
        PROVE  Promise!Next \/ UNCHANGED Mapped
    BY <1>3, ChangeMaps DEF Promise!Next
  <1>4. ASSUME NEW i \in Inos, SwapBuffers(i) PROVE Promise!Next \/ UNCHANGED Mapped
    BY <1>4, SwapMaps DEF Promise!Next
  <1>5. ASSUME NEW i \in Inos, CopyFlushing(i) \/ ClearFlushing(i) \/ UnlinkEnd(i)
        PROVE  UNCHANGED Mapped
    BY <1>5, CopyMaps, ClearMaps, DropPendingMaps
  <1>6. ASSUME NEW i \in Inos, FlushToRedb(i) \/ FlushFails(i) PROVE Promise!Next
    BY <1>6, LandMaps, DropMaps DEF Promise!Next
  <1>7. CASE Create
    <2>1. next \in Inos  BY <1>7 DEF Create
    <2> QED  BY <1>7, <2>1, CreateMaps DEF Promise!Next
  <1>8. ASSUME NEW i \in Inos, UnlinkBegin(i) PROVE Promise!Next
    BY <1>8, VanishMaps DEF Promise!Next
  <1>9. ASSUME NEW i \in Inos, Replace(i) PROVE Promise!Next
    BY <1>9, RemoveMaps DEF Replace, Promise!Next
  <1>10. CASE UnlinkCommit
    <2>1. removing \in Inos /\ rows[removing] # None
      BY <1>10 DEF UnlinkCommit, RefInv, RemovedHasRow, SyncInv, TypeInv, TablesOK
    <2>2. PICK i \in Inos : removing = i  BY <2>1
    <2>3. Promise!Remove(i)
      BY <1>10, <2>1, <2>2, RemoveMaps DEF UnlinkCommit
    <2> QED  BY <2>3 DEF Promise!Next
  <1>11. CASE Crash
    BY <1>11, CrashMaps DEF Promise!Next
  <1>12. chmod = Idle /\ ~UnlinkFails
    BY DEF RefInv, SyncInv, NoChmod, UnlinkFails
  <1> QED
    BY <1>1, <1>2, <1>3, <1>4, <1>5, <1>6, <1>7, <1>8, <1>9, <1>10, <1>11, <1>12
       DEF Next, Handler, Flush, Unlinker, ChmodRow, ChmodSize, ChmodWrite, Idle

\* The double buffer, its commits and their failures are those of a write-back
\* store: each commit makes one instant of all files durable as a whole, a
\* failed one takes nothing from a reader, and a removed file stays removed.
THEOREM BufferImplementsWriteBack ==
    ASSUME Ops \cap {"cut", "grow", "chmod"} = {}, "unlink" \notin Faults
    PROVE  Spec => ImplementsWriteBack
  <1>1. RefInv => TypeInv  BY DEF RefInv, SyncInv
  <1> QED
    BY <1>1, InitRefInv, StepRefInv, InitMaps, StepMaps, PTL
       DEF Spec, ImplementsWriteBack, Promise!Spec, Mapped
=============================================================================
