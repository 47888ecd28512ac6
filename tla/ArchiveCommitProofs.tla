------------------------ MODULE ArchiveCommitProofs ------------------------
(***************************************************************************)
(* Theorems about ArchiveCommit, for any number of blocks, contents and    *)
(* cells.  Type correctness needs no assumption; the crash-safety theorems *)
(* and the refinement of DurableFile, at the end, assume that a failed     *)
(* fsync leaves its pages dirty.                                           *)
(***************************************************************************)
EXTENDS ArchiveCommit, SequenceTheorems, WellFoundedInduction, TLAPS

-----------------------------------------------------------------------------
(* The inductive invariant                                                  *)

Writing == {"blocks", "journal", "barrier1", "superblock"}

\* The journal of updater u lies within the file, as records.
JournalFits(u, data, eof) ==
    \/ u.joff = 0 /\ u.jlen = 0
    \/ /\ u.joff >= 1 /\ u.jlen >= 1
       /\ u.joff + u.jlen - 1 <= eof
       /\ \A a \in u.joff .. u.joff + u.jlen - 1 : data[a].kind = "rec"

\* Its index is written, after the blocks it lists.
IndexFits(u, data, eof) ==
    /\ u.ioff \in 1 .. eof
    /\ data[u.ioff] = IndexCell(u.index)
    /\ \A i \in DOMAIN u.index : u.index[i] < u.ioff

UpdaterOK ==
    /\ pc \in Writing => /\ JournalFits(up, cdata, ceof)
                         /\ \A i \in DOMAIN up.index : up.index[i] <= ceof
    /\ pc \in Writing \ {"blocks"} => IndexFits(up, cdata, ceof)
    /\ pc = "journal" => call.delta \in Deltas

\* Right before the superblock write everything is on stable storage.
SyncedOK == pc = "superblock" => seof = ceof /\ sdata = cdata /\ sslot = cslot

\* It writes to the slot that is not active.
TargetOK ==
    pc \in Writing =>
        /\ cslot[Other(up.slot)] # Torn
        /\ cslot[Other(up.slot)].seq = up.seq
        /\ cslot[up.slot] # Torn => cslot[up.slot].seq <= up.seq

\* Stable storage holds a prefix of the page cache, and every slot, dirty or
\* not, only needs that prefix.
Agree == seof <= ceof /\ \A a \in 1 .. seof : cdata[a] = sdata[a]

SlotsValid ==
    \A s \in Slots : /\ cslot[s] # Torn => Valid(cslot[s], sdata, seof)
                     /\ sslot[s] # Torn => Valid(sslot[s], sdata, seof)

\* One slot is clean and no older than what was acknowledged.
Anchor(s) == sslot[s] # Torn /\ cslot[s] = sslot[s] /\ sslot[s].seq >= acked.seq

SameSeq(slots) ==
    slots["A"] # Torn /\ slots["B"] # Torn /\ slots["A"].seq = slots["B"].seq
        => slots["A"] = slots["B"]

NamesAcked(sb) == sb # Torn /\ sb.seq = acked.seq => ViewOf(sb, sdata) = acked

AckedOK ==
    /\ acked.seq \in Nat
    /\ \E s \in Slots : Anchor(s)
    /\ SameSeq(cslot) /\ SameSeq(sslot)
    /\ \A s \in Slots : NamesAcked(cslot[s]) /\ NamesAcked(sslot[s])

IInv ==
    /\ lostData = {} /\ lostSlot = {}
    /\ Agree /\ SlotsValid
    /\ AckedOK
    /\ SyncedOK /\ TargetOK

-----------------------------------------------------------------------------
(* Lemmas                                                                   *)

USE DEF Slots, Addr

LEMMA OtherSlot ==
    ASSUME NEW s \in Slots
    PROVE  /\ Other(s) \in Slots /\ Other(s) # s
           /\ \A t \in Slots : t = s \/ t = Other(s)
BY DEF Other

\* Opening picks a usable slot if there is one.
LEMMA ActiveIsValid ==
    ASSUME NEW slots, NEW data, NEW eof, Openable(slots, data, eof)
    PROVE  /\ Active(slots, data, eof) \in Slots
           /\ Valid(slots[Active(slots, data, eof)], data, eof)
<1> DEFINE V(s) == Valid(slots[s], data, eof)
<1>1. V("A") \/ V("B")
  BY DEF Openable
<1>2. ASSUME V("A"), V("B") => slots["A"].seq >= slots["B"].seq
      PROVE  Active(slots, data, eof) = "A"
  BY <1>2 DEF Active
<1>3. ASSUME ~(V("A") /\ (V("B") => slots["A"].seq >= slots["B"].seq))
      PROVE  Active(slots, data, eof) = "B" /\ V("B")
  BY <1>1, <1>3 DEF Active
<1>4. QED
  BY <1>2, <1>3

\* write_at at the end of file changes nothing before it.
LEMMA WriteCellsEffect ==
    ASSUME TypeOK, NEW cells \in Seq(Cell), WriteCells(cells)
    PROVE  /\ cdata' \in [Addr -> Cell] /\ ceof' \in Addr
           /\ ceof' = ceof + Len(cells) /\ ceof <= ceof'
           /\ \A a \in 1 .. ceof : cdata'[a] = cdata[a]
           /\ \A k \in 1 .. Len(cells) : cdata'[ceof + k] = cells[k]
           /\ UNCHANGED <<cslot, sslot, sdata, seof, lostData, lostSlot, acked>>
<1>1. /\ Len(cells) \in Nat /\ ceof \in Addr /\ MaxEof \in Nat
      /\ \A k \in 1 .. Len(cells) : cells[k] \in Cell
  BY EofAssumption DEF TypeOK
<1>2. /\ ceof + Len(cells) <= MaxEof /\ ceof' = ceof + Len(cells)
      /\ cdata' = [a \in Addr |-> IF a > ceof /\ a <= ceof + Len(cells)
                                  THEN cells[a - ceof] ELSE cdata[a]]
  BY DEF WriteCells
<1>3. cdata' \in [Addr -> Cell]
  <2> SUFFICES ASSUME NEW a \in Addr
               PROVE  (IF a > ceof /\ a <= ceof + Len(cells)
                       THEN cells[a - ceof] ELSE cdata[a]) \in Cell
    BY <1>2
  <2>1. CASE a > ceof /\ a <= ceof + Len(cells)
    BY <1>1, <2>1
  <2>2. CASE ~(a > ceof /\ a <= ceof + Len(cells))
    BY <2>2 DEF TypeOK
  <2>3. QED
    BY <2>1, <2>2
<1>4. \A k \in 1 .. Len(cells) : cdata'[ceof + k] = cells[k]
  BY <1>1, <1>2
<1>5. QED
  BY <1>1, <1>2, <1>3, <1>4 DEF WriteCells, stable, lost

\* What fits in a file still fits when the file has only grown.
LEMMA FitsMonotone ==
    ASSUME NEW u \in Updater, NEW d1, NEW d2, NEW e1 \in Addr, NEW e2 \in Addr,
           e1 <= e2, \A a \in 1 .. e1 : d2[a] = d1[a]
    PROVE  /\ JournalFits(u, d1, e1) => JournalFits(u, d2, e2)
           /\ IndexFits(u, d1, e1) => IndexFits(u, d2, e2)
<1>1. JournalFits(u, d1, e1) => JournalFits(u, d2, e2)
  <2> SUFFICES ASSUME JournalFits(u, d1, e1), ~(u.joff = 0 /\ u.jlen = 0)
               PROVE  JournalFits(u, d2, e2)
    BY DEF JournalFits
  <2>1. /\ u.joff \in Nat /\ u.jlen \in Nat /\ e1 \in Nat /\ e2 \in Nat
    BY EofAssumption DEF Updater
  <2>2. /\ u.joff >= 1 /\ u.jlen >= 1 /\ u.joff + u.jlen - 1 <= e1
        /\ \A a \in u.joff .. u.joff + u.jlen - 1 : d1[a].kind = "rec"
    BY DEF JournalFits
  <2>3. \A a \in u.joff .. u.joff + u.jlen - 1 : d2[a] = d1[a]
    BY <2>1, <2>2
  <2>4. u.joff + u.jlen - 1 <= e2
    BY <2>1, <2>2
  <2>5. QED
    BY <2>2, <2>3, <2>4 DEF JournalFits
<1>2. IndexFits(u, d1, e1) => IndexFits(u, d2, e2)
  BY EofAssumption DEF IndexFits, Updater
<1>3. QED
  BY <1>1, <1>2

LEMMA IndexWithin ==
    ASSUME NEW u \in Updater, NEW data, NEW eof \in Addr, IndexFits(u, data, eof)
    PROVE  \A i \in DOMAIN u.index : u.index[i] \in Addr /\ u.index[i] <= eof
<1> SUFFICES ASSUME NEW i \in DOMAIN u.index
             PROVE  u.index[i] \in Addr /\ u.index[i] <= eof
  OBVIOUS
<1>1. u.index \in Seq(1 .. MaxEof) /\ MaxEof \in Nat
  BY EofAssumption DEF Updater
<1>2. u.index[i] \in 1 .. MaxEof
  BY <1>1
<1>3. u.index[i] < u.ioff /\ u.ioff \in 1 .. eof
  BY DEF IndexFits
<1>4. QED
  BY <1>1, <1>2, <1>3

LEMMA TruncatedIndex ==
    ASSUME NEW index \in Seq(Addr), NEW keep \in Nat
    PROVE  /\ Truncated(index, keep) \in Seq(Addr)
           /\ \A k \in DOMAIN Truncated(index, keep) :
                k \in DOMAIN index /\ Truncated(index, keep)[k] = index[k]
<1> DEFINE n == IF keep < Len(index) THEN keep ELSE Len(index)
<1>1. n \in 0 .. Len(index) /\ Len(index) \in Nat /\ DOMAIN index = 1 .. Len(index)
  OBVIOUS
<1>2. Truncated(index, keep) = SubSeq(index, 1, n)
  BY DEF Truncated
<1> HIDE DEF n
<1>3. /\ SubSeq(index, 1, n) \in Seq(Addr) /\ Len(SubSeq(index, 1, n)) = n
      /\ \A k \in 1 .. n : SubSeq(index, 1, n)[k] = index[k]
  <2>1. \A k \in 1 .. n : index[k] \in Addr
    <3> HIDE DEF Addr
    <3>1. \A k \in 1 .. Len(index) : index[k] \in Addr
      BY ElementOfSeq
    <3>2. QED
      BY <1>1, <3>1
  <2>2. /\ SubSeq(index, 1, n) \in Seq(Addr)
        /\ Len(SubSeq(index, 1, n)) = IF 1 <= n THEN n - 1 + 1 ELSE 0
        /\ \A k \in 1 .. n - 1 + 1 : SubSeq(index, 1, n)[k] = index[1 + k - 1]
    BY <1>1, <2>1, SubSeqProperties
  <2>3. QED
    BY <1>1, <2>2
<1>4. DOMAIN SubSeq(index, 1, n) = 1 .. n
  BY <1>1, <1>3
<1>5. QED
  BY <1>1, <1>2, <1>3, <1>4

\* The updater a call opens is well-formed, and aims at the inactive slot.
LEMMA OpenUpdaterOK ==
    ASSUME TypeOK, Openable(cslot, cdata, ceof), NEW todo \in Dirty
    PROVE  LET u == OpenUpdater(todo)
               a == Active(cslot, cdata, ceof)
           IN  /\ u \in Updater
               /\ JournalFits(u, cdata, ceof) /\ IndexFits(u, cdata, ceof)
               /\ a \in Slots /\ cslot[a] # Torn
               /\ u.slot = Other(a) /\ u.seq = cslot[a].seq
<1> DEFINE u == OpenUpdater(todo)
           a == Active(cslot, cdata, ceof)
           sb == cslot[a]
<1>1. a \in Slots /\ Valid(sb, cdata, ceof)
  BY ActiveIsValid
<1>2. sb # Torn /\ sb \in SuperBlock
  BY <1>1 DEF Valid, TypeOK
<1>3. /\ sb.seq \in Nat /\ sb.ioff \in 1 .. MaxEof /\ sb.icrc \in Seq(1 .. MaxEof)
      /\ sb.joff \in 0 .. MaxEof /\ sb.jlen \in Nat
  BY <1>2 DEF SuperBlock
<1>4. u = [index |-> sb.icrc, todo |-> todo, joff |-> IF sb.jlen > 0 THEN sb.joff ELSE 0,
           jlen |-> sb.jlen, ioff |-> sb.ioff, seq |-> sb.seq, slot |-> Other(a)]
  BY DEF OpenUpdater
<1> HIDE DEF u, sb, a
<1>5. Other(a) \in Slots
  BY <1>1, OtherSlot
<1>6. (IF sb.jlen > 0 THEN sb.joff ELSE 0) \in 0 .. MaxEof /\ sb.ioff \in 0 .. MaxEof
  BY <1>3, EofAssumption
<1>7. u \in Updater
  BY <1>3, <1>4, <1>5, <1>6 DEF Updater
<1>8. JournalFits(u, cdata, ceof)
  BY <1>1, <1>3, <1>4 DEF JournalFits, Valid
<1>9. IndexFits(u, cdata, ceof)
  BY <1>1, <1>3, <1>4 DEF IndexFits, Valid
<1>10. QED
  BY <1>1, <1>2, <1>4, <1>7, <1>8, <1>9 DEF u, a, sb

LEMMA BeginKeepsTypes ==
    ASSUME TypeOK, NEW c, NEW u \in Updater, NEW first \in {"journal", "blocks"},
           Begin(c, u, first), JournalFits(u, cdata, ceof),
           \A i \in DOMAIN u.index : u.index[i] <= ceof,
           first = "journal" => IndexFits(u, cdata, ceof) /\ c.delta \in Deltas
    PROVE  TypeOK' /\ UpdaterOK'
<1>1. /\ call' = c /\ up' = u /\ pc' = first
      /\ UNCHANGED <<cslot, cdata, ceof, sslot, sdata, seof, lostData, lostSlot>>
  BY DEF Begin, cache, stable, lost
<1>2. TypeOK'
  BY <1>1 DEF TypeOK
<1>3. UpdaterOK'
  BY <1>1 DEF UpdaterOK, Writing, JournalFits, IndexFits
<1>4. QED
  BY <1>2, <1>3

LEMMA DirtySessions ==
    /\ <<>> \in Dirty
    /\ \A i \in Blocks, v \in Vals : [j \in {i} |-> v] \in Dirty
    /\ \A s \in Sessions : s.dirty \in Dirty /\ s.keep \in Nat
<1>1. <<>> \in Dirty
  <2>1. <<>> \in [{} -> Vals]
    OBVIOUS
  <2>2. QED
    BY <2>1 DEF Dirty
<1>2. ASSUME NEW i \in Blocks, NEW v \in Vals PROVE [j \in {i} |-> v] \in Dirty
  <2>1. [j \in {i} |-> v] \in [{i} -> Vals]
    OBVIOUS
  <2>2. QED
    BY <2>1 DEF Dirty
<1>3. ASSUME NEW s \in Sessions PROVE s.dirty \in Dirty /\ s.keep \in Nat
  BY EofAssumption, BlocksAssumption DEF Sessions, Dirty
<1>4. QED
  BY <1>1, <1>2, <1>3

LEMMA BeginTypes ==
    ASSUME TypeOK,
           \/ \E d \in Deltas : AppendTail(d)
           \/ \E i \in Blocks, v \in Vals : SealTailBlock(i, v)
           \/ \E s \in Sessions : CommitSession(s)
    PROVE  TypeOK' /\ UpdaterOK'
<1>1. ASSUME NEW d \in Deltas, AppendTail(d) PROVE TypeOK' /\ UpdaterOK'
  <2> DEFINE u == OpenUpdater(<<>>)
             c == [op |-> "append", delta |-> d]
  <2>1. Begin(c, u, "journal") /\ Openable(cslot, cdata, ceof)
    BY <1>1 DEF AppendTail, Begin
  <2>2. u \in Updater /\ JournalFits(u, cdata, ceof) /\ IndexFits(u, cdata, ceof)
    BY <2>1, OpenUpdaterOK, DirtySessions
  <2> HIDE DEF u
  <2>3. \A i \in DOMAIN u.index : u.index[i] <= ceof
    BY <2>2, IndexWithin DEF TypeOK
  <2>4. QED
    BY <2>1, <2>2, <2>3, BeginKeepsTypes
<1>2. ASSUME NEW i \in Blocks, NEW v \in Vals, SealTailBlock(i, v)
      PROVE  TypeOK' /\ UpdaterOK'
  <2> DEFINE f == [j \in {i} |-> v]
             u == OpenUpdater(f)
             c == [op |-> "seal", dirty |-> f]
  <2>1. Begin(c, u, "blocks") /\ Openable(cslot, cdata, ceof)
    BY <1>2 DEF SealTailBlock, Begin
  <2>2. u \in Updater /\ JournalFits(u, cdata, ceof) /\ IndexFits(u, cdata, ceof)
    BY <2>1, OpenUpdaterOK, DirtySessions
  <2> HIDE DEF u, c
  <2>3. \A k \in DOMAIN u.index : u.index[k] <= ceof
    BY <2>2, IndexWithin DEF TypeOK
  <2>4. QED
    BY <2>1, <2>2, <2>3, BeginKeepsTypes
<1>3. ASSUME NEW s \in Sessions, CommitSession(s) PROVE TypeOK' /\ UpdaterOK'
  <2> DEFINE w == OpenUpdater(s.dirty)
             u == [w EXCEPT !.index = Truncated(@, s.keep)]
  <2>1. Begin(s, u, "blocks") /\ Openable(cslot, cdata, ceof)
    BY <1>3 DEF CommitSession, Begin
  <2>2. w \in Updater /\ JournalFits(w, cdata, ceof) /\ IndexFits(w, cdata, ceof)
    BY <2>1, OpenUpdaterOK, DirtySessions
  <2> HIDE DEF w
  <2>3. w.index \in Seq(Addr) /\ s.keep \in Nat
    BY <2>2, DirtySessions DEF Updater
  <2>4. /\ Truncated(w.index, s.keep) \in Seq(Addr)
        /\ \A k \in DOMAIN Truncated(w.index, s.keep) :
             k \in DOMAIN w.index /\ Truncated(w.index, s.keep)[k] = w.index[k]
    BY <2>3, TruncatedIndex
  <2>5. u \in Updater /\ u.index = Truncated(w.index, s.keep)
        /\ u.joff = w.joff /\ u.jlen = w.jlen
    BY <2>2, <2>4 DEF Updater
  <2>6. \A k \in DOMAIN u.index : u.index[k] <= ceof
    BY <2>2, <2>4, <2>5, IndexWithin DEF TypeOK
  <2>7. JournalFits(u, cdata, ceof)
    BY <2>2, <2>5 DEF JournalFits
  <2> HIDE DEF u
  <2>8. QED
    BY <2>1, <2>5, <2>6, <2>7, BeginKeepsTypes
<1>4. QED
  BY <1>1, <1>2, <1>3

-----------------------------------------------------------------------------
(* Type correctness                                                         *)

LEMMA GapBlockTypes ==
    ASSUME TypeOK, UpdaterOK, WriteGapBlock
    PROVE  TypeOK' /\ UpdaterOK'
<1> DEFINE cells == <<BlockCell(Zero)>>
<1>1. cells \in Seq(Cell) /\ Len(cells) = 1
  BY DEF BlockCell, Cell
<1>2. /\ WriteCells(cells) /\ pc = "blocks" /\ pc' = pc
      /\ up' = [up EXCEPT !.index = Append(@, ceof + 1)]
  BY DEF WriteGapBlock
<1> HIDE DEF cells
<1>3. /\ cdata' \in [Addr -> Cell] /\ ceof' \in Addr /\ ceof' = ceof + 1
      /\ ceof <= ceof' /\ \A a \in 1 .. ceof : cdata'[a] = cdata[a]
      /\ UNCHANGED <<cslot, sslot, sdata, seof, lostData, lostSlot>>
  BY <1>1, <1>2, WriteCellsEffect
<1>4. up.index \in Seq(Addr) /\ up \in Updater /\ ceof \in Addr
  BY DEF TypeOK, Updater
<1>5. Append(up.index, ceof + 1) \in Seq(Addr)
  BY <1>3, <1>4
<1>6. up' \in Updater /\ up'.index = Append(up.index, ceof + 1)
      /\ up'.joff = up.joff /\ up'.jlen = up.jlen
  BY <1>2, <1>4, <1>5 DEF Updater
<1>7. TypeOK'
  BY <1>2, <1>3, <1>6 DEF TypeOK
<1>8. JournalFits(up', cdata', ceof')
  <2>1. JournalFits(up, cdata', ceof')
    BY <1>2, <1>3, <1>4, FitsMonotone DEF UpdaterOK, Writing
  <2>2. QED
    BY <2>1, <1>6 DEF JournalFits
<1>9. \A i \in DOMAIN up'.index : up'.index[i] <= ceof'
  BY <1>2, <1>3, <1>4, <1>6, EofAssumption DEF UpdaterOK, Writing
<1>10. UpdaterOK'
  BY <1>2, <1>8, <1>9 DEF UpdaterOK, Writing
<1>11. QED
  BY <1>7, <1>10

LEMMA BlockTypes ==
    ASSUME TypeOK, UpdaterOK, WriteBlock
    PROVE  TypeOK' /\ UpdaterOK'
<1>1. PICK i \in DOMAIN up.todo :
         /\ i <= Len(up.index)
         /\ WriteCells(<<BlockCell(up.todo[i])>>)
         /\ up' = [up EXCEPT !.index = IF i = Len(@) THEN Append(@, ceof + 1)
                                       ELSE [@ EXCEPT ![i + 1] = ceof + 1],
                             !.todo = [j \in DOMAIN @ \ {i} |-> @[j]]]
  BY DEF WriteBlock
<1>2. pc = "blocks" /\ pc' = pc
  BY DEF WriteBlock
<1>3. up \in Updater /\ up.index \in Seq(Addr) /\ up.todo \in Dirty /\ ceof \in Addr
  BY DEF TypeOK, Updater
<1>4. PICK S \in SUBSET Blocks : up.todo \in [S -> Vals]
  BY <1>3 DEF Dirty
<1>5. i \in Nat /\ up.todo[i] \in Vals
  <2>1. i \in Blocks /\ up.todo[i] \in Vals
    BY <1>4
  <2>2. QED
    BY <2>1, BlocksAssumption, EofAssumption
<1> DEFINE cells == <<BlockCell(up.todo[i])>>
<1>6. cells \in Seq(Cell) /\ Len(cells) = 1 /\ WriteCells(cells)
  BY <1>1, <1>5 DEF BlockCell, Cell
<1> HIDE DEF cells
<1>7. /\ cdata' \in [Addr -> Cell] /\ ceof' \in Addr /\ ceof' = ceof + 1
      /\ ceof <= ceof' /\ \A a \in 1 .. ceof : cdata'[a] = cdata[a]
      /\ UNCHANGED <<cslot, sslot, sdata, seof, lostData, lostSlot>>
  BY <1>6, WriteCellsEffect
<1> DEFINE index == IF i = Len(up.index) THEN Append(up.index, ceof + 1)
                    ELSE [up.index EXCEPT ![i + 1] = ceof + 1]
           todo  == [j \in DOMAIN up.todo \ {i} |-> up.todo[j]]
<1>8. index \in Seq(Addr) /\ \A k \in DOMAIN index : index[k] <= ceof'
  <2>1. /\ Len(up.index) \in Nat /\ ceof + 1 \in Addr
        /\ \A k \in 1 .. Len(up.index) : up.index[k] <= ceof'
    BY <1>2, <1>3, <1>7, EofAssumption DEF UpdaterOK, Writing
  <2>2. CASE i = Len(up.index)
    <3> HIDE DEF Addr
    <3>1. index = Append(up.index, ceof + 1)
      BY <2>2
    <3>2. /\ index \in Seq(Addr) /\ Len(index) = Len(up.index) + 1
          /\ \A k \in 1 .. Len(up.index) : index[k] = up.index[k]
          /\ index[Len(up.index) + 1] = ceof + 1
      BY <1>3, <2>1, <3>1, AppendProperties
    <3>3. QED
      BY <1>7, <2>1, <3>2
  <2>3. CASE i # Len(up.index)
    <3> HIDE DEF Addr
    <3>1. index = [up.index EXCEPT ![i + 1] = ceof + 1]
      BY <2>3
    <3>2. i + 1 \in 1 .. Len(up.index)
      BY <1>1, <1>5, <2>1, <2>3
    <3>3. /\ index \in Seq(Addr) /\ Len(index) = Len(up.index)
          /\ \A k \in 1 .. Len(up.index) :
               index[k] = IF k = i + 1 THEN ceof + 1 ELSE up.index[k]
      BY <1>3, <2>1, <3>1, <3>2, ExceptSeq
    <3>4. QED
      BY <1>7, <2>1, <3>3
  <2>4. QED
    BY <2>2, <2>3
<1>9. todo \in Dirty
  <2>1. todo \in [S \ {i} -> Vals]
    BY <1>4
  <2>2. QED
    BY <2>1 DEF Dirty
<1>10. up' = [up EXCEPT !.index = index, !.todo = todo]
  BY <1>1, <1>3 DEF Updater
<1> HIDE DEF index, todo
<1>11. /\ up' \in Updater /\ up'.index = index
       /\ up'.joff = up.joff /\ up'.jlen = up.jlen
  BY <1>3, <1>8, <1>9, <1>10 DEF Updater
<1>12. TypeOK'
  BY <1>2, <1>7, <1>11 DEF TypeOK
<1>13. JournalFits(up', cdata', ceof')
  <2>1. JournalFits(up, cdata', ceof')
    BY <1>2, <1>3, <1>7, FitsMonotone DEF UpdaterOK, Writing
  <2>2. QED
    BY <2>1, <1>11 DEF JournalFits
<1>14. UpdaterOK'
  BY <1>2, <1>8, <1>11, <1>13 DEF UpdaterOK, Writing
<1>15. QED
  BY <1>12, <1>14

LEMMA IndexTypes ==
    ASSUME TypeOK, UpdaterOK, WriteIndex
    PROVE  TypeOK' /\ UpdaterOK'
<1> DEFINE cells == <<IndexCell(up.index)>>
           seal  == call.op = "seal"
<1>1. up \in Updater /\ up.index \in Seq(Addr) /\ ceof \in Addr
  BY DEF TypeOK, Updater
<1>2. cells \in Seq(Cell) /\ Len(cells) = 1 /\ cells[1] = IndexCell(up.index)
  BY <1>1 DEF IndexCell, Cell
<1>3. /\ WriteCells(cells) /\ pc = "blocks" /\ pc' = "barrier1"
      /\ up' = [up EXCEPT !.ioff = ceof + 1,
                          !.joff = IF seal THEN 0 ELSE @,
                          !.jlen = IF seal THEN 0 ELSE @]
  BY DEF WriteIndex
<1> HIDE DEF cells
<1>4. /\ cdata' \in [Addr -> Cell] /\ ceof' \in Addr /\ ceof' = ceof + 1
      /\ ceof <= ceof' /\ \A a \in 1 .. ceof : cdata'[a] = cdata[a]
      /\ cdata'[ceof + 1] = IndexCell(up.index)
      /\ UNCHANGED <<cslot, sslot, sdata, seof, lostData, lostSlot>>
  BY <1>2, <1>3, WriteCellsEffect
<1>5. /\ (IF seal THEN 0 ELSE up.joff) \in 0 .. MaxEof
      /\ (IF seal THEN 0 ELSE up.jlen) \in Nat
      /\ ceof + 1 \in 0 .. MaxEof
  BY <1>1, <1>4, EofAssumption DEF Updater
<1> HIDE DEF seal
<1>6. /\ up' \in Updater /\ up'.index = up.index /\ up'.ioff = ceof + 1
      /\ up'.joff = (IF seal THEN 0 ELSE up.joff)
      /\ up'.jlen = (IF seal THEN 0 ELSE up.jlen)
  BY <1>1, <1>3, <1>5 DEF Updater
<1>7. TypeOK'
  BY <1>3, <1>4, <1>6 DEF TypeOK
<1>8. \A i \in DOMAIN up'.index : up'.index[i] <= ceof /\ up'.index[i] \in Addr
  <2> HIDE DEF Addr
  <2>1. \A i \in 1 .. Len(up.index) : up.index[i] \in Addr
    BY <1>1, ElementOfSeq
  <2>2. QED
    BY <1>1, <1>3, <1>6, <2>1 DEF UpdaterOK, Writing
<1>9. JournalFits(up', cdata', ceof')
  <2>1. JournalFits(up, cdata', ceof')
    BY <1>1, <1>3, <1>4, FitsMonotone DEF UpdaterOK, Writing
  <2>2. QED
    BY <2>1, <1>6 DEF JournalFits
<1>10. IndexFits(up', cdata', ceof')
  BY <1>1, <1>4, <1>6, <1>8, EofAssumption DEF IndexFits
<1>11. UpdaterOK'
  BY <1>1, <1>3, <1>4, <1>8, <1>9, <1>10, EofAssumption DEF UpdaterOK, Writing
<1>12. QED
  BY <1>7, <1>11

\* The records copied past a ghost are all of the committed journal.
LEMMA CopiedCells ==
    ASSUME TypeOK, UpdaterOK, pc = "journal", up.joff # 0
    PROVE  LET cells == SubSeq(cdata, up.joff, up.joff + up.jlen - 1)
           IN  /\ cells \in Seq(Cell) /\ Len(cells) = up.jlen
               /\ \A k \in 1 .. up.jlen : cells[k].kind = "rec"
<1> DEFINE last == up.joff + up.jlen - 1
<1>1. up.joff \in Nat /\ up.jlen \in Nat /\ ceof \in Addr
  BY EofAssumption DEF TypeOK, Updater
<1>2. /\ up.joff >= 1 /\ up.jlen >= 1 /\ last <= ceof
      /\ \A a \in up.joff .. last : cdata[a].kind = "rec"
  BY DEF UpdaterOK, Writing, JournalFits
<1>3. /\ last \in Int /\ up.joff \in Int /\ up.joff <= last
      /\ last - up.joff + 1 = up.jlen
      /\ \A a \in up.joff .. last : a \in Addr
  BY <1>1, <1>2, EofAssumption
<1>4. \A a \in up.joff .. last : cdata[a] \in Cell
  BY <1>3 DEF TypeOK
<1>5. \A k \in 1 .. up.jlen : up.joff + k - 1 \in up.joff .. last
  BY <1>1, <1>3
<1> HIDE DEF last
<1>6. /\ SubSeq(cdata, up.joff, last) \in Seq(Cell)
      /\ Len(SubSeq(cdata, up.joff, last)) = up.jlen
      /\ \A k \in 1 .. up.jlen :
           SubSeq(cdata, up.joff, last)[k] = cdata[up.joff + k - 1]
  BY <1>3, <1>4, SubSeqProperties
<1>7. QED
  BY <1>2, <1>5, <1>6 DEF last

LEMMA CopyTypes ==
    ASSUME TypeOK, UpdaterOK, CopyJournal
    PROVE  TypeOK' /\ UpdaterOK'
<1> DEFINE cells == SubSeq(cdata, up.joff, up.joff + up.jlen - 1)
<1>1. /\ up \in Updater /\ ceof \in Addr /\ ceof \in Nat
      /\ up.joff \in Nat /\ up.jlen \in Nat
  BY EofAssumption DEF TypeOK, Updater
<1>2. /\ WriteCells(cells) /\ pc = "journal" /\ pc' = pc /\ call' = call
      /\ up' = [up EXCEPT !.joff = ceof + 1] /\ up.joff # 0
  BY DEF CopyJournal
<1>3. /\ up.joff >= 1 /\ up.jlen >= 1 /\ up.joff + up.jlen - 1 <= ceof
      /\ \A a \in up.joff .. up.joff + up.jlen - 1 : cdata[a].kind = "rec"
  BY <1>2 DEF UpdaterOK, Writing, JournalFits
<1>4. /\ cells \in Seq(Cell) /\ Len(cells) = up.jlen
      /\ \A k \in 1 .. up.jlen : cells[k].kind = "rec"
  BY <1>2, CopiedCells
<1> HIDE DEF cells
<1>5. /\ cdata' \in [Addr -> Cell] /\ ceof' \in Addr /\ ceof' = ceof + up.jlen
      /\ ceof <= ceof' /\ \A a \in 1 .. ceof : cdata'[a] = cdata[a]
      /\ \A k \in 1 .. up.jlen : cdata'[ceof + k] = cells[k]
      /\ UNCHANGED <<cslot, sslot, sdata, seof, lostData, lostSlot>>
  BY <1>2, <1>4, WriteCellsEffect
<1>6. ceof + 1 \in 0 .. MaxEof
  BY <1>1, <1>3, <1>5, EofAssumption
<1>7. /\ up' \in Updater /\ up'.index = up.index /\ up'.ioff = up.ioff
      /\ up'.joff = ceof + 1 /\ up'.jlen = up.jlen
  BY <1>1, <1>2, <1>6 DEF Updater
<1>8. TypeOK'
  BY <1>2, <1>5, <1>7 DEF TypeOK
<1>9. JournalFits(up', cdata', ceof')
  <2>1. \A a \in ceof + 1 .. ceof + up.jlen : cdata'[a].kind = "rec"
    <3> TAKE a \in ceof + 1 .. ceof + up.jlen
    <3>1. a - ceof \in 1 .. up.jlen /\ ceof + (a - ceof) = a
      BY <1>1
    <3>2. QED
      BY <3>1, <1>4, <1>5
  <2>2. ceof + 1 + up.jlen - 1 = ceof + up.jlen
    BY <1>1
  <2>3. QED
    BY <2>1, <2>2, <1>1, <1>3, <1>5, <1>7 DEF JournalFits
<1>10. IndexFits(up', cdata', ceof')
  <2>1. IndexFits(up, cdata', ceof')
    BY <1>1, <1>2, <1>5, FitsMonotone DEF UpdaterOK, Writing
  <2>2. QED
    BY <2>1, <1>7 DEF IndexFits
<1>11. \A i \in DOMAIN up'.index : up'.index[i] <= ceof'
  BY <1>5, <1>7, <1>10, IndexWithin
<1>12. UpdaterOK'
  BY <1>2, <1>9, <1>10, <1>11 DEF UpdaterOK, Writing
<1>13. QED
  BY <1>8, <1>12

LEMMA RecordTypes ==
    ASSUME TypeOK, UpdaterOK, WriteRecord
    PROVE  TypeOK' /\ UpdaterOK'
<1> DEFINE cells == <<RecCell(call.delta)>>
<1>1. /\ up \in Updater /\ ceof \in Addr /\ ceof \in Nat
      /\ up.joff \in Nat /\ up.jlen \in Nat
  BY EofAssumption DEF TypeOK, Updater
<1>2. /\ WriteCells(cells) /\ pc = "journal" /\ pc' = "barrier1"
      /\ up.joff = 0 \/ ceof + 1 = up.joff + up.jlen
      /\ up' = [up EXCEPT !.joff = IF @ = 0 THEN ceof + 1 ELSE @, !.jlen = @ + 1]
  BY DEF WriteRecord
<1>3. cells \in Seq(Cell) /\ Len(cells) = 1 /\ cells[1].kind = "rec"
  BY <1>2 DEF UpdaterOK, Writing, RecCell, Cell
<1> HIDE DEF cells
<1>4. /\ cdata' \in [Addr -> Cell] /\ ceof' \in Addr /\ ceof' = ceof + 1
      /\ ceof <= ceof' /\ \A a \in 1 .. ceof : cdata'[a] = cdata[a]
      /\ cdata'[ceof + 1].kind = "rec"
      /\ UNCHANGED <<cslot, sslot, sdata, seof, lostData, lostSlot>>
  <2>1. cdata'[ceof + 1] = cells[1]
    BY <1>2, <1>3, WriteCellsEffect
  <2>2. QED
    BY <2>1, <1>2, <1>3, WriteCellsEffect
<1> DEFINE joff == IF up.joff = 0 THEN ceof + 1 ELSE up.joff
<1>5. joff \in 0 .. MaxEof /\ up.jlen + 1 \in Nat
  BY <1>1, <1>4, EofAssumption DEF Updater
<1>6. /\ up' \in Updater /\ up'.index = up.index /\ up'.ioff = up.ioff
      /\ up'.joff = joff /\ up'.jlen = up.jlen + 1
  BY <1>1, <1>2, <1>5 DEF Updater
<1>7. TypeOK'
  BY <1>2, <1>4, <1>6 DEF TypeOK
<1>8. JournalFits(up', cdata', ceof')
  <2>1. JournalFits(up, cdata, ceof)
    BY <1>2 DEF UpdaterOK, Writing
  <2>2. CASE up.joff = 0
    <3>1. up.jlen = 0 /\ joff = ceof + 1
      BY <2>1, <2>2 DEF JournalFits
    <3>2. QED
      BY <3>1, <1>1, <1>4, <1>6 DEF JournalFits
  <2>3. CASE up.joff # 0
    <3>1. /\ joff = up.joff /\ up.joff >= 1 /\ up.jlen >= 1
          /\ ceof = up.joff + up.jlen - 1
          /\ \A a \in up.joff .. ceof : cdata[a].kind = "rec"
      BY <1>1, <1>2, <2>1, <2>3 DEF JournalFits
    <3>2. \A a \in up.joff .. ceof + 1 : cdata'[a].kind = "rec"
      BY <3>1, <1>1, <1>4
    <3>3. up.joff + (up.jlen + 1) - 1 = ceof + 1
      BY <3>1, <1>1
    <3>4. QED
      BY <3>1, <3>2, <3>3, <1>1, <1>4, <1>6 DEF JournalFits
  <2>4. QED
    BY <2>2, <2>3
<1>9. IndexFits(up', cdata', ceof')
  <2>1. IndexFits(up, cdata', ceof')
    BY <1>1, <1>2, <1>4, FitsMonotone DEF UpdaterOK, Writing
  <2>2. QED
    BY <2>1, <1>6 DEF IndexFits
<1>10. \A i \in DOMAIN up'.index : up'.index[i] <= ceof'
  BY <1>4, <1>6, <1>9, IndexWithin
<1>11. UpdaterOK'
  BY <1>2, <1>8, <1>9, <1>10 DEF UpdaterOK, Writing
<1>12. QED
  BY <1>7, <1>11

\* The updater of no call is well-typed, and nothing is required of it.
LEMMA NoUpTypes == NoUp \in Updater
<1>1. <<>> \in Seq(Addr) /\ <<>> \in Dirty /\ 0 \in 0 .. MaxEof
  BY DirtySessions, EofAssumption
<1>2. QED
  BY <1>1 DEF NoUp, Updater

LEMMA SyncTypes ==
    ASSUME TypeOK, UpdaterOK,
           Barrier1 \/ Barrier2 \/ FinalSync \/ SyncFile
    PROVE  TypeOK' /\ UpdaterOK'
<1>1. Sync
  BY DEF Barrier1, Barrier2, FinalSync, SyncFile
<1>2. sdata' \in [Addr -> Cell] /\ sslot' \in [Slots -> SuperBlock \cup {Torn}]
  BY <1>1 DEF Sync, TypeOK
<1>3. UNCHANGED <<cslot, cdata, ceof, lostData, lostSlot>> /\ seof' = ceof
  BY <1>1 DEF Sync, cache, lost
<1>4. /\ pc' \in {"idle", "superblock", "resync"}
      /\ up' \in Updater
      /\ pc' = "superblock" => pc = "barrier1" /\ up' = up
  BY NoUpTypes DEF TypeOK, Barrier1, Barrier2, FinalSync, SyncFile, ReturnOk
<1>5. TypeOK'
  BY <1>2, <1>3, <1>4 DEF TypeOK
<1>6. UpdaterOK'
  BY <1>3, <1>4 DEF UpdaterOK, Writing, JournalFits, IndexFits
<1>7. QED
  BY <1>5, <1>6

LEMMA SuperBlockType ==
    ASSUME TypeOK, UpdaterOK, pc = "superblock"
    PROVE  NewSuperBlock \in SuperBlock
<1>1. /\ up.seq + 1 \in Nat /\ up.index \in Seq(Addr)
      /\ up.joff \in 0 .. MaxEof /\ up.jlen \in Nat /\ up.ioff \in Addr
  BY EofAssumption DEF TypeOK, Updater, UpdaterOK, Writing, IndexFits
<1>2. QED
  BY <1>1 DEF NewSuperBlock, SuperBlock

LEMMA SuperBlockTypes ==
    ASSUME TypeOK, UpdaterOK, WriteSuperBlock \/ SuperBlockError
    PROVE  TypeOK' /\ UpdaterOK'
<1>1. pc = "superblock" /\ pc' \in {"idle", "barrier2"} /\ up' \in Updater
  BY NoUpTypes DEF WriteSuperBlock, SuperBlockError, Fail, TypeOK
<1>2. NewSuperBlock \in SuperBlock
  BY <1>1, SuperBlockType
<1>3. /\ cslot' \in [Slots -> SuperBlock \cup {Torn}]
      /\ lostSlot' \subseteq Slots
      /\ UNCHANGED <<cdata, ceof, sslot, sdata, seof, lostData>>
  <2>1. CASE WriteSuperBlock
    BY <1>2, <2>1 DEF WriteSuperBlock, TypeOK, stable
  <2>2. CASE SuperBlockError
    <3>1. cslot \in [Slots -> SuperBlock \cup {Torn}] /\ lostSlot \subseteq Slots
      BY DEF TypeOK
    <3>2. QED
      BY <1>2, <2>2, <3>1 DEF SuperBlockError, stable
  <2>3. QED
    BY <2>1, <2>2
<1>4. TypeOK'
  BY <1>1, <1>3 DEF TypeOK
<1>5. UpdaterOK'
  BY <1>1 DEF UpdaterOK, Writing
<1>6. QED
  BY <1>4, <1>5

LEMMA ErrorTypes ==
    ASSUME TypeOK, UpdaterOK, WriteError \/ SyncError \/ Crash
    PROVE  TypeOK' /\ UpdaterOK'
<1>1. pc' = "idle" /\ up' \in Updater
  BY NoUpTypes DEF WriteError, SyncError, Crash, Fail
<1>2. UpdaterOK'
  BY <1>1 DEF UpdaterOK, Writing
<1>3. JunkCell \in Cell
  BY DEF Cell
<1>4. CASE WriteError
  <2>1. cdata' \in [Addr -> Cell] /\ ceof' \in Addr
    BY <1>3, <1>4, EofAssumption DEF WriteError, TypeOK
  <2>2. UNCHANGED <<cslot, sslot, sdata, seof, lostData, lostSlot>>
    BY <1>4 DEF WriteError, stable, lost
  <2>3. QED
    BY <1>1, <1>2, <2>1, <2>2 DEF TypeOK
<1>5. CASE SyncError
  <2>1. /\ UNCHANGED <<cslot, cdata, ceof, sslot, sdata, seof>>
        /\ lostData' \subseteq Addr /\ lostSlot' \subseteq Slots
    BY <1>5 DEF SyncError, TypeOK, cache, stable, lost, DirtyAddr, DirtySlot
  <2>2. QED
    BY <1>1, <1>2, <2>1 DEF TypeOK
<1>6. CASE Crash
  <2>1. PICK e \in seof .. ceof, kept \in SUBSET DirtyAddr :
          /\ cdata' = [a \in Addr |-> IF a > e THEN JunkCell
                                      ELSE IF a \in kept THEN cdata[a] ELSE sdata[a]]
          /\ ceof' = e
    BY <1>6 DEF Crash
  <2>2. /\ lostData' = {} /\ lostSlot' = {}
        /\ sdata' = cdata' /\ sslot' = cslot' /\ seof' = ceof'
    BY <1>6 DEF Crash
  <2>3. cdata' \in [Addr -> Cell] /\ ceof' \in Addr
    BY <2>1, <1>3, EofAssumption DEF TypeOK
  <2>4. cslot' \in [Slots -> SuperBlock \cup {Torn}]
    <3>1. cslot' \in [Slots -> {cslot[s] : s \in Slots} \cup {sslot[s] : s \in Slots} \cup {Torn}]
      BY <1>6 DEF Crash
    <3>2. \A s \in Slots : /\ cslot[s] \in SuperBlock \cup {Torn}
                           /\ sslot[s] \in SuperBlock \cup {Torn}
      BY DEF TypeOK
    <3>3. QED
      BY <3>1, <3>2
  <2>5. QED
    BY <1>1, <1>2, <2>2, <2>3, <2>4 DEF TypeOK
<1>7. QED
  BY <1>4, <1>5, <1>6

LEMMA InitSuperBlock == Superblock0 \in SuperBlock
<1>1. <<>> \in Seq(Addr) /\ 1 \in Addr /\ 0 \in 0 .. MaxEof
  BY EofAssumption
<1>2. QED
  BY <1>1 DEF Superblock0, SuperBlock

LEMMA InitTypes == Init => TypeOK /\ UpdaterOK
<1> SUFFICES ASSUME Init PROVE TypeOK /\ UpdaterOK
  OBVIOUS
<1>1. Superblock0 \in SuperBlock
  BY InitSuperBlock
<1>2. IndexCell(<<>>) \in Cell /\ JunkCell \in Cell
  BY DEF IndexCell, Cell
<1>3. TypeOK
  BY <1>1, <1>2, NoUpTypes, EofAssumption DEF Init, TypeOK
<1>4. UpdaterOK
  BY DEF Init, UpdaterOK, Writing
<1>5. QED
  BY <1>3, <1>4

LEMMA StepTypes ==
    ASSUME TypeOK, UpdaterOK, [Next]_vars
    PROVE  TypeOK' /\ UpdaterOK'
<1>1. CASE UNCHANGED vars
  BY <1>1 DEF vars, TypeOK, UpdaterOK, Writing, JournalFits, IndexFits
<1>2. CASE Next
  BY <1>2, BeginTypes, GapBlockTypes, BlockTypes, IndexTypes, CopyTypes,
     RecordTypes, SyncTypes, SuperBlockTypes, ErrorTypes DEF Next
<1>3. QED
  BY <1>1, <1>2

\* The state of file, page cache and updater is well-typed in every reachable
\* state, in particular no call reads or writes a cell outside the file; it
\* holds whatever a failed fsync does.
THEOREM TypeCorrect == Spec => []TypeOK
<1>1. TypeOK /\ UpdaterOK /\ [Next]_vars => (TypeOK /\ UpdaterOK)'
  BY StepTypes
<1>2. QED
  BY <1>1, InitTypes, PTL DEF Spec

-----------------------------------------------------------------------------
(* Crash safety, when a failed fsync leaves its pages dirty                 *)

\* What a superblock describes lies within the file and does not change as
\* long as that part of the file does not.
LEMMA ValidMonotone ==
    ASSUME NEW sb \in SuperBlock, NEW d1, NEW d2, NEW e1 \in Addr, NEW e2 \in Addr,
           e1 <= e2, \A a \in 1 .. e1 : d2[a] = d1[a], Valid(sb, d1, e1)
    PROVE  /\ Valid(sb, d2, e2) /\ ViewOf(sb, d2) = ViewOf(sb, d1)
           /\ Reach(sb) \subseteq 1 .. e1
<1>1. /\ sb.ioff \in Addr /\ sb.icrc \in Seq(Addr) /\ sb.seq \in Nat
      /\ sb.joff \in 0 .. MaxEof /\ sb.jlen \in Nat
      /\ e1 \in Nat /\ e2 \in Nat /\ MaxEof \in Nat
  BY EofAssumption DEF SuperBlock
<1>2. sb.ioff \in 1 .. e1
  BY <1>1 DEF Valid
<1>3. \A i \in DOMAIN sb.icrc : sb.icrc[i] \in 1 .. e1
  <2>1. \A i \in DOMAIN sb.icrc : sb.icrc[i] \in Addr
    <3> HIDE DEF Addr
    <3>1. \A i \in 1 .. Len(sb.icrc) : sb.icrc[i] \in Addr
      BY <1>1, ElementOfSeq
    <3>2. QED
      BY <1>1, <3>1
  <2>2. QED
    BY <1>1, <1>2, <2>1 DEF Valid
<1>4. \A a \in sb.joff .. sb.joff + sb.jlen - 1 : a \in 1 .. e1
  BY <1>1 DEF Valid
<1>5. Valid(sb, d2, e2)
  <2>1. sb # Torn /\ sb.ioff <= e2 /\ d2[sb.ioff] = IndexCell(sb.icrc)
    BY <1>1, <1>2 DEF Valid
  <2>2. sb.jlen > 0 => /\ sb.joff >= 1 /\ sb.joff + sb.jlen - 1 <= e2
                       /\ \A a \in sb.joff .. sb.joff + sb.jlen - 1 : d2[a].kind = "rec"
    <3> SUFFICES ASSUME sb.jlen > 0
                 PROVE  /\ sb.joff >= 1 /\ sb.joff + sb.jlen - 1 <= e2
                        /\ \A a \in sb.joff .. sb.joff + sb.jlen - 1 : d2[a].kind = "rec"
      OBVIOUS
    <3>1. /\ sb.joff >= 1 /\ sb.joff + sb.jlen - 1 <= e1
          /\ \A a \in sb.joff .. sb.joff + sb.jlen - 1 : d1[a].kind = "rec"
      BY DEF Valid
    <3>2. sb.joff + sb.jlen - 1 <= e2
      BY <1>1, <3>1
    <3>3. \A a \in sb.joff .. sb.joff + sb.jlen - 1 : d2[a] = d1[a]
      BY <1>4
    <3>4. QED
      BY <3>1, <3>2, <3>3
  <2>3. QED
    BY <2>1, <2>2 DEF Valid
<1>6. ViewOf(sb, d2) = ViewOf(sb, d1)
  <2>1. [i \in DOMAIN sb.icrc |-> d2[sb.icrc[i]].val]
          = [i \in DOMAIN sb.icrc |-> d1[sb.icrc[i]].val]
    BY <1>3
  <2>2. \A k \in 1 .. sb.jlen : sb.joff + k - 1 \in 1 .. e1
    <3> TAKE k \in 1 .. sb.jlen
    <3>1. sb.joff + k - 1 \in sb.joff .. sb.joff + sb.jlen - 1
      BY <1>1
    <3>2. QED
      BY <3>1, <1>4
  <2>3. [k \in 1 .. sb.jlen |-> d2[sb.joff + k - 1].val]
          = [k \in 1 .. sb.jlen |-> d1[sb.joff + k - 1].val]
    BY <2>2
  <2>4. QED
    BY <2>1, <2>3 DEF ViewOf
<1>7. Reach(sb) \subseteq 1 .. e1
  BY <1>2, <1>3, <1>4 DEF Reach
<1>8. QED
  BY <1>5, <1>6, <1>7

\* Opening picks the newest slot if every slot that is not torn is usable.
LEMMA ActiveIsNewest ==
    ASSUME NEW slots \in [Slots -> SuperBlock \cup {Torn}], NEW data, NEW eof,
           \A s \in Slots : slots[s] # Torn => Valid(slots[s], data, eof),
           \E s \in Slots : slots[s] # Torn
    PROVE  LET a == Active(slots, data, eof)
           IN  /\ Openable(slots, data, eof)
               /\ a \in Slots /\ slots[a] # Torn
               /\ \A s \in Slots : slots[s] # Torn => slots[s].seq <= slots[a].seq
<1>1. Openable(slots, data, eof)
  BY DEF Openable
<1>2. /\ Active(slots, data, eof) \in Slots
      /\ Valid(slots[Active(slots, data, eof)], data, eof)
  BY <1>1, ActiveIsValid
<1>3. \A s \in Slots : Valid(slots[s], data, eof) => slots[s] # Torn
  BY DEF Valid
<1>4. \A s \in Slots : slots[s] # Torn => slots[s].seq \in Nat
  BY DEF SuperBlock
<1>5. \A s \in Slots : slots[s] # Torn => slots[s].seq <= slots[Active(slots, data, eof)].seq
  <2>1. CASE Active(slots, data, eof) = "A"
    BY <1>2, <1>3, <1>4, <2>1 DEF Active
  <2>2. CASE Active(slots, data, eof) = "B"
    BY <1>2, <1>3, <1>4, <2>2 DEF Active
  <2>3. QED
    BY <1>2, <2>1, <2>2
<1>6. QED
  BY <1>1, <1>2, <1>3, <1>5

\* Steps that only extend the page cache, or end a call.
LEMMA AppendFrame ==
    ASSUME TypeOK, UpdaterOK,
           \/ WriteGapBlock \/ WriteBlock \/ WriteIndex
           \/ CopyJournal \/ WriteRecord \/ WriteError
    PROVE  /\ UNCHANGED <<cslot, sslot, sdata, seof, lostData, lostSlot, acked>>
           /\ ceof <= ceof' /\ \A a \in 1 .. ceof : cdata'[a] = cdata[a]
           /\ pc' # "superblock"
           /\ pc' \in Writing => pc \in Writing /\ up'.slot = up.slot /\ up'.seq = up.seq
<1> DEFINE Frame(cells) == /\ cells \in Seq(Cell) /\ WriteCells(cells)
           Same == pc' \in Writing => pc \in Writing /\ up'.slot = up.slot /\ up'.seq = up.seq
<1>0. up \in Updater
  BY DEF TypeOK
<1>1. CASE WriteGapBlock
  <2>1. Frame(<<BlockCell(Zero)>>)
    BY <1>1 DEF WriteGapBlock, BlockCell, Cell
  <2>2. pc' = "blocks" /\ Same
    BY <1>0, <1>1 DEF WriteGapBlock, Writing, Updater
  <2>3. QED
    BY <2>1, <2>2, WriteCellsEffect
<1>2. CASE WriteBlock
  <2>1. PICK i \in DOMAIN up.todo :
          /\ WriteCells(<<BlockCell(up.todo[i])>>)
          /\ up'.slot = up.slot /\ up'.seq = up.seq
    BY <1>0, <1>2 DEF WriteBlock, Updater
  <2>2. up.todo[i] \in Vals
    BY <1>0 DEF Updater, Dirty
  <2>3. Frame(<<BlockCell(up.todo[i])>>)
    BY <2>1, <2>2 DEF BlockCell, Cell
  <2>4. pc' = "blocks" /\ Same
    BY <1>2, <2>1 DEF WriteBlock, Writing
  <2>5. QED
    BY <2>3, <2>4, WriteCellsEffect
<1>3. CASE WriteIndex
  <2>1. Frame(<<IndexCell(up.index)>>)
    BY <1>0, <1>3 DEF WriteIndex, IndexCell, Cell, Updater
  <2>2. pc' = "barrier1" /\ Same
    BY <1>0, <1>3 DEF WriteIndex, Writing, Updater
  <2>3. QED
    BY <2>1, <2>2, WriteCellsEffect
<1>4. CASE CopyJournal
  <2>1. Frame(SubSeq(cdata, up.joff, up.joff + up.jlen - 1))
    BY <1>4, CopiedCells DEF CopyJournal
  <2>2. pc' = "journal" /\ Same
    BY <1>0, <1>4 DEF CopyJournal, Writing, Updater
  <2>3. QED
    BY <2>1, <2>2, WriteCellsEffect
<1>5. CASE WriteRecord
  <2>1. Frame(<<RecCell(call.delta)>>)
    BY <1>5 DEF WriteRecord, RecCell, Cell, UpdaterOK
  <2>2. pc' = "barrier1" /\ Same
    BY <1>0, <1>5 DEF WriteRecord, Writing, Updater
  <2>3. QED
    BY <2>1, <2>2, WriteCellsEffect
<1>6. CASE WriteError
  <2>1. /\ UNCHANGED <<cslot, sslot, sdata, seof, lostData, lostSlot, acked>>
        /\ pc' = "idle"
    BY <1>6 DEF WriteError, Fail, stable, lost
  <2>2. ceof <= ceof' /\ \A a \in 1 .. ceof : cdata'[a] = cdata[a]
    BY <1>6, EofAssumption DEF WriteError, TypeOK
  <2>3. QED
    BY <2>1, <2>2 DEF Writing
<1>7. QED
  BY <1>1, <1>2, <1>3, <1>4, <1>5, <1>6

LEMMA AppendSafe ==
    ASSUME TypeOK, UpdaterOK, IInv,
           \/ WriteGapBlock \/ WriteBlock \/ WriteIndex
           \/ CopyJournal \/ WriteRecord \/ WriteError
    PROVE  IInv'
<1>1. /\ UNCHANGED <<cslot, sslot, sdata, seof, lostData, lostSlot, acked>>
      /\ ceof <= ceof' /\ \A a \in 1 .. ceof : cdata'[a] = cdata[a]
      /\ pc' # "superblock"
      /\ pc' \in Writing => pc \in Writing /\ up'.slot = up.slot /\ up'.seq = up.seq
  BY AppendFrame
<1>2. ceof \in Nat /\ seof \in Nat /\ ceof' \in Int
  <2>1. TypeOK'
    BY GapBlockTypes, BlockTypes, IndexTypes, CopyTypes, RecordTypes, ErrorTypes
  <2>2. QED
    BY <2>1, EofAssumption DEF TypeOK
<1>3. Agree'
  BY <1>1, <1>2 DEF IInv, Agree
<1>4. SlotsValid' /\ AckedOK'
  BY <1>1 DEF IInv, SlotsValid, AckedOK, Anchor, SameSeq, NamesAcked, Valid, ViewOf
<1>5. SyncedOK' /\ TargetOK'
  BY <1>1 DEF IInv, SyncedOK, TargetOK, Other
<1>6. QED
  BY <1>1, <1>3, <1>4, <1>5 DEF IInv

LEMMA BeginSafe ==
    ASSUME TypeOK, UpdaterOK, IInv,
           \/ \E d \in Deltas : AppendTail(d)
           \/ \E i \in Blocks, v \in Vals : SealTailBlock(i, v)
           \/ \E s \in Sessions : CommitSession(s)
    PROVE  IInv'
<1> DEFINE a == Active(cslot, cdata, ceof)
<1>1. \E todo \in Dirty : /\ up'.slot = OpenUpdater(todo).slot
                          /\ up'.seq = OpenUpdater(todo).seq
  BY DirtySessions DEF AppendTail, SealTailBlock, CommitSession, Begin, OpenUpdater
<1>2. /\ pc' \in {"journal", "blocks"} /\ Openable(cslot, cdata, ceof)
      /\ UNCHANGED <<cslot, cdata, ceof, sslot, sdata, seof, lostData, lostSlot, acked>>
  BY DEF AppendTail, SealTailBlock, CommitSession, Begin, cache, stable, lost
<1>3. /\ a \in Slots /\ cslot[a] # Torn
      /\ up'.slot = Other(a) /\ up'.seq = cslot[a].seq
  BY <1>1, <1>2, OpenUpdaterOK
<1>4. \A s \in Slots : cslot[s] # Torn => cslot[s].seq <= cslot[a].seq
  <2>1. \A s \in Slots : cslot[s] # Torn => Valid(cslot[s], cdata, ceof)
    BY ValidMonotone, EofAssumption DEF IInv, SlotsValid, Agree, TypeOK
  <2>2. cslot \in [Slots -> SuperBlock \cup {Torn}]
    BY DEF TypeOK
  <2>3. QED
    BY <1>3, <2>1, <2>2, ActiveIsNewest
<1>5. Other(a) \in Slots /\ Other(Other(a)) = a
  BY <1>3 DEF Other
<1> HIDE DEF a
<1>6. TargetOK'
  BY <1>2, <1>3, <1>4, <1>5 DEF TargetOK
<1>7. Agree' /\ SlotsValid' /\ AckedOK' /\ SyncedOK'
  <2>1. Agree' /\ SlotsValid'
    BY <1>2 DEF IInv, Agree, SlotsValid, Valid
  <2>2. AckedOK'
    BY <1>2 DEF IInv, AckedOK, Anchor, SameSeq, NamesAcked, ViewOf
  <2>3. SyncedOK'
    BY <1>2 DEF IInv, SyncedOK
  <2>4. QED
    BY <2>1, <2>2, <2>3
<1>8. QED
  BY <1>2, <1>6, <1>7 DEF IInv

\* What the two slots name keeps its meaning when the file only grows.
LEMMA SlotsKeepMeaning ==
    ASSUME TypeOK, IInv, NEW data, NEW eof \in Addr, seof <= eof,
           \A a \in 1 .. seof : data[a] = sdata[a],
           NEW s \in Slots, NEW sb \in {cslot[s], sslot[s]}, sb # Torn
    PROVE  /\ sb \in SuperBlock
           /\ Valid(sb, data, eof) /\ ViewOf(sb, data) = ViewOf(sb, sdata)
<1>1. sb \in SuperBlock /\ seof \in Addr
  BY DEF TypeOK
<1>2. Valid(sb, sdata, seof)
  BY DEF IInv, SlotsValid
<1>3. QED
  BY <1>1, <1>2, ValidMonotone

LEMMA SyncSafe ==
    ASSUME TypeOK, UpdaterOK, IInv,
           Barrier1 \/ Barrier2 \/ FinalSync \/ SyncFile
    PROVE  IInv'
<1>1. /\ sdata' = cdata /\ sslot' = cslot /\ seof' = ceof
      /\ UNCHANGED <<cslot, cdata, ceof, lostData, lostSlot>>
  <2>1. Sync
    BY DEF Barrier1, Barrier2, FinalSync, SyncFile
  <2>2. lostData = {} /\ lostSlot = {}
    BY DEF IInv
  <2>3. cdata = [a \in Addr |-> cdata[a]] /\ cslot = [s \in Slots |-> cslot[s]]
    BY DEF TypeOK
  <2>4. QED
    BY <2>1, <2>2, <2>3 DEF Sync, cache, lost
<1>2. ceof \in Addr /\ seof <= ceof /\ \A a \in 1 .. seof : cdata[a] = sdata[a]
  BY DEF TypeOK, IInv, Agree
<1>3. \A s \in Slots : cslot[s] # Torn =>
        /\ cslot[s] \in SuperBlock /\ Valid(cslot[s], cdata, ceof)
        /\ ViewOf(cslot[s], cdata) = ViewOf(cslot[s], sdata)
  BY <1>2, SlotsKeepMeaning
<1>4. Agree' /\ SlotsValid'
  BY <1>1, <1>2, <1>3, EofAssumption DEF Agree, SlotsValid
<1>5. AckedOK'
  <2>1. CASE acked' = acked
    <3>1. \E s \in Slots : Anchor(s)'
      BY <1>1, <2>1 DEF IInv, AckedOK, Anchor
    <3>2. \A s \in Slots : NamesAcked(cslot[s])' /\ NamesAcked(sslot[s])'
      BY <1>1, <1>3, <2>1 DEF IInv, AckedOK, NamesAcked
    <3>3. QED
      BY <1>1, <2>1, <3>1, <3>2 DEF IInv, AckedOK, SameSeq
  <2>2. CASE acked' = CacheView
    <3> DEFINE a == Active(cslot, cdata, ceof)
    <3>1. a \in Slots /\ cslot[a] # Torn
      <4>1. \E s \in Slots : cslot[s] # Torn
        BY DEF IInv, AckedOK, Anchor
      <4>2. cslot \in [Slots -> SuperBlock \cup {Torn}]
        BY DEF TypeOK
      <4>3. QED
        BY <1>3, <4>1, <4>2, ActiveIsNewest
    <3>2. acked' = ViewOf(cslot[a], cdata)
      BY <2>2 DEF CacheView, View
    <3>3. acked'.seq = cslot[a].seq /\ cslot[a].seq \in Nat
      BY <1>3, <3>1, <3>2 DEF ViewOf, SuperBlock
    <3> HIDE DEF a
    <3>4. \E s \in Slots : Anchor(s)'
      <4>1. sslot'[a] # Torn /\ cslot'[a] = sslot'[a] /\ sslot'[a].seq >= acked'.seq
        BY <1>1, <3>1, <3>3
      <4>2. QED
        BY <3>1, <4>1 DEF Anchor
    <3>5. \A s \in Slots : cslot[s] # Torn /\ cslot[s].seq = cslot[a].seq => cslot[s] = cslot[a]
      BY <3>1 DEF IInv, AckedOK, SameSeq
    <3>6. \A s \in Slots : NamesAcked(cslot[s])' /\ NamesAcked(sslot[s])'
      BY <1>1, <3>2, <3>3, <3>5 DEF NamesAcked
    <3>7. SameSeq(cslot)' /\ SameSeq(sslot)'
      BY <1>1 DEF IInv, AckedOK, SameSeq
    <3>8. QED
      BY <3>1, <3>3, <3>4, <3>6, <3>7 DEF AckedOK
  <2>3. acked' = acked \/ acked' = CacheView
    BY DEF Barrier1, Barrier2, FinalSync, SyncFile, ReturnOk
  <2>4. QED
    BY <2>1, <2>2, <2>3
<1>6. SyncedOK'
  BY <1>1 DEF SyncedOK
<1>7. TargetOK'
  <2>1. pc' \in Writing => pc = "barrier1" /\ up' = up
    BY DEF Barrier1, Barrier2, FinalSync, SyncFile, ReturnOk, Writing
  <2>2. QED
    BY <1>1, <2>1 DEF IInv, TargetOK, Writing
<1>8. QED
  BY <1>1, <1>4, <1>5, <1>6, <1>7 DEF IInv

LEMMA SuperBlockSafe ==
    ASSUME TypeOK, UpdaterOK, IInv, WriteSuperBlock \/ SuperBlockError
    PROVE  IInv'
<1> DEFINE o  == Other(up.slot)
           sb == cslot'[up.slot]
<1>1. /\ pc = "superblock" /\ pc' \in {"idle", "barrier2"}
      /\ UNCHANGED <<cdata, ceof, sslot, sdata, seof, lostData, acked>>
      /\ lostSlot' \subseteq lostSlot
  BY DEF WriteSuperBlock, SuperBlockError, Fail, stable
<1>2. up \in Updater /\ up.slot \in Slots /\ up.seq \in Nat
  BY DEF TypeOK, Updater
<1>3. o \in Slots /\ o # up.slot /\ \A s \in Slots : s = up.slot \/ s = o
  BY <1>2, OtherSlot
<1>4. /\ cslot'[o] = cslot[o]
      /\ sb \in {cslot[up.slot], NewSuperBlock, Torn}
  <2>1. cslot' = cslot \/ \E x \in {NewSuperBlock, Torn} : cslot' = [cslot EXCEPT ![up.slot] = x]
    BY DEF WriteSuperBlock, SuperBlockError
  <2>2. cslot \in [Slots -> SuperBlock \cup {Torn}]
    BY DEF TypeOK
  <2>3. QED
    BY <1>2, <1>3, <2>1, <2>2
<1>5. seof = ceof /\ sdata = cdata /\ sslot = cslot
  BY <1>1 DEF IInv, SyncedOK
<1>6. /\ cslot[o] # Torn /\ cslot[o].seq = up.seq
      /\ cslot[up.slot] # Torn => cslot[up.slot].seq <= up.seq
  BY <1>1 DEF IInv, TargetOK, Writing
<1>7. Valid(NewSuperBlock, sdata, seof)
  <2>1. JournalFits(up, sdata, seof) /\ IndexFits(up, sdata, seof)
    BY <1>1, <1>5 DEF UpdaterOK, Writing
  <2>2. NewSuperBlock # Torn
    BY <1>1, SuperBlockType, TornAssumption
  <2>3. /\ NewSuperBlock.ioff = up.ioff /\ NewSuperBlock.icrc = up.index
        /\ NewSuperBlock.joff = up.joff /\ NewSuperBlock.jlen = up.jlen
    BY DEF NewSuperBlock
  <2>4. up.ioff <= seof /\ up.jlen \in Nat
    BY <2>1, EofAssumption DEF IndexFits, TypeOK, Updater
  <2>5. QED
    BY <2>1, <2>2, <2>3, <2>4 DEF Valid, JournalFits, IndexFits
<1>8. acked.seq \in Nat /\ acked.seq <= up.seq
  <2>1. PICK s \in Slots : sslot[s] # Torn /\ sslot[s].seq >= acked.seq
    BY DEF IInv, AckedOK, Anchor
  <2>2. sslot[s].seq <= up.seq /\ sslot[s].seq \in Nat
    <3>1. sslot[s] \in SuperBlock
      BY <2>1 DEF TypeOK
    <3>2. QED
      BY <1>2, <1>3, <1>5, <1>6, <2>1, <3>1 DEF SuperBlock
  <2>3. acked.seq \in Nat
    BY DEF IInv, AckedOK
  <2>4. QED
    BY <1>2, <2>1, <2>2, <2>3
<1>9. NewSuperBlock.seq = up.seq + 1
  BY DEF NewSuperBlock
<1> HIDE DEF o, sb
<1>10. Agree'
  BY <1>1 DEF IInv, Agree
<1>11. SlotsValid'
  <2>1. \A s \in Slots : cslot'[s] # Torn => Valid(cslot'[s], sdata, seof)
    BY <1>3, <1>4, <1>7 DEF IInv, SlotsValid, sb
  <2>2. QED
    BY <1>1, <2>1 DEF IInv, SlotsValid
<1>12. AckedOK'
  <2>1. \E s \in Slots : Anchor(s)'
    <3>1. sslot'[o] # Torn /\ cslot'[o] = sslot'[o] /\ sslot'[o].seq >= acked'.seq
      BY <1>1, <1>2, <1>4, <1>5, <1>6, <1>8
    <3>2. QED
      BY <1>3, <3>1 DEF Anchor
  <2>2. SameSeq(cslot)'
    <3>1. sb = cslot[up.slot] \/ sb = Torn \/ sb.seq # cslot'[o].seq
      BY <1>2, <1>4, <1>6, <1>9
    <3>2. CASE sb = Torn \/ sb.seq # cslot'[o].seq
      BY <1>3, <3>2 DEF SameSeq, sb
    <3>3. CASE sb = cslot[up.slot]
      BY <1>3, <1>4, <3>3 DEF IInv, AckedOK, SameSeq, sb
    <3>4. QED
      BY <3>1, <3>2, <3>3
  <2>3. \A s \in Slots : NamesAcked(cslot'[s])
    <3>1. NamesAcked(NewSuperBlock)
      BY <1>2, <1>8, <1>9 DEF NamesAcked
    <3>2. NamesAcked(Torn)
      BY DEF NamesAcked
    <3>3. \A s \in Slots : NamesAcked(cslot[s])
      BY DEF IInv, AckedOK
    <3>4. NamesAcked(sb) /\ NamesAcked(cslot'[o])
      BY <1>2, <1>3, <1>4, <3>1, <3>2, <3>3
    <3>5. QED
      BY <1>3, <3>4 DEF sb
  <2>4. \A s \in Slots : NamesAcked(cslot[s])' /\ NamesAcked(sslot[s])'
    BY <1>1, <2>3 DEF IInv, AckedOK, NamesAcked, ViewOf
  <2>5. SameSeq(sslot)' /\ acked'.seq \in Nat
    BY <1>1, <1>8 DEF IInv, AckedOK, SameSeq
  <2>6. QED
    BY <1>3, <2>1, <2>2, <2>4, <2>5 DEF AckedOK
<1>13. SyncedOK' /\ TargetOK'
  BY <1>1 DEF SyncedOK, TargetOK, Writing
<1>14. QED
  BY <1>1, <1>10, <1>11, <1>12, <1>13 DEF IInv

LEMMA SyncErrorSafe ==
    ASSUME ~FailedSyncDropsDirty, IInv, SyncError
    PROVE  IInv'
<1>1. /\ UNCHANGED <<cslot, cdata, ceof, sslot, sdata, seof, lostData, lostSlot, acked>>
      /\ pc' = "idle"
  BY DEF SyncError, Fail, cache, stable, lost
<1>2. QED
  BY <1>1 DEF IInv, Agree, SlotsValid, AckedOK, SyncedOK, TargetOK, Writing,
              Anchor, SameSeq, NamesAcked, Valid, ViewOf

LEMMA CrashSafe ==
    ASSUME TypeOK, IInv, TypeOK', Crash
    PROVE  IInv'
<1>1. /\ sdata' = cdata' /\ sslot' = cslot' /\ seof' = ceof'
      /\ lostData' = {} /\ lostSlot' = {} /\ pc' = "idle" /\ acked' = acked
  BY DEF Crash, Fail
<1>2. /\ seof <= ceof' /\ ceof' \in Addr
      /\ \A a \in 1 .. seof : cdata'[a] = sdata[a]
  <2>1. PICK e \in seof .. ceof, kept \in SUBSET DirtyAddr :
          /\ cdata' = [a \in Addr |-> IF a > e THEN JunkCell
                                      ELSE IF a \in kept THEN cdata[a] ELSE sdata[a]]
          /\ ceof' = e
    BY DEF Crash
  <2>2. seof \in Addr /\ ceof \in Addr /\ ceof' \in Addr
    BY DEF TypeOK
  <2>3. \A a \in 1 .. seof : cdata[a] = sdata[a]
    BY DEF IInv, Agree
  <2>4. QED
    BY <2>1, <2>2, <2>3, EofAssumption
<1>3. \A s \in Slots : \/ cslot'[s] = sslot[s]
                       \/ s \in DirtySlot /\ cslot'[s] \in {cslot[s], Torn}
  BY DEF Crash
<1>4. PICK t \in Slots : Anchor(t)
  BY DEF IInv, AckedOK
<1>5. cslot'[t] = sslot[t] /\ cslot[t] = sslot[t] /\ sslot[t] # Torn
      /\ sslot[t].seq >= acked.seq
  BY <1>3, <1>4 DEF Anchor, DirtySlot
<1>6. \A s \in Slots : cslot'[s] # Torn =>
        /\ Valid(cslot'[s], cdata', ceof')
        /\ ViewOf(cslot'[s], cdata') = ViewOf(cslot'[s], sdata)
        /\ NamesAcked(cslot'[s])
  <2> SUFFICES ASSUME NEW s \in Slots, cslot'[s] # Torn
               PROVE  /\ Valid(cslot'[s], cdata', ceof')
                      /\ ViewOf(cslot'[s], cdata') = ViewOf(cslot'[s], sdata)
                      /\ NamesAcked(cslot'[s])
    OBVIOUS
  <2>1. cslot'[s] \in {cslot[s], sslot[s]}
    BY <1>3
  <2>2. NamesAcked(cslot[s]) /\ NamesAcked(sslot[s])
    BY DEF IInv, AckedOK
  <2>3. QED
    BY <1>2, <2>1, <2>2, SlotsKeepMeaning
<1>7. Agree' /\ SlotsValid'
  BY <1>1, <1>2, <1>6, EofAssumption DEF Agree, SlotsValid
<1>8. SameSeq(cslot')
  <2> DEFINE o == Other(t)
  <2>1. o \in Slots /\ o # t /\ \A s \in Slots : s = t \/ s = o
    BY OtherSlot
  <2>2. cslot'[o] \in {cslot[o], sslot[o], Torn}
    BY <1>3, <2>1
  <2> HIDE DEF o
  <2>3. SameSeq(cslot) /\ SameSeq(sslot)
    BY DEF IInv, AckedOK
  <2>4. cslot'[o] # Torn /\ cslot'[o].seq = cslot'[t].seq => cslot'[o] = cslot'[t]
    BY <1>5, <2>1, <2>2, <2>3 DEF SameSeq
  <2>5. QED
    BY <2>1, <2>4 DEF SameSeq
<1>9. AckedOK'
  <2>1. Anchor(t)'
    BY <1>1, <1>5 DEF Anchor
  <2>2. \A s \in Slots : NamesAcked(cslot[s])' /\ NamesAcked(sslot[s])'
    BY <1>1, <1>6 DEF NamesAcked
  <2>3. SameSeq(cslot)' /\ SameSeq(sslot)' /\ acked'.seq \in Nat
    BY <1>1, <1>8 DEF SameSeq, IInv, AckedOK
  <2>4. QED
    BY <2>1, <2>2, <2>3 DEF AckedOK
<1>10. SyncedOK' /\ TargetOK'
  BY <1>1 DEF SyncedOK, TargetOK, Writing
<1>11. QED
  BY <1>1, <1>7, <1>9, <1>10 DEF IInv

LEMMA InitSafe == Init => IInv
<1> SUFFICES ASSUME Init PROVE IInv
  OBVIOUS
<1>1. /\ cslot = [s \in Slots |-> Superblock0] /\ sslot = cslot
      /\ sdata = cdata /\ seof = 1 /\ ceof = 1 /\ cdata[1] = IndexCell(<<>>)
      /\ lostData = {} /\ lostSlot = {} /\ pc = "idle"
      /\ acked = [seq |-> 0, blocks |-> <<>>, tail |-> <<>>]
  BY EofAssumption DEF Init
<1>2. Superblock0 # Torn
  BY InitSuperBlock, TornAssumption
<1>3. Valid(Superblock0, sdata, seof)
  BY <1>1, <1>2 DEF Valid, Superblock0
<1>4. ViewOf(Superblock0, sdata) = acked
  <2>1. [i \in DOMAIN <<>> |-> sdata[Superblock0.icrc[i]].val] = <<>>
    OBVIOUS
  <2>2. [k \in 1 .. 0 |-> sdata[Superblock0.joff + k - 1].val] = <<>>
    OBVIOUS
  <2>3. QED
    BY <1>1, <2>1, <2>2 DEF ViewOf, Superblock0
<1>5. Agree /\ SlotsValid
  BY <1>1, <1>3 DEF Agree, SlotsValid
<1>6. AckedOK
  BY <1>1, <1>2, <1>4 DEF AckedOK, Anchor, SameSeq, NamesAcked, Superblock0
<1>7. SyncedOK /\ TargetOK
  BY <1>1 DEF SyncedOK, TargetOK, Writing
<1>8. QED
  BY <1>1, <1>5, <1>6, <1>7 DEF IInv

LEMMA StepSafe ==
    ASSUME ~FailedSyncDropsDirty, TypeOK, UpdaterOK, IInv, [Next]_vars
    PROVE  IInv'
<1>1. CASE UNCHANGED vars
  BY <1>1 DEF vars, IInv, Agree, SlotsValid, AckedOK, SyncedOK, TargetOK,
              Anchor, SameSeq, NamesAcked, Valid, ViewOf, Writing
<1>2. CASE Next
  <2>1. TypeOK'
    BY StepTypes
  <2>2. QED
    BY <1>2, <2>1, BeginSafe, AppendSafe, SyncSafe, SuperBlockSafe,
       SyncErrorSafe, CrashSafe DEF Next
<1>3. QED
  BY <1>1, <1>2

LEMMA Inductive ==
    ASSUME ~FailedSyncDropsDirty
    PROVE  Spec => [](TypeOK /\ UpdaterOK /\ IInv)
<1>1. TypeOK /\ UpdaterOK /\ IInv /\ [Next]_vars => (TypeOK /\ UpdaterOK /\ IInv)'
  BY StepTypes, StepSafe
<1>2. Init => TypeOK /\ UpdaterOK /\ IInv
  BY InitTypes, InitSafe
<1>3. QED
  BY <1>1, <1>2, PTL DEF Spec

LEMMA NewestSlots ==
    ASSUME TypeOK, IInv
    PROVE  AckedSurvives /\ AlwaysOpenable
<1>1. PICK t \in Slots : Anchor(t)
  BY DEF IInv, AckedOK
<1>2. sslot[t] # Torn /\ cslot[t] = sslot[t] /\ sslot[t].seq >= acked.seq
  BY <1>1 DEF Anchor
<1>3. ceof \in Addr /\ seof \in Addr /\ seof <= ceof
      /\ \A a \in 1 .. seof : cdata[a] = sdata[a]
  BY DEF TypeOK, IInv, Agree
<1>4. AlwaysOpenable
  BY <1>2, <1>3, SlotsKeepMeaning DEF AlwaysOpenable, Openable
<1>5. AckedSurvives
  <2> DEFINE a == Active(sslot, sdata, seof)
  <2>1. /\ Openable(sslot, sdata, seof)
        /\ a \in Slots /\ sslot[a] # Torn /\ sslot[t].seq <= sslot[a].seq
    <3>1. \A s \in Slots : sslot[s] # Torn => Valid(sslot[s], sdata, seof)
      BY DEF IInv, SlotsValid
    <3>2. sslot \in [Slots -> SuperBlock \cup {Torn}]
      BY DEF TypeOK
    <3>3. QED
      BY <1>2, <3>1, <3>2, ActiveIsNewest
  <2>2. StableView = ViewOf(sslot[a], sdata)
    BY DEF StableView, View
  <2> HIDE DEF a
  <2>3. StableView.seq = sslot[a].seq
    BY <2>2 DEF ViewOf
  <2>4. sslot[a].seq \in Nat /\ sslot[t].seq \in Nat /\ acked.seq \in Nat
    BY <1>2, <2>1 DEF TypeOK, SuperBlock, IInv, AckedOK
  <2>5. StableView.seq >= acked.seq
    BY <1>2, <2>1, <2>3, <2>4
  <2>6. StableView.seq = acked.seq => StableView = acked
    BY <2>1, <2>2, <2>3 DEF IInv, AckedOK, NamesAcked
  <2>7. QED
    BY <2>1, <2>5, <2>6 DEF AckedSurvives
<1>6. QED
  BY <1>4, <1>5

\* Whatever step a crash or an I/O error falls on, stable storage keeps a
\* usable slot whose version is no older than the last one a call reported
\* durable, and is that version if it has its number.
THEOREM CommitsAreDurable ==
    ASSUME ~FailedSyncDropsDirty
    PROVE  Spec => []AckedSurvives
<1>1. TypeOK /\ UpdaterOK /\ IInv => AckedSurvives
  BY NewestSlots
<1>2. QED
  BY <1>1, Inductive, PTL

\* The archive can be opened at every step of every call, failed ones
\* included: load_active always finds a usable slot.
THEOREM ArchiveOpens ==
    ASSUME ~FailedSyncDropsDirty
    PROVE  Spec => []AlwaysOpenable
<1>1. TypeOK /\ UpdaterOK /\ IInv => AlwaysOpenable
  BY NewestSlots
<1>2. QED
  BY <1>1, Inductive, PTL

LEMMA StepKeepsReachable ==
    ASSUME ~FailedSyncDropsDirty, TypeOK, UpdaterOK, IInv, [Next]_vars
    PROVE  \A a \in 1 .. seof : cdata'[a] = cdata[a] /\ sdata'[a] = sdata[a]
<1>1. /\ ceof \in Addr /\ seof \in Addr /\ seof <= ceof
      /\ \A a \in 1 .. seof : cdata[a] = sdata[a]
      /\ lostData = {}
  BY DEF TypeOK, IInv, Agree
<1>2. CASE UNCHANGED <<cdata, sdata>>
  BY <1>2
<1>3. CASE \/ WriteGapBlock \/ WriteBlock \/ WriteIndex
           \/ CopyJournal \/ WriteRecord \/ WriteError
  <2>1. sdata' = sdata /\ \A a \in 1 .. ceof : cdata'[a] = cdata[a]
    BY <1>3, AppendFrame
  <2>2. QED
    BY <1>1, <2>1, EofAssumption
<1>4. CASE Sync
  <2>1. cdata' = cdata /\ \A a \in Addr : sdata'[a] = cdata[a]
    BY <1>1, <1>4 DEF Sync, cache
  <2>2. QED
    BY <1>1, <2>1, EofAssumption
<1>5. CASE Crash
  <2>1. PICK e \in seof .. ceof, kept \in SUBSET DirtyAddr :
          cdata' = [a \in Addr |-> IF a > e THEN JunkCell
                                    ELSE IF a \in kept THEN cdata[a] ELSE sdata[a]]
    BY <1>5 DEF Crash
  <2>2. sdata' = cdata'
    BY <1>5 DEF Crash
  <2>3. QED
    BY <1>1, <2>1, <2>2, EofAssumption
<1>6. CASE UNCHANGED vars
  BY <1>2, <1>6 DEF vars
<1>7. \/ UNCHANGED <<cdata, sdata>> \/ Sync \/ Crash
      \/ WriteGapBlock \/ WriteBlock \/ WriteIndex
      \/ CopyJournal \/ WriteRecord \/ WriteError \/ UNCHANGED vars
  BY DEF Next, AppendTail, SealTailBlock, CommitSession, Begin, Barrier1, Barrier2,
         FinalSync, SyncFile, WriteSuperBlock, SuperBlockError, SyncError,
         cache, stable
<1>8. QED
  BY <1>2, <1>3, <1>4, <1>5, <1>6, <1>7

LEMMA ReachWithinStable ==
    ASSUME TypeOK, IInv, NEW s \in Slots
    PROVE  /\ cslot[s] # Torn => Reach(cslot[s]) \subseteq 1 .. seof
           /\ sslot[s] # Torn => Reach(sslot[s]) \subseteq 1 .. seof
<1> SUFFICES ASSUME NEW sb \in {cslot[s], sslot[s]}, sb # Torn
             PROVE  Reach(sb) \subseteq 1 .. seof
  OBVIOUS
<1>1. sb \in SuperBlock /\ seof \in Addr
  BY DEF TypeOK
<1>2. Valid(sb, sdata, seof) /\ seof <= seof
  BY <1>1, EofAssumption DEF IInv, SlotsValid
<1>3. QED
  BY <1>1, <1>2, ValidMonotone

\* C2 of the file format: no write, no commit and no crash changes a cell
\* that the superblock in either slot can reach, in the page cache or on
\* stable storage.
THEOREM SlotsKeepTheirCells ==
    ASSUME ~FailedSyncDropsDirty
    PROVE  Spec => ReachableNeverOverwritten
<1> DEFINE Kept ==
      \A s \in Slots :
        /\ cslot[s] # Torn => \A a \in Reach(cslot[s]) : cdata'[a] = cdata[a]
        /\ sslot[s] # Torn => \A a \in Reach(sslot[s]) : sdata'[a] = sdata[a]
<1>1. TypeOK /\ UpdaterOK /\ IInv /\ [Next]_vars => [Kept]_vars
  <2> SUFFICES ASSUME TypeOK, UpdaterOK, IInv, [Next]_vars
               PROVE  Kept
    OBVIOUS
  <2>1. \A a \in 1 .. seof : cdata'[a] = cdata[a] /\ sdata'[a] = sdata[a]
    BY StepKeepsReachable
  <2>2. QED
    BY <2>1, ReachWithinStable
<1>2. Spec => [][Next]_vars
  BY PTL DEF Spec
<1>3. QED
  BY <1>1, <1>2, Inductive, PTL DEF ReachableNeverOverwritten

-----------------------------------------------------------------------------
(* The archive implements the file that is replaced one version at a time:  *)
(* the version readers see changes at once, to what the call asked for, and *)
(* a crash returns to it or to the one before.                             *)
(*                                                                         *)
(* RefInv adds what the mapping needs: the updater's work so far, followed *)
(* by the work it has left, is the version the call must produce           *)
(* (Progress); and while one slot is not on stable storage, the other is   *)
(* the newest there (DirtyBehind).                                         *)

\* The blocks and the tail the updater u would commit.
BlocksOf(u, data) == [i \in DOMAIN u.index |-> data[u.index[i]].val]
TailOf(u, data)   == [k \in 1 .. u.jlen |-> data[u.joff + k - 1].val]

\* The version the call in progress must produce.
Goal == Abstract!Applied(CacheView, call)

\* The work done and the work left make the goal.
Progress ==
    /\ pc = "journal" =>
         /\ BlocksOf(up, cdata) = CacheView.blocks
         /\ TailOf(up, cdata) = CacheView.tail
    /\ pc = "blocks" =>
         /\ Abstract!Overlay(BlocksOf(up, cdata), Len(up.index), up.todo) = Goal.blocks
         /\ TailOf(up, cdata) = CacheView.tail
    /\ pc \in {"barrier1", "superblock"} =>
         /\ BlocksOf(up, cdata) = Goal.blocks
         /\ TailOf(up, cdata) = Goal.tail
    /\ pc \in Writing => up.seq = CacheView.seq

\* A slot that is not on stable storage leaves the other the newest there.
DirtyBehind ==
    \A s \in Slots : cslot[s] # sslot[s] =>
        /\ sslot[Other(s)] # Torn /\ cslot[Other(s)] = sslot[Other(s)]
        /\ sslot[s] # Torn => sslot[s].seq <= sslot[Other(s)].seq

CallOK ==
    /\ pc = "idle" => call = NoCall
    /\ pc # "idle" => call.op \in {"append", "seal", "session"}
    /\ pc = "journal" => call.op = "append"
    /\ pc = "blocks" => call.op \in {"seal", "session"}

RefInv == TypeOK /\ UpdaterOK /\ IInv /\ CallOK /\ DirtyBehind /\ Progress

-----------------------------------------------------------------------------
(* What is left to do of a list of dirty blocks                             *)

\* The number of blocks after writing the blocks D over the first base ones.
IsSize(n, base, D) ==
    /\ n \in Nat /\ n >= base /\ \A i \in D : n > i
    /\ n = base \/ \E i \in D : n = i + 1

LEMMA SizeExists ==
    ASSUME NEW base \in Nat, NEW D \in SUBSET (0 .. MaxEof)
    PROVE  \E n : IsSize(n, base, D)
<1> DEFINE Above == {k \in Nat : k >= base /\ \A i \in D : k > i}
<1>1. base + MaxEof + 1 \in Above
  BY EofAssumption
<1>2. PICK n \in Above : \A m \in Above : n <= m
  <2>1. Above # {} /\ Above \subseteq Nat
    BY <1>1
  <2> HIDE DEF Above
  <2>2. \E n \in Above : \A m \in Above : ~ (<<m, n>> \in OpToRel(<, Nat))
    BY <2>1, NatLessThanWellFounded, WFMin
  <2>3. PICK n \in Above : \A m \in Above : ~ (<<m, n>> \in OpToRel(<, Nat))
    BY <2>2
  <2>4. \A m \in Above : ~ (m < n)
    BY <2>1, <2>3 DEF OpToRel
  <2>5. QED
    BY <2>1, <2>4
<1>3. ASSUME n # base PROVE \E i \in D : n = i + 1
  <2>1. n \in Nat /\ n > base /\ \A i \in D : n > i /\ i \in Nat
    BY <1>2, <1>3, EofAssumption
  <2>2. n - 1 \in Nat /\ n - 1 >= base
    BY <2>1
  <2>3. n - 1 \notin Above
    BY <1>2, <2>1, <2>2
  <2>4. PICK i \in D : ~(n - 1 > i)
    BY <2>2, <2>3
  <2>5. n = i + 1
    BY <2>1, <2>4
  <2>6. QED
    BY <2>5
<1>4. QED
  BY <1>2, <1>3 DEF IsSize

\* The first base blocks, with the dirty ones written over them.
Written(blocks, base, dirty, n) ==
    [j \in 1 .. n |-> IF j - 1 \in DOMAIN dirty THEN dirty[j - 1]
                      ELSE IF j <= base THEN blocks[j] ELSE Zero]

LEMMA OverlayIs ==
    ASSUME NEW blocks, Len(blocks) \in Nat, NEW keep \in Nat, NEW dirty,
           DOMAIN dirty \subseteq 0 .. MaxEof,
           NEW base, keep < Len(blocks) => base = keep, keep >= Len(blocks) => base = Len(blocks),
           NEW n, IsSize(n, base, DOMAIN dirty)
    PROVE  Abstract!Overlay(blocks, keep, dirty) = Written(blocks, base, dirty, n)
<1> DEFINE D == DOMAIN dirty
           m == CHOOSE k \in {base} \cup {i + 1 : i \in D} : k >= base /\ \A i \in D : k > i
<1>1. base \in Nat /\ \A i \in D : i \in Nat
  BY EofAssumption
<1>2. n \in {base} \cup {i + 1 : i \in D} /\ n >= base /\ \A i \in D : n > i
  BY DEF IsSize
<1>3. m \in {base} \cup {i + 1 : i \in D} /\ m >= base /\ \A i \in D : m > i
  BY <1>2
<1>4. m = n
  <2> HIDE DEF m
  <2>1. m \in Nat /\ n \in Nat
    BY <1>1, <1>2, <1>3
  <2>2. QED
    BY <1>1, <1>2, <1>3, <2>1
<1>5. base = IF keep < Len(blocks) THEN keep ELSE Len(blocks)
  OBVIOUS
<1>6. Abstract!Overlay(blocks, keep, dirty) = Written(blocks, base, dirty, m)
  BY <1>5 DEF Abstract!Overlay, Written
<1>7. QED
  BY <1>4, <1>6

LEMMA OverlayAll ==
    ASSUME NEW blocks, Len(blocks) \in Nat, NEW dirty,
           DOMAIN dirty \subseteq 0 .. MaxEof, NEW n, IsSize(n, Len(blocks), DOMAIN dirty)
    PROVE  Abstract!Overlay(blocks, Len(blocks), dirty) = Written(blocks, Len(blocks), dirty, n)
BY OverlayIs

\* Nothing left to write: the blocks are those there are.
LEMMA OverlayNothing ==
    ASSUME NEW S, NEW blocks \in Seq(S), NEW dirty, DOMAIN dirty = {}
    PROVE  Abstract!Overlay(blocks, Len(blocks), dirty) = blocks
<1>1. Len(blocks) \in Nat /\ IsSize(Len(blocks), Len(blocks), DOMAIN dirty)
  BY DEF IsSize
<1>2. Abstract!Overlay(blocks, Len(blocks), dirty)
        = Written(blocks, Len(blocks), dirty, Len(blocks))
  BY <1>1, OverlayIs
<1>3. QED
  BY <1>1, <1>2 DEF Written

\* Truncating first makes no difference.
LEMMA OverlayTruncated ==
    ASSUME NEW blocks, Len(blocks) \in Nat, NEW keep \in Nat, NEW dirty,
           DOMAIN dirty \subseteq 0 .. MaxEof, NEW kept,
           keep < Len(blocks) => Len(kept) = keep,
           keep >= Len(blocks) => Len(kept) = Len(blocks),
           \A k \in 1 .. Len(kept) : kept[k] = blocks[k]
    PROVE  Abstract!Overlay(kept, Len(kept), dirty) = Abstract!Overlay(blocks, keep, dirty)
<1>1. Len(kept) \in Nat
  OBVIOUS
<1>2. PICK n : IsSize(n, Len(kept), DOMAIN dirty)
  BY <1>1, SizeExists
<1>3. Abstract!Overlay(blocks, keep, dirty) = Written(blocks, Len(kept), dirty, n)
  BY <1>2, OverlayIs
<1>4. Abstract!Overlay(kept, Len(kept), dirty) = Written(kept, Len(kept), dirty, n)
  BY <1>1, <1>2, OverlayIs
<1>5. Written(kept, Len(kept), dirty, n) = Written(blocks, Len(kept), dirty, n)
  BY <1>1, <1>2 DEF Written, IsSize
<1>6. QED
  BY <1>3, <1>4, <1>5

\* A gap block before the lowest dirty block was to come anyway.
LEMMA OverlayGap ==
    ASSUME NEW blocks, Len(blocks) \in Nat, NEW next, NEW dirty,
           DOMAIN dirty \subseteq 0 .. MaxEof, DOMAIN dirty # {},
           \A i \in DOMAIN dirty : Len(blocks) < i,
           Len(next) = Len(blocks) + 1, next[Len(blocks) + 1] = Zero,
           \A k \in 1 .. Len(blocks) : next[k] = blocks[k]
    PROVE  Abstract!Overlay(next, Len(next), dirty) = Abstract!Overlay(blocks, Len(blocks), dirty)
<1> DEFINE b == Len(blocks)
           D == DOMAIN dirty
<1>1. b \in Nat /\ Len(next) \in Nat /\ \A i \in D : i \in Nat
  BY EofAssumption
<1>2. PICK n : IsSize(n, b, D)
  BY <1>1, SizeExists
<1>3. IsSize(n, Len(next), D)
  BY <1>1, <1>2 DEF IsSize
<1>4. Abstract!Overlay(blocks, b, dirty) = Written(blocks, b, dirty, n)
  BY <1>1, <1>2, OverlayIs
<1>5. Abstract!Overlay(next, Len(next), dirty) = Written(next, Len(next), dirty, n)
  BY <1>1, <1>3, OverlayIs
<1>6. Written(next, Len(next), dirty, n) = Written(blocks, b, dirty, n)
  <2> SUFFICES ASSUME NEW j \in 1 .. n, j - 1 \notin D
               PROVE  (IF j <= Len(next) THEN next[j] ELSE Zero)
                        = (IF j <= b THEN blocks[j] ELSE Zero)
    BY DEF Written
  <2>1. j \in Nat /\ j >= 1 /\ (j <= Len(next) <=> (j <= b \/ j = b + 1))
    BY <1>1, <1>2 DEF IsSize
  <2>2. QED
    BY <1>1, <2>1
<1>7. QED
  BY <1>4, <1>5, <1>6

\* From blocks and dirty, next and left are what writing block i leaves, the
\* lowest dirty one.
WritesLowest(i, blocks, next, dirty, left) ==
    /\ i \in DOMAIN dirty /\ \A j \in DOMAIN dirty : i <= j
    /\ DOMAIN left = DOMAIN dirty \ {i} /\ \A j \in DOMAIN left : left[j] = dirty[j]
    /\ i <= Len(blocks) /\ next[i + 1] = dirty[i]
    /\ i = Len(blocks) => Len(next) = Len(blocks) + 1
    /\ i # Len(blocks) => Len(next) = Len(blocks)
    /\ \A k \in 1 .. Len(blocks) : k # i + 1 => next[k] = blocks[k]

\* It leaves the other blocks to write.
LEMMA OverlayBlock ==
    ASSUME NEW blocks, Len(blocks) \in Nat, NEW next, NEW dirty, NEW left,
           DOMAIN dirty \subseteq 0 .. MaxEof, NEW i,
           WritesLowest(i, blocks, next, dirty, left)
    PROVE  Abstract!Overlay(next, Len(next), left) = Abstract!Overlay(blocks, Len(blocks), dirty)
<1> USE DEF WritesLowest
<1> DEFINE b == Len(blocks)
           c == Len(next)
           D == DOMAIN dirty
           E == DOMAIN left
<1>1. b \in Nat /\ c \in Nat /\ i \in Nat /\ (\A j \in D : j \in Nat) /\ E = D \ {i}
      /\ \A j \in E : left[j] = dirty[j]
  BY EofAssumption
<1>2. PICK n : IsSize(n, b, D)
  BY <1>1, SizeExists
<1>3. IsSize(n, c, E)
  BY <1>1, <1>2 DEF IsSize
<1>4. Abstract!Overlay(blocks, b, dirty) = Written(blocks, b, dirty, n)
  BY <1>1, <1>2, OverlayIs
<1>5. Abstract!Overlay(next, c, left) = Written(next, c, left, n)
  <2>1. E \subseteq 0 .. MaxEof
    BY <1>1
  <2>2. QED
    BY <1>1, <1>3, <2>1, OverlayAll
<1>6. Written(next, c, left, n) = Written(blocks, b, dirty, n)
  <2> DEFINE At(s, f, base, j) == IF j - 1 \in DOMAIN f THEN f[j - 1]
                                  ELSE IF j <= base THEN s[j] ELSE Zero
  <2> SUFFICES ASSUME NEW j \in 1 .. n
               PROVE  At(next, left, c, j) = At(blocks, dirty, b, j)
    BY DEF Written
  <2>1. j \in Nat /\ j >= 1 /\ (i = j - 1 <=> j = i + 1)
    BY <1>1, <1>2 DEF IsSize
  <2>2. CASE j = i + 1
    BY <1>1, <2>1, <2>2
  <2>3. CASE j # i + 1
    BY <1>1, <2>1, <2>3
  <2>4. QED
    BY <2>2, <2>3
<1>7. QED
  BY <1>4, <1>5, <1>6

-----------------------------------------------------------------------------
(* What the slots and the updater say                                       *)

\* What is read at an address.
Contents == {c.val : c \in Cell}

LEMMA IndexAddresses ==
    ASSUME NEW u \in Updater
    PROVE  /\ DOMAIN u.index = 1 .. Len(u.index) /\ Len(u.index) \in Nat
           /\ \A k \in 1 .. Len(u.index) : u.index[k] \in Addr
<1> HIDE DEF Addr
<1>1. u.index \in Seq(Addr)
  BY DEF Updater
<1>2. QED
  BY <1>1, ElementOfSeq

LEMMA CellContents ==
    ASSUME NEW data \in [Addr -> Cell], NEW a \in Addr
    PROVE  data[a].val \in Contents
BY DEF Contents

\* The blocks an index names, and the records of a journal, are sequences.
LEMMA BlocksAreSeq ==
    ASSUME NEW u \in Updater, NEW data \in [Addr -> Cell]
    PROVE  /\ BlocksOf(u, data) \in Seq(Contents) /\ Len(BlocksOf(u, data)) = Len(u.index)
           /\ \A k \in 1 .. Len(u.index) : BlocksOf(u, data)[k] = data[u.index[k]].val
<1>1. Len(u.index) \in Nat /\ DOMAIN u.index = 1 .. Len(u.index)
  BY IndexAddresses
<1>2. \A k \in 1 .. Len(u.index) : data[u.index[k]].val \in Contents
  BY IndexAddresses, CellContents
<1>3. BlocksOf(u, data) = [k \in 1 .. Len(u.index) |-> data[u.index[k]].val]
  BY <1>1 DEF BlocksOf
<1> HIDE DEF Addr
<1>4. QED
  BY <1>1, <1>2, <1>3

LEMMA TailIsSeq ==
    ASSUME NEW u \in Updater, NEW data \in [Addr -> Cell], NEW eof \in Addr,
           JournalFits(u, data, eof)
    PROVE  /\ TailOf(u, data) \in Seq(Contents) /\ Len(TailOf(u, data)) = u.jlen
           /\ \A k \in 1 .. u.jlen : /\ u.joff + k - 1 \in 1 .. eof
                                     /\ TailOf(u, data)[k] = data[u.joff + k - 1].val
<1>1. u.jlen \in Nat /\ u.joff \in Nat /\ eof \in Nat /\ eof <= MaxEof
  BY EofAssumption DEF Updater
<1>2. \A k \in 1 .. u.jlen : u.joff + k - 1 \in 1 .. eof
  BY <1>1 DEF JournalFits
<1>3. \A k \in 1 .. u.jlen : u.joff + k - 1 \in Addr
  BY <1>1, <1>2, EofAssumption
<1>4. \A k \in 1 .. u.jlen : data[u.joff + k - 1].val \in Contents
  BY <1>3, CellContents
<1> HIDE DEF Addr
<1>5. QED
  BY <1>1, <1>2, <1>4 DEF TailOf

\* What the updater has written stays as the file grows.
LEMMA WorkStays ==
    ASSUME NEW u \in Updater, NEW d1, NEW d2, NEW e1 \in Addr, NEW e2 \in Addr,
           e1 <= e2, \A a \in 1 .. e1 : d2[a] = d1[a], JournalFits(u, d1, e1),
           \A i \in DOMAIN u.index : u.index[i] <= e1
    PROVE  BlocksOf(u, d2) = BlocksOf(u, d1) /\ TailOf(u, d2) = TailOf(u, d1)
<1>1. u.jlen \in Nat /\ u.joff \in Nat /\ e1 \in Nat
  BY EofAssumption DEF Updater
<1>2. \A i \in DOMAIN u.index : u.index[i] \in 1 .. e1
  <2>1. \A i \in DOMAIN u.index : u.index[i] \in 1 .. MaxEof
    BY IndexAddresses
  <2>2. QED
    BY <1>1, <2>1
<1>3. \A k \in 1 .. u.jlen : u.joff + k - 1 \in 1 .. e1
  BY <1>1 DEF JournalFits
<1>4. BlocksOf(u, d2) = BlocksOf(u, d1)
  BY <1>2 DEF BlocksOf
<1>5. TailOf(u, d2) = TailOf(u, d1)
  BY <1>3 DEF TailOf
<1>6. QED
  BY <1>4, <1>5

\* Opening shows the newest slot; if both are, they are the same.
LEMMA ViewIs ==
    ASSUME NEW slots \in [Slots -> SuperBlock \cup {Torn}], NEW data, NEW eof,
           SameSeq(slots), \A s \in Slots : slots[s] # Torn => Valid(slots[s], data, eof),
           NEW t \in Slots, slots[t] # Torn,
           slots[Other(t)] # Torn => slots[Other(t)].seq <= slots[t].seq
    PROVE  View(slots, data, eof) = ViewOf(slots[t], data)
<1> DEFINE a == Active(slots, data, eof)
<1>1. /\ a \in Slots /\ slots[a] # Torn
      /\ \A s \in Slots : slots[s] # Torn => slots[s].seq <= slots[a].seq
  BY ActiveIsNewest
<1> HIDE DEF a
<1>2. slots[a] = slots[t]
  <2>1. a = t \/ a = Other(t)
    BY <1>1, OtherSlot
  <2>2. CASE a = Other(t)
    <3>1. slots[a] \in SuperBlock /\ slots[t] \in SuperBlock
      BY <1>1
    <3>2. slots[a].seq = slots[t].seq
      BY <1>1, <2>2, <3>1 DEF SuperBlock
    <3>3. QED
      BY <1>1, <2>2, <3>2 DEF SameSeq, Other
  <2>3. QED
    BY <2>1, <2>2
<1>3. QED
  BY <1>2 DEF View, a

\* The same for slots that stable storage or the page cache may hold, over
\* data that extends what is on stable storage.
LEMMA ViewKeepsMeaning ==
    ASSUME TypeOK, IInv, NEW slots \in [Slots -> SuperBlock \cup {Torn}],
           \A s \in Slots : slots[s] \in {cslot[s], sslot[s], Torn}, SameSeq(slots),
           NEW data, NEW eof \in Addr, seof <= eof, \A a \in 1 .. seof : data[a] = sdata[a],
           NEW t \in Slots, slots[t] # Torn,
           slots[Other(t)] # Torn => slots[Other(t)].seq <= slots[t].seq
    PROVE  View(slots, data, eof) = ViewOf(slots[t], sdata)
<1>1. \A s \in Slots : slots[s] # Torn =>
        Valid(slots[s], data, eof) /\ ViewOf(slots[s], data) = ViewOf(slots[s], sdata)
  BY SlotsKeepMeaning
<1>2. View(slots, data, eof) = ViewOf(slots[t], data)
  BY <1>1, ViewIs
<1>3. QED
  BY <1>1, <1>2

\* There is a newest slot.
LEMMA NewestExists ==
    ASSUME NEW slots \in [Slots -> SuperBlock \cup {Torn}], \E s \in Slots : slots[s] # Torn
    PROVE  \E t \in Slots : /\ slots[t] # Torn
                            /\ slots[Other(t)] # Torn => slots[Other(t)].seq <= slots[t].seq
<1>1. \A s \in Slots : slots[s] # Torn => slots[s].seq \in Nat
  BY DEF SuperBlock
<1>2. QED
  BY <1>1 DEF Other

\* The page cache extends stable storage.
LEMMA CacheExtends ==
    ASSUME TypeOK, IInv
    PROVE  /\ cslot \in [Slots -> SuperBlock \cup {Torn}] /\ sslot \in [Slots -> SuperBlock \cup {Torn}]
           /\ SameSeq(cslot) /\ SameSeq(sslot)
           /\ ceof \in Addr /\ seof \in Addr /\ ceof \in Nat /\ seof \in Nat
           /\ seof <= ceof /\ \A a \in 1 .. seof : cdata[a] = sdata[a]
           /\ \E s \in Slots : cslot[s] # Torn /\ sslot[s] # Torn /\ cslot[s] = sslot[s]
BY EofAssumption DEF TypeOK, IInv, Agree, AckedOK, Anchor

\* Readers see the same while the slots stay and the file only grows.
LEMMA CacheViewStays ==
    ASSUME TypeOK, IInv, TypeOK', IInv', cslot' = cslot, seof <= ceof',
           \A a \in 1 .. seof : cdata'[a] = sdata[a]
    PROVE  CacheView' = CacheView
<1>1. PICK t \in Slots : /\ cslot[t] # Torn
                         /\ cslot[Other(t)] # Torn => cslot[Other(t)].seq <= cslot[t].seq
  BY CacheExtends, NewestExists
<1>2. CacheView = ViewOf(cslot[t], sdata)
  BY <1>1, CacheExtends, ViewKeepsMeaning DEF CacheView
<1>3. ceof' \in Addr
  BY DEF TypeOK
<1>4. View(cslot, cdata', ceof') = ViewOf(cslot[t], sdata)
  BY <1>1, <1>3, CacheExtends, ViewKeepsMeaning
<1>5. QED
  BY <1>2, <1>4 DEF CacheView

\* During a call, readers see the slot it does not write.
LEMMA ViewIsBase ==
    ASSUME TypeOK, IInv, pc \in Writing
    PROVE  LET o == Other(up.slot)
           IN  /\ o \in Slots /\ cslot[o] # Torn /\ cslot[o] \in SuperBlock
               /\ CacheView = ViewOf(cslot[o], cdata) /\ CacheView = ViewOf(cslot[o], sdata)
<1> DEFINE o == Other(up.slot)
<1>1. up.slot \in Slots
  BY DEF TypeOK, Updater
<1>2. o \in Slots /\ Other(o) = up.slot
  BY <1>1 DEF Other
<1>3. /\ cslot[o] # Torn /\ cslot[o].seq = up.seq
      /\ cslot[up.slot] # Torn => cslot[up.slot].seq <= up.seq
  BY DEF IInv, TargetOK
<1> HIDE DEF o
<1>4. CacheView = ViewOf(cslot[o], sdata)
  BY <1>2, <1>3, CacheExtends, ViewKeepsMeaning DEF CacheView
<1>5. ViewOf(cslot[o], cdata) = ViewOf(cslot[o], sdata) /\ cslot[o] \in SuperBlock
  BY <1>2, <1>3, CacheExtends, SlotsKeepMeaning
<1>6. QED
  BY <1>2, <1>3, <1>4, <1>5 DEF o

-----------------------------------------------------------------------------
(* The invariant holds                                                      *)

\* A sync makes all of the page cache durable.
LEMMA SyncEffect ==
    ASSUME TypeOK, IInv, Sync
    PROVE  /\ sdata' = cdata /\ sslot' = cslot /\ seof' = ceof
           /\ UNCHANGED <<cslot, cdata, ceof, lostData, lostSlot>>
<1>1. lostData = {} /\ lostSlot = {}
  BY DEF IInv
<1>2. cdata = [a \in Addr |-> cdata[a]] /\ cslot = [s \in Slots |-> cslot[s]]
  BY DEF TypeOK
<1>3. QED
  BY <1>1, <1>2 DEF Sync, cache, lost

LEMMA CallsStay ==
    ASSUME CallOK, [Next]_vars
    PROVE  CallOK'
<1>1. CASE UNCHANGED vars
  BY <1>1 DEF vars, CallOK
<1>2. CASE \/ \E d \in Deltas : AppendTail(d)
           \/ \E i \in Blocks, v \in Vals : SealTailBlock(i, v)
           \/ \E s \in Sessions : CommitSession(s)
  <2>1. \A s \in Sessions : s.op = "session"
    BY DEF Sessions
  <2>2. \/ pc' = "journal" /\ call'.op = "append"
        \/ pc' = "blocks" /\ call'.op \in {"seal", "session"}
    <3>1. CASE \E s \in Sessions : CommitSession(s)
      <4>1. PICK s \in Sessions : CommitSession(s)
        BY <3>1
      <4>2. QED
        BY <2>1, <4>1 DEF CommitSession, Begin
    <3>2. CASE \E d \in Deltas : AppendTail(d)
      BY <3>2 DEF AppendTail, Begin
    <3>3. CASE \E i \in Blocks, v \in Vals : SealTailBlock(i, v)
      BY <3>3 DEF SealTailBlock, Begin
    <3>4. QED
      BY <1>2, <3>1, <3>2, <3>3
  <2>3. QED
    BY <2>2 DEF CallOK
<1>3. CASE \/ WriteGapBlock \/ WriteBlock \/ WriteIndex \/ CopyJournal \/ WriteRecord
           \/ Barrier1 \/ WriteSuperBlock
  BY <1>3 DEF WriteGapBlock, WriteBlock, WriteIndex, CopyJournal, WriteRecord,
              Barrier1, WriteSuperBlock, CallOK
<1>4. CASE Barrier2 \/ FinalSync \/ SyncFile
  BY <1>4 DEF Barrier2, FinalSync, SyncFile, ReturnOk, CallOK, NoCall
<1>5. CASE WriteError \/ SuperBlockError \/ SyncError \/ Crash
  BY <1>5 DEF WriteError, SuperBlockError, SyncError, Crash, Fail, CallOK, NoCall
<1>6. QED
  BY <1>1, <1>2, <1>3, <1>4, <1>5 DEF Next

LEMMA DirtyStays ==
    ASSUME TypeOK, UpdaterOK, IInv, DirtyBehind, [Next]_vars
    PROVE  DirtyBehind'
<1>1. CASE UNCHANGED <<cslot, sslot>>
  BY <1>1 DEF DirtyBehind
<1>2. CASE Barrier1 \/ Barrier2 \/ FinalSync \/ SyncFile
  <2>1. Sync
    BY <1>2 DEF Barrier1, Barrier2, FinalSync, SyncFile
  <2>2. sslot' = cslot'
    BY <2>1, SyncEffect
  <2>3. QED
    BY <2>2 DEF DirtyBehind
<1>3. CASE Crash
  BY <1>3 DEF Crash, DirtyBehind
<1>4. CASE WriteSuperBlock \/ SuperBlockError
  <2> DEFINE o == Other(up.slot)
  <2>1. pc = "superblock" /\ sslot' = sslot /\ up.slot \in Slots
    BY <1>4 DEF WriteSuperBlock, SuperBlockError, stable, TypeOK, Updater
  <2>2. o \in Slots /\ o # up.slot /\ \A s \in Slots : s = up.slot \/ s = o
    BY <2>1, OtherSlot
  <2>3. cslot'[o] = cslot[o]
    BY <1>4, <2>2 DEF WriteSuperBlock, SuperBlockError, TypeOK
  <2>4. /\ sslot = cslot /\ cslot[o] # Torn
        /\ cslot[up.slot] # Torn => cslot[up.slot].seq <= cslot[o].seq
    BY <2>1 DEF IInv, SyncedOK, TargetOK, Writing
  <2> HIDE DEF o
  <2>5. \A s \in Slots : cslot'[s] # sslot'[s] => s = up.slot /\ Other(s) = o
    BY <2>1, <2>2, <2>3, <2>4 DEF o
  <2>6. QED
    BY <2>1, <2>3, <2>4, <2>5 DEF DirtyBehind
<1>5. CASE \/ WriteGapBlock \/ WriteBlock \/ WriteIndex
           \/ CopyJournal \/ WriteRecord \/ WriteError
  BY <1>1, <1>5, AppendFrame
<1>6. QED
  BY <1>1, <1>2, <1>3, <1>4, <1>5
     DEF Next, AppendTail, SealTailBlock, CommitSession, Begin, SyncError, vars, cache, stable

\* The version a call must produce.
LEMMA GoalIs ==
    ASSUME NEW v, NEW c
    PROVE  LET g == Abstract!Applied(v, c)
           IN  /\ g.seq = v.seq + 1
               /\ c.op = "append" => g.blocks = v.blocks /\ g.tail = Append(v.tail, c.delta)
               /\ c.op = "seal" => /\ g.blocks = Abstract!Overlay(v.blocks, Len(v.blocks), c.dirty)
                                   /\ g.tail = <<>>
               /\ c.op = "session" => /\ g.blocks = Abstract!Overlay(v.blocks, c.keep, c.dirty)
                                      /\ g.tail = v.tail
               /\ g = [seq |-> g.seq, blocks |-> g.blocks, tail |-> g.tail]
<1> DEFINE g == Abstract!Applied(v, c)
           bs == CASE c.op = "append"  -> v.blocks
                   [] c.op = "seal"    -> Abstract!Overlay(v.blocks, Len(v.blocks), c.dirty)
                   [] c.op = "session" -> Abstract!Overlay(v.blocks, c.keep, c.dirty)
           ts == CASE c.op = "append"  -> Append(v.tail, c.delta)
                   [] c.op = "seal"    -> <<>>
                   [] c.op = "session" -> v.tail
<1>0. g = [seq |-> v.seq + 1, blocks |-> bs, tail |-> ts]
  BY DEF Abstract!Applied
<1>1. /\ g.seq = v.seq + 1
      /\ g = [seq |-> g.seq, blocks |-> g.blocks, tail |-> g.tail]
  <2> HIDE DEF bs, ts, g
  <2>1. QED
    BY <1>0
<1>2. CASE c.op = "append"
  BY <1>1, <1>2 DEF Abstract!Applied
<1>3. CASE c.op = "seal"
  BY <1>1, <1>3 DEF Abstract!Applied
<1>4. CASE c.op = "session"
  BY <1>1, <1>4 DEF Abstract!Applied
<1>5. QED
  BY <1>1, <1>2, <1>3, <1>4

\* An updater starts from what readers see.
LEMMA OpenUpdaterShows ==
    ASSUME TypeOK, Openable(cslot, cdata, ceof), NEW todo \in Dirty
    PROVE  LET u == OpenUpdater(todo)
           IN  /\ BlocksOf(u, cdata) = CacheView.blocks
               /\ TailOf(u, cdata) = CacheView.tail
               /\ u.seq = CacheView.seq /\ u.todo = todo /\ u \in Updater
<1> DEFINE u == OpenUpdater(todo)
           sb == cslot[Active(cslot, cdata, ceof)]
<1>1. sb \in SuperBlock
  BY ActiveIsValid DEF Valid, TypeOK
<1>2. sb.jlen \in Nat
  BY <1>1 DEF SuperBlock
<1>3. /\ CacheView.seq = sb.seq
      /\ CacheView.blocks = [i \in DOMAIN sb.icrc |-> cdata[sb.icrc[i]].val]
      /\ CacheView.tail = [k \in 1 .. sb.jlen |-> cdata[sb.joff + k - 1].val]
  BY DEF CacheView, View, ViewOf
<1>4. /\ u.index = sb.icrc /\ u.seq = sb.seq /\ u.todo = todo /\ u.jlen = sb.jlen
      /\ u.joff = IF sb.jlen > 0 THEN sb.joff ELSE 0
  BY DEF OpenUpdater
<1>5. u \in Updater
  BY OpenUpdaterOK
<1> HIDE DEF u, sb
<1>6. TailOf(u, cdata) = CacheView.tail
  <2>1. CASE sb.jlen > 0
    BY <1>3, <1>4, <2>1 DEF TailOf
  <2>2. CASE ~(sb.jlen > 0)
    <3>1. 1 .. sb.jlen = {}
      BY <1>2, <2>2
    <3>2. QED
      BY <1>3, <1>4, <3>1 DEF TailOf
  <2>3. QED
    BY <2>1, <2>2
<1>7. QED
  BY <1>3, <1>4, <1>5, <1>6 DEF BlocksOf, u

LEMMA TruncatedLength ==
    ASSUME NEW index \in Seq(Addr), NEW keep \in Nat
    PROVE  /\ keep < Len(index) => Len(Truncated(index, keep)) = keep
           /\ keep >= Len(index) => Len(Truncated(index, keep)) = Len(index)
<1> DEFINE n == IF keep < Len(index) THEN keep ELSE Len(index)
<1>1. n \in 0 .. Len(index) /\ Len(index) \in Nat /\ DOMAIN index = 1 .. Len(index)
  OBVIOUS
<1>2. Truncated(index, keep) = SubSeq(index, 1, n)
  BY DEF Truncated
<1>3. \A k \in 1 .. n : index[k] \in Addr
  <2>1. \A k \in 1 .. Len(index) : index[k] \in Addr
    <3> HIDE DEF Addr
    <3>1. QED
      BY ElementOfSeq
  <2>2. QED
    BY <1>1, <2>1
<1> HIDE DEF n
<1>4. Len(SubSeq(index, 1, n)) = n
  <2>1. Len(SubSeq(index, 1, n)) = IF 1 <= n THEN n - 1 + 1 ELSE 0
    BY <1>1, <1>3, SubSeqProperties
  <2>2. QED
    BY <1>1, <2>1
<1>5. Len(Truncated(index, keep)) = n
  BY <1>2, <1>4
<1>6. QED
  BY <1>5 DEF n

\* A call starts with all its work to do.
LEMMA BeginProgress ==
    ASSUME TypeOK, UpdaterOK, IInv,
           \/ \E d \in Deltas : AppendTail(d)
           \/ \E i \in Blocks, v \in Vals : SealTailBlock(i, v)
           \/ \E s \in Sessions : CommitSession(s)
    PROVE  CacheView' = CacheView /\ StableView' = StableView /\ Progress'
<1> DEFINE B == CacheView.blocks
<1>1. /\ Openable(cslot, cdata, ceof)
      /\ UNCHANGED <<cslot, cdata, ceof, sslot, sdata, seof, acked>>
  BY DEF AppendTail, SealTailBlock, CommitSession, Begin, cache, stable
<1>2. CacheView' = CacheView /\ StableView' = StableView
  BY <1>1 DEF CacheView, StableView, View, ViewOf, Active, Valid
<1>3. Goal' = Abstract!Applied(CacheView, call')
  BY <1>2 DEF Goal
<1>4. cdata' \in [Addr -> Cell] /\ cdata' = cdata
  BY <1>1 DEF TypeOK
<1>5. ASSUME NEW todo \in Dirty
      PROVE  LET u == OpenUpdater(todo)
             IN  /\ BlocksOf(u, cdata) = B /\ TailOf(u, cdata) = CacheView.tail
                 /\ u.seq = CacheView.seq /\ u.todo = todo /\ u \in Updater
                 /\ Len(u.index) \in Nat /\ Len(B) = Len(u.index)
                 /\ \A k \in 1 .. Len(u.index) : B[k] = cdata[u.index[k]].val
  <2> DEFINE u == OpenUpdater(todo)
  <2>1. /\ BlocksOf(u, cdata) = B /\ TailOf(u, cdata) = CacheView.tail
        /\ u.seq = CacheView.seq /\ u.todo = todo /\ u \in Updater
    BY <1>1, OpenUpdaterShows
  <2> HIDE DEF u, B
  <2>2. /\ Len(u.index) \in Nat /\ Len(B) = Len(u.index)
        /\ \A k \in 1 .. Len(u.index) : B[k] = cdata[u.index[k]].val
    BY <1>4, <2>1, BlocksAreSeq, IndexAddresses
  <2>3. QED
    BY <2>1, <2>2 DEF u
<1>6. ASSUME NEW d \in Deltas, AppendTail(d) PROVE Progress'
  <2>1. up' = OpenUpdater(<<>>) /\ pc' = "journal"
    BY <1>6 DEF AppendTail, Begin
  <2>2. QED
    BY <1>2, <1>4, <1>5, <2>1, DirtySessions DEF Progress, Writing
<1>7. ASSUME NEW i \in Blocks, NEW v \in Vals, SealTailBlock(i, v) PROVE Progress'
  <2> DEFINE f == [j \in {i} |-> v]
  <2>1. /\ up' = OpenUpdater(f) /\ pc' = "blocks"
        /\ call' = [op |-> "seal", dirty |-> f]
    BY <1>7 DEF SealTailBlock, Begin
  <2>2. f \in Dirty
    BY DirtySessions
  <2> HIDE DEF f, B
  <2>3. /\ BlocksOf(up', cdata') = B /\ TailOf(up', cdata') = CacheView.tail
        /\ up'.seq = CacheView.seq /\ up'.todo = f /\ Len(up'.index) = Len(B)
    BY <1>4, <1>5, <2>1, <2>2
  <2>4. Goal'.blocks = Abstract!Overlay(B, Len(B), f)
    BY <1>3, <2>1, GoalIs DEF B
  <2>5. QED
    BY <1>2, <2>1, <2>3, <2>4 DEF Progress, Writing
<1>8. ASSUME NEW s \in Sessions, CommitSession(s) PROVE Progress'
  <2> DEFINE w == OpenUpdater(s.dirty)
             kept == BlocksOf(up', cdata')
  <2>1. /\ up' = [w EXCEPT !.index = Truncated(@, s.keep)] /\ pc' = "blocks" /\ call' = s
    BY <1>8 DEF CommitSession, Begin
  <2>2. s.dirty \in Dirty /\ s.keep \in Nat /\ s.op = "session"
    BY DirtySessions DEF Sessions
  <2>3. /\ BlocksOf(w, cdata) = B /\ TailOf(w, cdata) = CacheView.tail
        /\ w.seq = CacheView.seq /\ w.todo = s.dirty /\ w \in Updater
        /\ Len(w.index) \in Nat /\ Len(B) = Len(w.index)
        /\ \A k \in 1 .. Len(w.index) : B[k] = cdata[w.index[k]].val
    BY <1>5, <2>2
  <2> HIDE DEF w, B
  <2>4. w.index \in Seq(Addr)
    BY <2>3 DEF Updater
  <2>5. /\ up'.index = Truncated(w.index, s.keep) /\ up'.joff = w.joff /\ up'.jlen = w.jlen
        /\ up'.todo = s.dirty /\ up'.seq = CacheView.seq
    BY <2>1, <2>3 DEF Updater
  <2>6. up' \in Updater
    BY BeginTypes DEF TypeOK
  <2>7. /\ s.keep < Len(B) => Len(up'.index) = s.keep
        /\ s.keep >= Len(B) => Len(up'.index) = Len(B)
    BY <2>2, <2>3, <2>4, <2>5, TruncatedLength
  <2>8. \A k \in 1 .. Len(up'.index) : kept[k] = B[k]
    <3> TAKE k \in 1 .. Len(up'.index)
    <3>1. kept[k] = cdata[up'.index[k]].val
      BY <1>4, <2>6, BlocksAreSeq
    <3>2. up'.index[k] = w.index[k] /\ k \in 1 .. Len(w.index)
      <4>1. k \in DOMAIN up'.index
        BY <2>6, IndexAddresses
      <4> DEFINE t == Truncated(w.index, s.keep)
      <4>2. \A j \in DOMAIN t : j \in DOMAIN w.index /\ t[j] = w.index[j]
        BY <2>2, <2>4, TruncatedIndex
      <4>3. QED
        BY <2>3, <2>5, <4>1, <4>2, IndexAddresses
    <3>3. QED
      BY <2>3, <3>1, <3>2
  <2>9. Len(kept) = Len(up'.index)
    BY <1>4, <2>6, BlocksAreSeq
  <2>10. DOMAIN s.dirty \subseteq 0 .. MaxEof
    BY <2>2, BlocksAssumption DEF Dirty
  <2> HIDE DEF kept
  <2>11. Abstract!Overlay(kept, Len(kept), s.dirty) = Abstract!Overlay(B, s.keep, s.dirty)
    BY <2>2, <2>3, <2>7, <2>8, <2>9, <2>10, OverlayTruncated
  <2>12. Goal'.blocks = Abstract!Overlay(B, s.keep, s.dirty)
    BY <1>3, <2>1, <2>2, GoalIs DEF B
  <2>13. TailOf(up', cdata') = CacheView.tail
    BY <1>4, <2>3, <2>5 DEF TailOf
  <2>14. QED
    BY <1>2, <2>1, <2>5, <2>9, <2>11, <2>12, <2>13 DEF Progress, Writing, kept
<1>9. QED
  BY <1>2, <1>6, <1>7, <1>8

\* What an append step does to the file, and what it leaves of the work.
LEMMA AppendKeeps ==
    ASSUME TypeOK, UpdaterOK, IInv,
           \/ WriteGapBlock \/ WriteBlock \/ WriteIndex
           \/ CopyJournal \/ WriteRecord \/ WriteError
    PROVE  /\ TypeOK' /\ UpdaterOK' /\ CacheView' = CacheView /\ StableView' = StableView
           /\ ceof' \in Addr /\ ceof <= ceof' /\ \A a \in 1 .. ceof : cdata'[a] = cdata[a]
           /\ cdata' \in [Addr -> Cell] /\ up' \in Updater
           /\ pc \in Writing => /\ BlocksOf(up, cdata') = BlocksOf(up, cdata)
                                /\ TailOf(up, cdata') = TailOf(up, cdata)
<1>1. TypeOK' /\ UpdaterOK'
  BY GapBlockTypes, BlockTypes, IndexTypes, CopyTypes, RecordTypes, ErrorTypes
<1>2. IInv'
  BY AppendSafe
<1>3. /\ UNCHANGED <<cslot, sslot, sdata, seof>>
      /\ ceof <= ceof' /\ \A a \in 1 .. ceof : cdata'[a] = cdata[a]
  BY AppendFrame
<1>4. ceof \in Addr /\ ceof' \in Addr /\ up \in Updater /\ up' \in Updater
  BY <1>1 DEF TypeOK
<1>5. seof <= ceof' /\ \A a \in 1 .. seof : cdata'[a] = sdata[a]
  BY <1>3, <1>4, CacheExtends, EofAssumption
<1>6. CacheView' = CacheView
  BY <1>1, <1>2, <1>3, <1>5, CacheViewStays
<1>7. StableView' = StableView
  BY <1>3 DEF StableView, View, ViewOf, Active, Valid
<1>8. ASSUME pc \in Writing
      PROVE  BlocksOf(up, cdata') = BlocksOf(up, cdata) /\ TailOf(up, cdata') = TailOf(up, cdata)
  BY <1>3, <1>4, <1>8, WorkStays DEF UpdaterOK
<1>9. QED
  BY <1>1, <1>3, <1>4, <1>6, <1>7, <1>8 DEF TypeOK

LEMMA GapProgress ==
    ASSUME TypeOK, UpdaterOK, IInv, Progress, WriteGapBlock
    PROVE  Progress'
<1> DEFINE old == BlocksOf(up, cdata)
           new == BlocksOf(up', cdata')
<1>1. /\ WriteCells(<<BlockCell(Zero)>>) /\ pc = "blocks" /\ pc' = pc /\ call' = call
      /\ up' = [up EXCEPT !.index = Append(@, ceof + 1)]
      /\ DOMAIN up.todo # {} /\ \A i \in DOMAIN up.todo : Len(up.index) < i
  BY DEF WriteGapBlock
<1>2. /\ up \in Updater /\ up' \in Updater /\ cdata \in [Addr -> Cell] /\ cdata' \in [Addr -> Cell]
      /\ CacheView' = CacheView /\ ceof \in Addr
      /\ BlocksOf(up, cdata') = old /\ TailOf(up, cdata') = TailOf(up, cdata)
  BY <1>1, AppendKeeps DEF TypeOK, Writing
<1>3. /\ up'.index = Append(up.index, ceof + 1) /\ up'.todo = up.todo /\ up'.seq = up.seq
      /\ up'.joff = up.joff /\ up'.jlen = up.jlen
  BY <1>1, <1>2 DEF Updater
<1>4. /\ Len(up.index) \in Nat /\ Len(up'.index) = Len(up.index) + 1
      /\ up'.index[Len(up.index) + 1] = ceof + 1
      /\ \A k \in 1 .. Len(up.index) : up'.index[k] = up.index[k]
  <2> HIDE DEF Addr
  <2>1. up.index \in Seq(Addr) /\ ceof + 1 \in Int
    BY <1>2, EofAssumption DEF Updater, Addr
  <2>2. \A k \in 1 .. Len(up.index) : up.index[k] \in Addr
    BY <2>1, ElementOfSeq
  <2>3. QED
    BY <1>3, <2>1, <2>2
<1>5. cdata'[ceof + 1].val = Zero
  <2> DEFINE cells == <<BlockCell(Zero)>>
  <2>1. cells \in Seq(Cell) /\ Len(cells) = 1 /\ cells[1] = BlockCell(Zero) /\ WriteCells(cells)
    BY <1>1 DEF BlockCell, Cell
  <2> HIDE DEF cells
  <2>2. cdata'[ceof + 1] = BlockCell(Zero)
    BY <2>1, WriteCellsEffect
  <2>3. QED
    BY <2>2 DEF BlockCell
<1>6. /\ Len(old) = Len(up.index) /\ Len(new) = Len(up'.index)
      /\ \A k \in 1 .. Len(up.index) : old[k] = cdata'[up.index[k]].val
      /\ \A k \in 1 .. Len(up'.index) : new[k] = cdata'[up'.index[k]].val
  BY <1>2, BlocksAreSeq
<1>7. DOMAIN up.todo \subseteq 0 .. MaxEof
  BY <1>2, BlocksAssumption DEF Updater, Dirty
<1> HIDE DEF old, new
<1>8. Abstract!Overlay(new, Len(new), up.todo) = Abstract!Overlay(old, Len(old), up.todo)
  <2> DEFINE n == Len(up.index)
  <2>1. n \in Nat /\ Len(old) = n /\ Len(new) = n + 1
    BY <1>4, <1>6
  <2> HIDE DEF n
  <2>2. new[n + 1] = Zero
    BY <1>4, <1>5, <1>6, <2>1 DEF n
  <2>3. \A k \in 1 .. n : new[k] = old[k]
    BY <1>4, <1>6, <2>1 DEF n
  <2>4. \A i \in DOMAIN up.todo : Len(old) < i
    BY <1>1, <1>6
  <2>5. QED
    BY <1>1, <1>7, <2>1, <2>2, <2>3, <2>4, OverlayGap
<1>9. TailOf(up', cdata') = TailOf(up, cdata')
  BY <1>3 DEF TailOf
<1>10. QED
  BY <1>1, <1>2, <1>3, <1>6, <1>8, <1>9 DEF Progress, Goal, Writing, old, new

LEMMA BlockProgress ==
    ASSUME TypeOK, UpdaterOK, IInv, Progress, WriteBlock
    PROVE  Progress'
<1> DEFINE old == BlocksOf(up, cdata)
           new == BlocksOf(up', cdata')
<1>1. PICK i \in DOMAIN up.todo :
         /\ \A j \in DOMAIN up.todo : i <= j
         /\ i <= Len(up.index)
         /\ WriteCells(<<BlockCell(up.todo[i])>>)
         /\ up' = [up EXCEPT !.index = IF i = Len(@) THEN Append(@, ceof + 1)
                                       ELSE [@ EXCEPT ![i + 1] = ceof + 1],
                             !.todo = [j \in DOMAIN @ \ {i} |-> @[j]]]
  BY DEF WriteBlock
<1>2. /\ pc = "blocks" /\ pc' = pc /\ call' = call
      /\ up \in Updater /\ up' \in Updater /\ cdata \in [Addr -> Cell] /\ cdata' \in [Addr -> Cell]
      /\ CacheView' = CacheView /\ ceof \in Addr
      /\ BlocksOf(up, cdata') = old /\ TailOf(up, cdata') = TailOf(up, cdata)
  <2>1. pc = "blocks" /\ pc' = pc /\ call' = call
    BY DEF WriteBlock
  <2>2. QED
    BY <2>1, AppendKeeps DEF TypeOK, Writing
<1> DEFINE left == [j \in DOMAIN up.todo \ {i} |-> up.todo[j]]
           index == IF i = Len(up.index) THEN Append(up.index, ceof + 1)
                    ELSE [up.index EXCEPT ![i + 1] = ceof + 1]
<1>3. up' = [up EXCEPT !.index = index, !.todo = left]
  BY <1>1, <1>2 DEF Updater
<1> HIDE DEF left, index
<1>4. /\ up'.index = index /\ up'.todo = left /\ up'.seq = up.seq
      /\ up'.joff = up.joff /\ up'.jlen = up.jlen
  BY <1>2, <1>3 DEF Updater
<1>5. i \in Nat /\ up.todo[i] \in Vals /\ DOMAIN up.todo \subseteq 0 .. MaxEof
  <2>1. up.todo \in Dirty
    BY <1>2 DEF Updater
  <2>2. PICK S \in SUBSET Blocks : up.todo \in [S -> Vals]
    BY <2>1 DEF Dirty
  <2>3. DOMAIN up.todo = S /\ up.todo[i] \in Vals
    BY <2>2
  <2>4. S \subseteq 0 .. MaxEof
    BY BlocksAssumption
  <2>5. i \in 0 .. MaxEof
    BY <2>3, <2>4
  <2>6. QED
    BY <2>3, <2>4, <2>5, EofAssumption
<1>6. /\ Len(up.index) \in Nat
      /\ Len(index) = (IF i = Len(up.index) THEN Len(up.index) + 1 ELSE Len(up.index))
      /\ index[i + 1] = ceof + 1
      /\ \A k \in 1 .. Len(up.index) : k # i + 1 => index[k] = up.index[k]
  <2> HIDE DEF Addr
  <2>1. up.index \in Seq(Addr) /\ ceof + 1 \in Int
    BY <1>2, EofAssumption DEF Updater, Addr
  <2>2. /\ Len(up.index) \in Nat /\ DOMAIN up.index = 1 .. Len(up.index)
        /\ \A k \in 1 .. Len(up.index) : up.index[k] \in Addr
    BY <2>1, ElementOfSeq
  <2>3. CASE i = Len(up.index)
    <3>1. index = Append(up.index, ceof + 1)
      BY <2>3 DEF index
    <3>2. QED
      BY <2>1, <2>2, <2>3, <3>1
  <2>4. CASE i # Len(up.index)
    <3>1. index = [up.index EXCEPT ![i + 1] = ceof + 1]
      BY <2>4 DEF index
    <3>2. i + 1 \in 1 .. Len(up.index)
      BY <1>1, <1>5, <2>2, <2>4
    <3>3. ceof + 1 \in Addr
      BY <1>1, <1>2, EofAssumption DEF WriteCells, Addr
    <3>4. QED
      BY <2>1, <2>2, <2>4, <3>1, <3>2, <3>3, ExceptSeq
  <2>5. QED
    BY <2>3, <2>4
<1>7. cdata'[ceof + 1].val = up.todo[i]
  <2> DEFINE cells == <<BlockCell(up.todo[i])>>
  <2>1. cells \in Seq(Cell) /\ Len(cells) = 1 /\ cells[1] = BlockCell(up.todo[i]) /\ WriteCells(cells)
    BY <1>1, <1>5 DEF BlockCell, Cell
  <2> HIDE DEF cells
  <2>2. cdata'[ceof + 1] = BlockCell(up.todo[i])
    <3>1. \A k \in 1 .. Len(cells) : cdata'[ceof + k] = cells[k]
      BY <2>1, WriteCellsEffect
    <3>2. QED
      BY <2>1, <3>1
  <2>3. QED
    BY <2>2 DEF BlockCell
<1>8. /\ Len(old) = Len(up.index) /\ Len(new) = Len(index)
      /\ \A k \in 1 .. Len(up.index) : old[k] = cdata'[up.index[k]].val
      /\ \A k \in 1 .. Len(index) : new[k] = cdata'[index[k]].val
  BY <1>2, <1>4, BlocksAreSeq
<1> HIDE DEF old, new
<1>9. Abstract!Overlay(new, Len(new), left) = Abstract!Overlay(old, Len(old), up.todo)
  <2>1. /\ Len(old) \in Nat /\ i <= Len(old)
        /\ i = Len(old) => Len(new) = Len(old) + 1
        /\ i # Len(old) => Len(new) = Len(old)
    BY <1>1, <1>6, <1>8
  <2>2. new[i + 1] = up.todo[i]
    BY <1>1, <1>5, <1>6, <1>7, <1>8
  <2>3. \A k \in 1 .. Len(old) : k # i + 1 => new[k] = old[k]
    BY <1>6, <1>8
  <2>4. /\ DOMAIN left = DOMAIN up.todo \ {i}
        /\ \A j \in DOMAIN left : left[j] = up.todo[j]
    BY DEF left
  <2>5. QED
    <3>1. WritesLowest(i, old, new, up.todo, left)
      BY <1>1, <2>1, <2>2, <2>3, <2>4 DEF WritesLowest
    <3>2. QED
      BY <1>5, <2>1, <3>1, OverlayBlock
<1>10. TailOf(up', cdata') = TailOf(up, cdata')
  BY <1>4 DEF TailOf
<1>11. QED
  BY <1>2, <1>4, <1>8, <1>9, <1>10 DEF Progress, Goal, Writing, old, new

LEMMA IndexProgress ==
    ASSUME TypeOK, UpdaterOK, IInv, CallOK, Progress, WriteIndex
    PROVE  Progress'
<1> DEFINE B == BlocksOf(up, cdata)
<1>1. /\ pc = "blocks" /\ pc' = "barrier1" /\ call' = call /\ DOMAIN up.todo = {}
      /\ up' = [up EXCEPT !.ioff = ceof + 1,
                          !.joff = IF call.op = "seal" THEN 0 ELSE @,
                          !.jlen = IF call.op = "seal" THEN 0 ELSE @]
  BY DEF WriteIndex
<1>2. /\ up \in Updater /\ cdata \in [Addr -> Cell]
      /\ CacheView' = CacheView
      /\ BlocksOf(up, cdata') = B /\ TailOf(up, cdata') = TailOf(up, cdata)
  BY <1>1, AppendKeeps DEF TypeOK, Writing
<1>3. /\ up'.index = up.index /\ up'.seq = up.seq
      /\ up'.joff = (IF call.op = "seal" THEN 0 ELSE up.joff)
      /\ up'.jlen = (IF call.op = "seal" THEN 0 ELSE up.jlen)
  BY <1>1, <1>2 DEF Updater
<1>4. B \in Seq(Contents) /\ Len(B) = Len(up.index)
  BY <1>2, BlocksAreSeq
<1> HIDE DEF B
<1>5. B = Goal.blocks
  <2>1. Abstract!Overlay(B, Len(B), up.todo) = B
    BY <1>1, <1>4, OverlayNothing
  <2>2. QED
    BY <1>1, <1>4, <2>1 DEF Progress, B
<1>6. BlocksOf(up', cdata') = B
  BY <1>2, <1>3 DEF BlocksOf
<1>7. TailOf(up', cdata') = Goal.tail
  <2>1. CASE call.op = "seal"
    <3>1. Goal.tail = <<>>
      BY <2>1, GoalIs DEF Goal
    <3>2. TailOf(up', cdata') = <<>>
      BY <1>3, <2>1 DEF TailOf
    <3>3. QED
      BY <3>1, <3>2
  <2>2. CASE call.op = "session"
    <3>1. Goal.tail = CacheView.tail
      BY <2>2, GoalIs DEF Goal
    <3>2. TailOf(up', cdata') = TailOf(up, cdata')
      BY <1>3, <2>2 DEF TailOf
    <3>3. QED
      BY <1>1, <1>2, <3>1, <3>2 DEF Progress
  <2>3. QED
    BY <1>1, <2>1, <2>2 DEF CallOK
<1>8. Goal' = Goal
  BY <1>1, <1>2 DEF Goal
<1>9. QED
  BY <1>1, <1>2, <1>3, <1>5, <1>6, <1>7, <1>8 DEF Progress, Writing

LEMMA CopyProgress ==
    ASSUME TypeOK, UpdaterOK, IInv, Progress, CopyJournal
    PROVE  Progress'
<1> DEFINE cells == SubSeq(cdata, up.joff, up.joff + up.jlen - 1)
<1>1. /\ pc = "journal" /\ pc' = pc /\ call' = call /\ up.joff # 0 /\ WriteCells(cells)
      /\ up' = [up EXCEPT !.joff = ceof + 1]
  BY DEF CopyJournal
<1>2. /\ up \in Updater /\ cdata \in [Addr -> Cell] /\ ceof \in Addr
      /\ CacheView' = CacheView /\ BlocksOf(up, cdata') = BlocksOf(up, cdata)
  BY <1>1, AppendKeeps DEF TypeOK, Writing
<1>3. /\ up'.index = up.index /\ up'.seq = up.seq /\ up'.jlen = up.jlen
      /\ up'.joff = ceof + 1 /\ up.jlen \in Nat /\ up.joff \in Nat /\ ceof \in Nat
  BY <1>1, <1>2, EofAssumption DEF Updater
<1>4. /\ cells \in Seq(Cell) /\ Len(cells) = up.jlen
      /\ \A k \in 1 .. up.jlen : cells[k] = cdata[up.joff + k - 1]
  <2> DEFINE last == up.joff + up.jlen - 1
  <2>1. /\ up.joff >= 1 /\ up.jlen >= 1 /\ last <= ceof
    BY <1>1 DEF UpdaterOK, Writing, JournalFits
  <2>2. /\ last \in Int /\ up.joff \in Int /\ up.joff <= last
        /\ last - up.joff + 1 = up.jlen
        /\ \A a \in up.joff .. last : a \in Addr
    BY <1>2, <1>3, <2>1, EofAssumption
  <2>3. \A a \in up.joff .. last : cdata[a] \in Cell
    BY <1>2, <2>2
  <2> HIDE DEF last
  <2>4. \A k \in 1 .. up.jlen : SubSeq(cdata, up.joff, last)[k] = cdata[up.joff + k - 1]
    BY <2>2, <2>3, SubSeqProperties
  <2>5. QED
    BY <1>1, <2>4, CopiedCells DEF last
<1> HIDE DEF cells
<1>5. \A k \in 1 .. up.jlen : cdata'[ceof + k] = cdata[up.joff + k - 1]
  BY <1>1, <1>4, WriteCellsEffect
<1>6. TailOf(up', cdata') = TailOf(up, cdata)
  <2>1. \A k \in 1 .. up.jlen : cdata'[ceof + 1 + k - 1] = cdata[up.joff + k - 1]
    <3> TAKE k \in 1 .. up.jlen
    <3>1. ceof + 1 + k - 1 = ceof + k
      BY <1>3
    <3>2. QED
      BY <1>5, <3>1
  <2>2. QED
    BY <1>3, <2>1 DEF TailOf
<1>7. BlocksOf(up', cdata') = BlocksOf(up, cdata)
  BY <1>2, <1>3 DEF BlocksOf
<1>8. QED
  BY <1>1, <1>2, <1>3, <1>6, <1>7 DEF Progress, Writing

LEMMA RecordProgress ==
    ASSUME TypeOK, UpdaterOK, IInv, CallOK, Progress, WriteRecord
    PROVE  Progress'
<1> DEFINE old == TailOf(up, cdata)
           new == TailOf(up', cdata')
<1>1. /\ pc = "journal" /\ pc' = "barrier1" /\ call' = call
      /\ WriteCells(<<RecCell(call.delta)>>)
      /\ up.joff = 0 \/ ceof + 1 = up.joff + up.jlen
      /\ up' = [up EXCEPT !.joff = IF @ = 0 THEN ceof + 1 ELSE @, !.jlen = @ + 1]
  BY DEF WriteRecord
<1>2. /\ up \in Updater /\ up' \in Updater /\ cdata \in [Addr -> Cell]
      /\ cdata' \in [Addr -> Cell] /\ ceof \in Addr
      /\ CacheView' = CacheView /\ BlocksOf(up, cdata') = BlocksOf(up, cdata)
      /\ TailOf(up, cdata') = old
      /\ UpdaterOK' /\ TypeOK'
  BY <1>1, AppendKeeps DEF TypeOK, Writing
<1>3. /\ up'.index = up.index /\ up'.seq = up.seq /\ up'.jlen = up.jlen + 1
      /\ up'.joff = (IF up.joff = 0 THEN ceof + 1 ELSE up.joff)
      /\ up.jlen \in Nat /\ up.joff \in Nat /\ ceof \in Nat
  BY <1>1, <1>2, EofAssumption DEF Updater
<1>4. cdata'[ceof + 1].val = call.delta
  <2> DEFINE cells == <<RecCell(call.delta)>>
  <2>1. /\ cells \in Seq(Cell) /\ Len(cells) = 1 /\ cells[1] = RecCell(call.delta)
        /\ WriteCells(cells)
    BY <1>1 DEF UpdaterOK, Writing, RecCell, Cell
  <2> HIDE DEF cells
  <2>2. \A k \in 1 .. Len(cells) : cdata'[ceof + k] = cells[k]
    BY <2>1, WriteCellsEffect
  <2>3. cdata'[ceof + 1] = RecCell(call.delta)
    BY <2>1, <2>2
  <2>4. QED
    BY <2>3 DEF RecCell
<1>5. JournalFits(up, cdata, ceof)
  BY <1>1 DEF UpdaterOK, Writing
<1>6. up'.joff + (up.jlen + 1) - 1 = ceof + 1 /\ (up.jlen > 0 => up'.joff = up.joff)
  BY <1>1, <1>3, <1>5 DEF JournalFits
<1>7. old \in Seq(Contents) /\ Len(old) = up.jlen
  BY <1>2, <1>5, TailIsSeq
<1>8. new = [k \in 1 .. up.jlen + 1 |-> cdata'[up'.joff + k - 1].val]
  BY <1>3 DEF TailOf
<1>9. old = [k \in 1 .. up.jlen |-> cdata'[up.joff + k - 1].val]
  BY <1>2 DEF TailOf
<1> HIDE DEF old, new
<1>10. new = Append(old, call.delta)
  <2>1. \A k \in 1 .. up.jlen : new[k] = old[k]
    BY <1>3, <1>6, <1>8, <1>9
  <2>2. new[up.jlen + 1] = call.delta
    BY <1>3, <1>4, <1>6, <1>8
  <2>3. Append(old, call.delta)
          = [k \in 1 .. up.jlen + 1 |-> IF k = up.jlen + 1 THEN call.delta ELSE old[k]]
    BY <1>3, <1>7
  <2>4. new = [k \in 1 .. up.jlen + 1 |-> new[k]]
    BY <1>8
  <2>5. \A k \in 1 .. up.jlen + 1 : k = up.jlen + 1 \/ k \in 1 .. up.jlen
    BY <1>3
  <2>6. QED
    BY <2>1, <2>2, <2>3, <2>4, <2>5
<1>11. Goal.blocks = CacheView.blocks /\ Goal.tail = Append(CacheView.tail, call.delta)
  BY <1>1, GoalIs DEF CallOK, Goal
<1>12. BlocksOf(up', cdata') = BlocksOf(up, cdata')
  BY <1>3 DEF BlocksOf
<1>13. Goal' = Goal
  BY <1>1, <1>2 DEF Goal
<1>14. QED
  BY <1>1, <1>2, <1>3, <1>10, <1>11, <1>12, <1>13 DEF Progress, Writing, old, new

LEMMA StepProgress ==
    ASSUME RefInv, [Next]_vars
    PROVE  Progress'
<1>1. CASE \/ \E d \in Deltas : AppendTail(d)
           \/ \E i \in Blocks, v \in Vals : SealTailBlock(i, v)
           \/ \E s \in Sessions : CommitSession(s)
  BY <1>1, BeginProgress DEF RefInv
<1>2. CASE WriteGapBlock \/ WriteBlock \/ WriteIndex \/ CopyJournal \/ WriteRecord
  BY <1>2, GapProgress, BlockProgress, IndexProgress, CopyProgress, RecordProgress DEF RefInv
<1>3. CASE /\ UNCHANGED <<cslot, cdata, ceof, call, up>>
           /\ pc' = pc \/ (pc = "barrier1" /\ pc' = "superblock")
  <2>1. CacheView' = CacheView
    BY <1>3 DEF CacheView, View, ViewOf, Active, Valid
  <2>2. BlocksOf(up', cdata') = BlocksOf(up, cdata) /\ TailOf(up', cdata') = TailOf(up, cdata)
    BY <1>3 DEF BlocksOf, TailOf
  <2>3. Goal' = Goal
    BY <1>3, <2>1 DEF Goal
  <2>4. QED
    BY <1>3, <2>1, <2>2, <2>3 DEF RefInv, Progress, Writing
<1>4. CASE pc' \notin Writing
  BY <1>4 DEF Progress, Writing
<1>5. \/ /\ UNCHANGED <<cslot, cdata, ceof, call, up>>
         /\ pc' = pc \/ (pc = "barrier1" /\ pc' = "superblock")
      \/ pc' \notin Writing
      \/ \E d \in Deltas : AppendTail(d)
      \/ \E i \in Blocks, v \in Vals : SealTailBlock(i, v)
      \/ \E s \in Sessions : CommitSession(s)
      \/ WriteGapBlock \/ WriteBlock \/ WriteIndex \/ CopyJournal \/ WriteRecord
  BY DEF Next, vars, Barrier1, Sync, WriteSuperBlock, Barrier2, FinalSync, SyncFile, ReturnOk,
         WriteError, SuperBlockError, SyncError, Crash, Fail, Writing, cache
<1>6. QED
  BY <1>1, <1>2, <1>3, <1>4, <1>5

LEMMA StepRefInv ==
    ASSUME ~FailedSyncDropsDirty, RefInv, [Next]_vars
    PROVE  RefInv'
<1>1. TypeOK' /\ UpdaterOK' /\ IInv'
  BY StepTypes, StepSafe DEF RefInv
<1>2. CallOK' /\ DirtyBehind' /\ Progress'
  BY CallsStay, DirtyStays, StepProgress DEF RefInv
<1>3. QED
  BY <1>1, <1>2 DEF RefInv

LEMMA InitRefInv == Init => RefInv
<1> SUFFICES ASSUME Init PROVE RefInv
  OBVIOUS
<1>1. TypeOK /\ UpdaterOK /\ IInv
  BY InitTypes, InitSafe
<1>2. CallOK /\ DirtyBehind /\ Progress
  BY DEF Init, CallOK, DirtyBehind, Progress, Writing
<1>3. QED
  BY <1>1, <1>2 DEF RefInv

-----------------------------------------------------------------------------
(* Every step is a step of the durable file, or a stutter                   *)

Phase == CASE pc = "idle" -> "idle" [] pc \in {"barrier2", "resync"} -> "published"
           [] OTHER -> "begun"

LEMMA PhaseIs ==
    /\ pc = "idle" => Phase = "idle"
    /\ pc \in {"barrier2", "resync"} => Phase = "published"
    /\ pc \in Writing => Phase = "begun"
BY DEF Phase, Writing

LEMMA BeginIsStart ==
    ASSUME RefInv, RefInv',
           \/ \E d \in Deltas : AppendTail(d)
           \/ \E i \in Blocks, v \in Vals : SealTailBlock(i, v)
           \/ \E s \in Sessions : CommitSession(s)
    PROVE  Abstract!Start
<1>1. CacheView' = CacheView /\ StableView' = StableView
  BY BeginProgress DEF RefInv
<1>2. pc = "idle" /\ pc' \in {"journal", "blocks"} /\ acked' = acked
  BY DEF AppendTail, SealTailBlock, CommitSession, Begin
<1>3. call'.op \in {"append", "seal", "session"}
  BY <1>2 DEF RefInv, CallOK
<1>4. Phase = "idle" /\ Phase' = "begun"
  BY <1>2, PhaseIs DEF Phase
<1>5. QED
  BY <1>1, <1>2, <1>3, <1>4 DEF Abstract!Start, Phase

\* No write before the superblock's shows.
LEMMA AppendIsSilent ==
    ASSUME RefInv,
           WriteGapBlock \/ WriteBlock \/ WriteIndex \/ CopyJournal \/ WriteRecord
    PROVE  UNCHANGED <<CacheView, StableView, acked, call, Phase>>
<1>1. CacheView' = CacheView /\ StableView' = StableView
  BY AppendKeeps DEF RefInv
<1>2. acked' = acked
  BY AppendFrame DEF RefInv
<1>3. call' = call /\ pc \in {"blocks", "journal"} /\ pc' \in {"blocks", "journal", "barrier1"}
  BY DEF WriteGapBlock, WriteBlock, WriteIndex, CopyJournal, WriteRecord
<1>4. QED
  BY <1>1, <1>2, <1>3 DEF Phase

\* A sync shows readers nothing new and makes all of it durable.
LEMMA SyncShows ==
    ASSUME RefInv, Sync
    PROVE  CacheView' = CacheView /\ StableView' = CacheView
<1>1. /\ sdata' = cdata /\ sslot' = cslot /\ seof' = ceof
      /\ UNCHANGED <<cslot, cdata, ceof>>
  BY SyncEffect DEF RefInv
<1>2. CacheView' = CacheView
  BY <1>1 DEF CacheView, View, ViewOf, Active, Valid
<1>3. StableView' = CacheView
  BY <1>1 DEF StableView, CacheView, View, ViewOf, Active, Valid
<1>4. QED
  BY <1>2, <1>3

LEMMA SyncIsPersist ==
    ASSUME RefInv, Barrier1 \/ Barrier2 \/ FinalSync \/ SyncFile
    PROVE  Abstract!Persist \/ Abstract!Ack \/ Abstract!Flush
<1>1. CacheView' = CacheView /\ StableView' = CacheView
  BY SyncShows DEF Barrier1, Barrier2, FinalSync, SyncFile
<1>2. CASE Barrier1
  <2>1. call' = call /\ acked' = acked /\ pc = "barrier1" /\ pc' = "superblock"
    BY <1>2 DEF Barrier1
  <2>2. QED
    BY <1>1, <2>1 DEF Abstract!Persist
<1>3. CASE Barrier2 /\ call.op = "session"
  <2>1. call' = call /\ acked' = acked /\ pc = "barrier2" /\ pc' = "resync"
    BY <1>3 DEF Barrier2
  <2>2. QED
    BY <1>1, <2>1 DEF Abstract!Persist
<1>4. CASE ReturnOk /\ pc \in {"barrier2", "resync"}
  <2>1. call' = [op |-> "none"] /\ acked' = CacheView /\ pc' = "idle"
    BY <1>4 DEF ReturnOk, NoCall
  <2>2. QED
    BY <1>1, <1>4, <2>1 DEF Abstract!Ack, Abstract!Stop
<1>5. CASE SyncFile
  <2>1. /\ call' = NoCall /\ call = NoCall /\ acked' = CacheView
        /\ pc = "idle" /\ pc' = "idle"
    BY <1>5 DEF SyncFile, ReturnOk, RefInv, CallOK
  <2>2. QED
    BY <1>1, <2>1 DEF Abstract!Flush
<1>6. QED
  BY <1>2, <1>3, <1>4, <1>5 DEF Barrier2, FinalSync

\* The superblock write shows the version the call asked for, all at once.
LEMMA WriteIsPublish ==
    ASSUME RefInv, RefInv', WriteSuperBlock
    PROVE  Abstract!Publish
<1> DEFINE o == Other(up.slot)
<1>1. /\ pc = "superblock" /\ pc' = "barrier2"
      /\ cslot' = [cslot EXCEPT ![up.slot] = NewSuperBlock]
      /\ UNCHANGED <<cdata, ceof, sslot, sdata, seof, call, up, acked>>
  BY DEF WriteSuperBlock, stable
<1>2. TypeOK /\ UpdaterOK /\ IInv /\ Progress /\ TypeOK' /\ IInv'
  BY DEF RefInv
<1>3. /\ up \in Updater /\ up.slot \in Slots /\ up.seq \in Nat
      /\ cslot \in [Slots -> SuperBlock \cup {Torn}]
  BY <1>2 DEF TypeOK, Updater
<1>4. /\ o \in Slots /\ cslot[o] # Torn /\ cslot[o] \in SuperBlock
      /\ CacheView = ViewOf(cslot[o], cdata) /\ Other(up.slot) = o /\ o # up.slot
  BY <1>1, <1>2, <1>3, ViewIsBase, OtherSlot DEF Writing
<1>5. cslot'[o] = cslot[o] /\ cslot'[up.slot] = NewSuperBlock
  BY <1>1, <1>3, <1>4
<1>6. cslot[o].seq = up.seq
  BY <1>1, <1>2 DEF IInv, TargetOK, Writing
<1> HIDE DEF o
<1>7. NewSuperBlock.seq = up.seq + 1 /\ NewSuperBlock \in SuperBlock /\ NewSuperBlock # Torn
  BY <1>1, <1>2, SuperBlockType, TornAssumption DEF NewSuperBlock
<1>8. CacheView' = ViewOf(NewSuperBlock, cdata)
  <2>1. \A s \in Slots : cslot'[s] # Torn => Valid(cslot'[s], cdata', ceof')
    <3>1. /\ ceof' \in Addr /\ seof' <= ceof' /\ \A a \in 1 .. seof' : cdata'[a] = sdata'[a]
      BY <1>2, CacheExtends DEF TypeOK, IInv, Agree
    <3>2. \A s \in Slots : cslot'[s] # Torn => cslot'[s] \in SuperBlock
      BY <1>2 DEF TypeOK
    <3>3. \A s \in Slots : cslot'[s] # Torn => Valid(cslot'[s], sdata', seof')
      BY <1>2 DEF IInv, SlotsValid
    <3>4. seof' \in Addr
      BY <1>2 DEF TypeOK
    <3>5. QED
      BY <3>1, <3>2, <3>3, <3>4, ValidMonotone
  <2>2. SameSeq(cslot') /\ cslot' \in [Slots -> SuperBlock \cup {Torn}]
    BY <1>2 DEF IInv, AckedOK, TypeOK
  <2>3. cslot'[up.slot] # Torn /\ cslot'[o].seq <= cslot'[up.slot].seq
    BY <1>3, <1>5, <1>6, <1>7
  <2>4. View(cslot', cdata', ceof') = ViewOf(cslot'[up.slot], cdata')
    BY <1>3, <1>4, <2>1, <2>2, <2>3, ViewIs
  <2>5. QED
    BY <1>1, <1>5, <2>4 DEF CacheView
<1>9. ViewOf(NewSuperBlock, cdata) = Goal
  <2>1. ViewOf(NewSuperBlock, cdata)
          = [seq |-> up.seq + 1, blocks |-> BlocksOf(up, cdata), tail |-> TailOf(up, cdata)]
    BY DEF ViewOf, NewSuperBlock, BlocksOf, TailOf
  <2>2. /\ BlocksOf(up, cdata) = Goal.blocks /\ TailOf(up, cdata) = Goal.tail
        /\ up.seq = CacheView.seq
    BY <1>1, <1>2 DEF Progress, Writing
  <2>3. Goal = [seq |-> CacheView.seq + 1, blocks |-> Goal.blocks, tail |-> Goal.tail]
    BY GoalIs DEF Goal
  <2>4. QED
    BY <2>1, <2>2, <2>3
<1>10. CacheView = StableView
  <2>1. seof = ceof /\ sdata = cdata /\ sslot = cslot
    BY <1>1, <1>2 DEF IInv, SyncedOK
  <2>2. QED
    BY <2>1 DEF CacheView, StableView
<1>11. StableView' = StableView
  BY <1>1 DEF StableView, View, ViewOf, Active, Valid
<1>12. QED
  BY <1>1, <1>8, <1>9, <1>10, <1>11 DEF Abstract!Publish, Goal

\* A failed call leaves what readers see as it was, a torn superblock
\* included.
LEMMA ErrorIsFail ==
    ASSUME RefInv, RefInv', WriteError \/ SuperBlockError \/ SyncError
    PROVE  Abstract!Fail
<1>1. call' = [op |-> "none"] /\ pc' = "idle" /\ acked' = acked
  BY DEF WriteError, SuperBlockError, SyncError, Fail, NoCall
<1>2. ASSUME UNCHANGED <<cslot, cdata, ceof, sslot, sdata, seof>>
      PROVE  CacheView' = CacheView /\ StableView' = StableView
  BY <1>2 DEF CacheView, StableView, View, ViewOf, Active, Valid
<1>3. CASE WriteError
  <2>1. CacheView' = CacheView /\ StableView' = StableView
    BY <1>3, AppendKeeps DEF RefInv
  <2>2. QED
    BY <1>1, <2>1 DEF Abstract!Fail, Abstract!Stop
<1>4. CASE SyncError
  <2>1. CacheView' = CacheView /\ StableView' = StableView
    BY <1>2, <1>4 DEF SyncError, cache, stable
  <2>2. QED
    BY <1>1, <2>1 DEF Abstract!Fail, Abstract!Stop
<1>5. CASE SuperBlockError
  <2> DEFINE o == Other(up.slot)
  <2>1. /\ pc = "superblock" /\ UNCHANGED <<cdata, ceof, sslot, sdata, seof>>
        /\ cslot' = cslot \/ cslot' = [cslot EXCEPT ![up.slot] = Torn]
    BY <1>5 DEF SuperBlockError, stable
  <2>2. CASE cslot' = cslot
    BY <1>1, <1>2, <2>1, <2>2 DEF Abstract!Fail, Abstract!Stop
  <2>3. CASE cslot' = [cslot EXCEPT ![up.slot] = Torn]
    <3>1. TypeOK /\ IInv /\ TypeOK' /\ IInv' /\ up.slot \in Slots
      BY DEF RefInv, TypeOK, Updater
    <3>2. /\ o \in Slots /\ cslot[o] # Torn /\ Other(o) = up.slot /\ o # up.slot
          /\ CacheView = ViewOf(cslot[o], sdata)
      BY <2>1, <3>1, ViewIsBase DEF Writing, Other
    <3> HIDE DEF o
    <3>3. /\ cslot'[o] = cslot[o] /\ cslot'[up.slot] = Torn
          /\ \A s \in Slots : cslot'[s] \in {cslot[s], sslot[s], Torn}
      BY <2>3, <3>1, <3>2 DEF TypeOK
    <3>4. SameSeq(cslot') /\ cslot' \in [Slots -> SuperBlock \cup {Torn}]
      BY <3>1 DEF IInv, AckedOK, TypeOK
    <3>5. View(cslot', cdata, ceof) = ViewOf(cslot'[o], sdata)
      BY <3>1, <3>2, <3>3, <3>4, CacheExtends, ViewKeepsMeaning
    <3>6. CacheView' = CacheView
      BY <2>1, <3>2, <3>3, <3>5 DEF CacheView
    <3>7. StableView' = StableView
      BY <2>1 DEF StableView, View, ViewOf, Active, Valid
    <3>8. QED
      BY <1>1, <3>6, <3>7 DEF Abstract!Fail, Abstract!Stop
  <2>4. QED
    BY <2>1, <2>2, <2>3
<1>6. QED
  BY <1>3, <1>4, <1>5

\* A crash returns to what readers saw or to what was durable, whatever part
\* of the dirty pages and of the dirty slot it kept.
LEMMA CrashIsCrash ==
    ASSUME RefInv, RefInv', Crash
    PROVE  Abstract!Crash
<1>1. /\ sdata' = cdata' /\ sslot' = cslot' /\ seof' = ceof' /\ acked' = acked
      /\ call' = [op |-> "none"] /\ pc' = "idle"
      /\ \A s \in Slots : \/ cslot'[s] = sslot[s]
                          \/ cslot[s] # sslot[s] /\ cslot'[s] \in {cslot[s], Torn}
  BY DEF Crash, DirtySlot, NoCall
<1>2. TypeOK /\ IInv /\ TypeOK' /\ IInv' /\ DirtyBehind
  BY DEF RefInv
<1>3. StableView' = CacheView'
  BY <1>1 DEF StableView, CacheView, View, ViewOf, Active, Valid
<1>4. /\ ceof' \in Addr /\ seof <= ceof' /\ \A a \in 1 .. seof : cdata'[a] = sdata[a]
  <2>1. PICK e \in seof .. ceof, kept \in SUBSET DirtyAddr :
          /\ cdata' = [a \in Addr |-> IF a > e THEN JunkCell
                                      ELSE IF a \in kept THEN cdata[a] ELSE sdata[a]]
          /\ ceof' = e
    BY DEF Crash
  <2>2. QED
    BY <1>2, <2>1, CacheExtends, EofAssumption DEF TypeOK
<1>5. /\ cslot' \in [Slots -> SuperBlock \cup {Torn}] /\ SameSeq(cslot')
      /\ \A s \in Slots : cslot'[s] \in {cslot[s], sslot[s], Torn}
  BY <1>1, <1>2 DEF TypeOK, IInv, AckedOK
<1>6. ASSUME NEW t \in Slots, cslot'[t] # Torn,
             cslot'[Other(t)] # Torn => cslot'[Other(t)].seq <= cslot'[t].seq
      PROVE  CacheView' = ViewOf(cslot'[t], sdata)
  <2>1. View(cslot', cdata', ceof') = ViewOf(cslot'[t], sdata)
    BY <1>2, <1>4, <1>5, <1>6, ViewKeepsMeaning
  <2>2. QED
    BY <2>1 DEF CacheView
<1>7. ASSUME NEW t \in Slots, cslot[t] # Torn,
             cslot[Other(t)] # Torn => cslot[Other(t)].seq <= cslot[t].seq
      PROVE  CacheView = ViewOf(cslot[t], sdata)
  BY <1>2, <1>7, CacheExtends, ViewKeepsMeaning DEF CacheView
<1>8. ASSUME NEW t \in Slots, sslot[t] # Torn,
             sslot[Other(t)] # Torn => sslot[Other(t)].seq <= sslot[t].seq
      PROVE  StableView = ViewOf(sslot[t], sdata)
  BY <1>2, <1>8, CacheExtends, ViewKeepsMeaning, EofAssumption DEF StableView
<1>9. CacheView' \in {CacheView, StableView}
  <2>1. CASE \A s \in Slots : cslot'[s] = sslot[s]
    <3>1. PICK t \in Slots : /\ sslot[t] # Torn
                             /\ sslot[Other(t)] # Torn => sslot[Other(t)].seq <= sslot[t].seq
      BY <1>2, CacheExtends, NewestExists
    <3>2. Other(t) \in Slots
      BY OtherSlot
    <3>3. QED
      BY <1>6, <1>8, <2>1, <3>1, <3>2
  <2>2. CASE \A s \in Slots : cslot'[s] = cslot[s]
    <3>1. PICK t \in Slots : /\ cslot[t] # Torn
                             /\ cslot[Other(t)] # Torn => cslot[Other(t)].seq <= cslot[t].seq
      BY <1>2, CacheExtends, NewestExists
    <3>2. Other(t) \in Slots
      BY OtherSlot
    <3>3. QED
      BY <1>6, <1>7, <2>2, <3>1, <3>2
  <2>3. ASSUME NEW s \in Slots, cslot[s] # sslot[s], cslot'[s] = Torn
        PROVE  CacheView' = StableView
    <3> DEFINE o == Other(s)
    <3>1. o \in Slots /\ Other(o) = s
      BY DEF Other
    <3>2. /\ sslot[o] # Torn /\ cslot[o] = sslot[o]
          /\ sslot[s] # Torn => sslot[s].seq <= sslot[o].seq
      BY <1>2, <2>3 DEF DirtyBehind
    <3> HIDE DEF o
    <3>3. cslot'[o] = sslot[o]
      BY <1>1, <3>1, <3>2
    <3>4. CacheView' = ViewOf(sslot[o], sdata)
      BY <1>6, <2>3, <3>1, <3>2, <3>3
    <3>5. StableView = ViewOf(sslot[o], sdata)
      BY <1>8, <3>1, <3>2
    <3>6. QED
      BY <3>4, <3>5
  <2>4. \/ \A s \in Slots : cslot'[s] = sslot[s]
        \/ \A s \in Slots : cslot'[s] = cslot[s]
        \/ \E s \in Slots : cslot[s] # sslot[s] /\ cslot'[s] = Torn
    <3>1. PICK t \in Slots : cslot[t] = sslot[t]
      BY <1>2, CacheExtends
    <3>2. \A s \in Slots : s = t \/ s = Other(t)
      BY OtherSlot
    <3>3. cslot'[t] = sslot[t] /\ cslot'[t] = cslot[t]
      BY <1>1, <3>1
    <3>4. QED
      BY <1>1, <3>2, <3>3
  <2>5. QED
    BY <2>1, <2>2, <2>3, <2>4
<1>10. QED
  BY <1>1, <1>3, <1>9 DEF Abstract!Crash, Abstract!Stop

LEMMA InitIsInit == Init => Abstract!Init
<1> SUFFICES ASSUME Init PROVE Abstract!Init
  OBVIOUS
<1>1. /\ cslot = [s \in Slots |-> Superblock0] /\ sslot = cslot /\ sdata = cdata /\ seof = ceof
      /\ pc = "idle" /\ call = [op |-> "none"]
      /\ acked = [seq |-> 0, blocks |-> <<>>, tail |-> <<>>]
  BY DEF Init, NoCall
<1>2. StableView = CacheView
  BY <1>1 DEF StableView, CacheView
<1>3. CacheView = ViewOf(Superblock0, cdata)
  BY <1>1 DEF CacheView, View, Active
<1>4. ViewOf(Superblock0, cdata) = [seq |-> 0, blocks |-> <<>>, tail |-> <<>>]
  <2>1. [i \in DOMAIN <<>> |-> cdata[Superblock0.icrc[i]].val] = <<>>
    OBVIOUS
  <2>2. [k \in 1 .. 0 |-> cdata[Superblock0.joff + k - 1].val] = <<>>
    OBVIOUS
  <2>3. QED
    BY <2>1, <2>2 DEF ViewOf, Superblock0
<1>5. QED
  BY <1>1, <1>2, <1>3, <1>4 DEF Abstract!Init, Abstract!Version0

LEMMA StepIsStep ==
    ASSUME RefInv, RefInv', [Next]_vars
    PROVE  [Abstract!Next]_(Abstract!vars)
<1>1. CASE UNCHANGED vars
  BY <1>1 DEF vars, Abstract!vars, CacheView, StableView, View, ViewOf, Active, Valid
<1>2. CASE WriteGapBlock \/ WriteBlock \/ WriteIndex \/ CopyJournal \/ WriteRecord
  <2>1. UNCHANGED <<CacheView, StableView, acked, call, Phase>>
    BY <1>2, AppendIsSilent
  <2>2. QED
    BY <2>1 DEF Abstract!vars, Phase
<1>3. CASE \/ \E d \in Deltas : AppendTail(d)
           \/ \E i \in Blocks, v \in Vals : SealTailBlock(i, v)
           \/ \E s \in Sessions : CommitSession(s)
  BY <1>3, BeginIsStart DEF Abstract!Next
<1>4. CASE Barrier1 \/ Barrier2 \/ FinalSync \/ SyncFile
  BY <1>4, SyncIsPersist DEF Abstract!Next
<1>5. CASE WriteSuperBlock
  BY <1>5, WriteIsPublish DEF Abstract!Next
<1>6. CASE WriteError \/ SuperBlockError \/ SyncError
  BY <1>6, ErrorIsFail DEF Abstract!Next
<1>7. CASE Crash
  BY <1>7, CrashIsCrash DEF Abstract!Next
<1>8. QED
  BY <1>1, <1>2, <1>3, <1>4, <1>5, <1>6, <1>7 DEF Next

\* Readers and crashes only ever see whole versions: a call's superblock
\* write replaces the version shown by the one the call asked for, and by
\* nothing else; the sync after it makes that version durable before the
\* call returns Ok; a failed call or a crash shows one of the two.
THEOREM ArchiveImplementsDurableFile ==
    ASSUME ~FailedSyncDropsDirty
    PROVE  Spec => ImplementsDurableFile
<1>1. Init => RefInv /\ Abstract!Init
  BY InitRefInv, InitIsInit
<1>2. RefInv /\ [Next]_vars => RefInv'
  BY StepRefInv
<1>3. RefInv /\ RefInv' /\ [Next]_vars => [Abstract!Next]_(Abstract!vars)
  BY StepIsStep
<1>4. Spec => []RefInv
  BY <1>1, <1>2, PTL DEF Spec
<1>5. QED
  BY <1>1, <1>3, <1>4, PTL DEF Spec, ImplementsDurableFile, Abstract!Spec
=============================================================================
