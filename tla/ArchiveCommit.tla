--------------------------- MODULE ArchiveCommit ---------------------------
(***************************************************************************)
(* The commit protocol of one scrollz archive (src/.../archive/): an       *)
(* append-only data area, two superblock slots written alternately, and    *)
(* two fsync barriers around the superblock write.  The three callers are  *)
(* those of ShadowStore: append_tail, seal_tail_block and commit_session;  *)
(* each opens a fresh ArchiveUpdater and drops it on return.               *)
(*                                                                         *)
(* The file is modelled twice: what the page cache holds (c...) and what   *)
(* is on stable storage (s...).  A step is one write_at or one sync, so a  *)
(* crash or an I/O error can fall between any two of them.                 *)
(***************************************************************************)
EXTENDS Integers, Sequences

CONSTANTS
    Blocks,               \* block numbers, 0 .. some bound
    Vals,                 \* contents a compressed block may have
    Deltas,               \* contents a tail-journal record may have
    Zero,                 \* the content of a gap block
    Junk,                 \* what a lost or half-written cell holds
    Torn,                 \* a superblock slot whose CRC does not match
    MaxEof,               \* bound: cells of the data area
    FailedSyncDropsDirty  \* a failed fsync marks its dirty pages clean

ASSUME EofAssumption == MaxEof \in Nat \ {0}
\* A block further out than the data area has cells could never be written.
ASSUME BlocksAssumption == Blocks \subseteq 0 .. MaxEof
ASSUME FlagAssumption == FailedSyncDropsDirty \in BOOLEAN

Addr  == 1 .. MaxEof      \* one cell per write: 1 stands for DATA_START
Slots == {"A", "B"}

\* A cell is a block, a journal record, an index or junk.
BlockCell(v)  == [kind |-> "block", val |-> v]
RecCell(d)    == [kind |-> "rec", val |-> d]
IndexCell(ix) == [kind |-> "index", val |-> ix]
JunkCell      == [kind |-> "junk", val |-> Junk]

Cell == [kind : {"block"}, val : Vals \cup {Zero}]
          \cup [kind : {"rec"}, val : Deltas]
          \cup [kind : {"index"}, val : Seq(Addr)]
          \cup {JunkCell}

\* A superblock: icrc names the index content the slot was written for
\* (index_crc and chunk_count), joff/jlen the committed tail journal.
SuperBlock == [seq : Nat, ioff : Addr, icrc : Seq(Addr), joff : 0 .. MaxEof, jlen : Nat]

ASSUME TornAssumption == Torn \notin SuperBlock

VARIABLES
    cslot, cdata, ceof,   \* page-cache view: slots, cells, file length
    sslot, sdata, seof,   \* the same on stable storage
    lostData, lostSlot,   \* cells and slots a failed fsync marked clean unwritten
    pc,                   \* the next I/O of the call in progress
    call,                 \* the ShadowStore call in progress
    up,                   \* the fields of its ArchiveUpdater
    acked                 \* ghost: the last version a call reported durable

cache  == <<cslot, cdata, ceof>>
stable == <<sslot, sdata, seof>>
lost   == <<lostData, lostSlot>>
vars   == <<cslot, cdata, ceof, sslot, sdata, seof, lostData, lostSlot, pc, call, up, acked>>

-----------------------------------------------------------------------------
(* Opening an archive: load_active over the two slots.                      *)

\* validate_and_load_index: index and journal within bounds and intact.
Valid(sb, data, eof) ==
    /\ sb # Torn
    /\ sb.ioff <= eof
    /\ data[sb.ioff] = IndexCell(sb.icrc)
    /\ \A i \in DOMAIN sb.icrc : sb.icrc[i] < sb.ioff
    /\ sb.jlen > 0 =>
         /\ sb.joff >= 1
         /\ sb.joff + sb.jlen - 1 <= eof
         /\ \A a \in sb.joff .. sb.joff + sb.jlen - 1 : data[a].kind = "rec"

Openable(slots, data, eof) == \E s \in Slots : Valid(slots[s], data, eof)

\* The usable slot of highest seq; a tie goes to A (the sort is stable).
Active(slots, data, eof) ==
    IF /\ Valid(slots["A"], data, eof)
       /\ Valid(slots["B"], data, eof) => slots["A"].seq >= slots["B"].seq
    THEN "A" ELSE "B"

Other(s) == IF s = "A" THEN "B" ELSE "A"

\* The logical file a superblock describes: its blocks and its open tail.
ViewOf(sb, data) ==
    [seq    |-> sb.seq,
     blocks |-> [i \in DOMAIN sb.icrc |-> data[sb.icrc[i]].val],
     tail   |-> [k \in 1 .. sb.jlen |-> data[sb.joff + k - 1].val]]

View(slots, data, eof) == ViewOf(slots[Active(slots, data, eof)], data)

CacheView  == View(cslot, cdata, ceof)
StableView == View(sslot, sdata, seof)

-----------------------------------------------------------------------------
(* Calls                                                                    *)

NoCall == [op |-> "none"]
NoUp   == [index |-> <<>>, todo |-> <<>>, joff |-> 0, jlen |-> 0, ioff |-> 0,
           seq |-> 0, slot |-> "A"]

\* put_block and truncate_blocks leave a session of dirty blocks and
\* possibly a truncation; keep is the block count kept (none if too large).
Sessions == { [op |-> "session", keep |-> k, dirty |-> f] :
                k \in Blocks \cup {MaxEof},
                f \in UNION { [S -> Vals] : S \in SUBSET Blocks } }

\* ArchiveUpdater::from_io: everything is loaded from the active slot.
OpenUpdaterInPlace(todo) ==                                        \* mutant
    LET s  == Active(cslot, cdata, ceof)
        sb == cslot[s]
    IN  [index |-> sb.icrc, todo |-> todo, joff |-> IF sb.jlen > 0 THEN sb.joff ELSE 0,
         jlen |-> sb.jlen, ioff |-> sb.ioff, seq |-> sb.seq, slot |-> s]

OpenUpdater(todo) ==
    LET s  == Active(cslot, cdata, ceof)
        sb == cslot[s]
    IN  [index |-> sb.icrc, todo |-> todo, joff |-> IF sb.jlen > 0 THEN sb.joff ELSE 0,
         jlen |-> sb.jlen, ioff |-> sb.ioff, seq |-> sb.seq, slot |-> Other(s)]

Begin(c, u, first) ==
    /\ pc = "idle" /\ Openable(cslot, cdata, ceof)
    /\ call' = c /\ up' = u /\ pc' = first
    /\ UNCHANGED <<cache, stable, lost, acked>>

AppendTail(d) == Begin([op |-> "append", delta |-> d], OpenUpdater(<<>>), "journal")

SealTailBlock(i, v) ==
    LET f == [j \in {i} |-> v]
    IN  Begin([op |-> "seal", dirty |-> f], OpenUpdater(f), "blocks")

Truncated(index, keep) == SubSeq(index, 1, IF keep < Len(index) THEN keep ELSE Len(index))

CommitSession(s) ==
    LET u == OpenUpdater(s.dirty)
    IN  Begin(s, [u EXCEPT !.index = Truncated(@, s.keep)], "blocks")

-----------------------------------------------------------------------------
(* The updater's I/O, one write_at or sync a step.                          *)

\* write_at(write_cursor, cells): always at the physical end of file.
WriteCellsOverLast(cells) ==                                       \* mutant
    /\ ceof + Len(cells) <= MaxEof
    /\ cdata' = [a \in Addr |-> IF a >= ceof /\ a < ceof + Len(cells)
                                THEN cells[a - ceof + 1] ELSE cdata[a]]
    /\ ceof' = ceof + Len(cells)
    /\ UNCHANGED <<cslot, stable, lost, acked>>

WriteCells(cells) ==
    /\ ceof + Len(cells) <= MaxEof
    /\ cdata' = [a \in Addr |-> IF a > ceof /\ a <= ceof + Len(cells)
                                THEN cells[a - ceof] ELSE cdata[a]]
    /\ ceof' = ceof + Len(cells)
    /\ UNCHANGED <<cslot, stable, lost, acked>>

\* set_block, gap case: a zero block for each missing index before the next
\* dirty block.
WriteGapBlock ==
    /\ pc = "blocks" /\ DOMAIN up.todo # {}
    /\ \A i \in DOMAIN up.todo : Len(up.index) < i
    /\ WriteCells(<<BlockCell(Zero)>>)
    /\ up' = [up EXCEPT !.index = Append(@, ceof + 1)]
    /\ UNCHANGED <<pc, call>>

\* set_block proper: append the lowest dirty block, repoint or extend the
\* index.
WriteBlock ==
    /\ pc = "blocks"
    /\ \E i \in DOMAIN up.todo :
         /\ \A j \in DOMAIN up.todo : i <= j
         /\ i <= Len(up.index)
         /\ WriteCells(<<BlockCell(up.todo[i])>>)
         /\ up' = [up EXCEPT !.index = IF i = Len(@) THEN Append(@, ceof + 1)
                                       ELSE [@ EXCEPT ![i + 1] = ceof + 1],
                             !.todo = [j \in DOMAIN @ \ {i} |-> @[j]]]
    /\ UNCHANGED <<pc, call>>

\* commit: append the new index; a seal has reset the journal by now.
WriteIndex ==
    /\ pc = "blocks" /\ DOMAIN up.todo = {}
    /\ WriteCells(<<IndexCell(up.index)>>)
    /\ up' = [up EXCEPT !.ioff = ceof + 1,
                        !.joff = IF call.op = "seal" THEN 0 ELSE @,
                        !.jlen = IF call.op = "seal" THEN 0 ELSE @]
    /\ pc' = "barrier1"
    /\ UNCHANGED call

\* append_journal, ghost guard: the committed records no longer end at the
\* end of file, so they are copied there first.
CopyJournal ==
    /\ pc = "journal"
    /\ up.joff # 0 /\ ceof + 1 # up.joff + up.jlen
    /\ WriteCells(SubSeq(cdata, up.joff, up.joff + up.jlen - 1))
    /\ up' = [up EXCEPT !.joff = ceof + 1]
    /\ UNCHANGED <<pc, call>>

WriteRecordAnywhere ==                                             \* mutant
    /\ pc = "journal"
    /\ WriteCells(<<RecCell(call.delta)>>)
    /\ up' = [up EXCEPT !.joff = IF @ = 0 THEN ceof + 1 ELSE @, !.jlen = @ + 1]
    /\ pc' = "barrier1"
    /\ UNCHANGED call

WriteRecordPastCursor ==                                           \* mutant
    /\ pc = "journal"
    /\ up.joff = 0 \/ ceof + 1 = up.joff + up.jlen
    /\ WriteCells(<<RecCell(call.delta)>>)
    /\ up' = [up EXCEPT !.joff = IF @ = 0 THEN ceof + 2 ELSE @, !.jlen = @ + 1]
    /\ pc' = "barrier1"
    /\ UNCHANGED call

WriteRecord ==
    /\ pc = "journal"
    /\ up.joff = 0 \/ ceof + 1 = up.joff + up.jlen
    /\ WriteCells(<<RecCell(call.delta)>>)
    /\ up' = [up EXCEPT !.joff = IF @ = 0 THEN ceof + 1 ELSE @, !.jlen = @ + 1]
    /\ pc' = "barrier1"
    /\ UNCHANGED call

\* sync: what is dirty reaches stable storage; what an earlier failed sync
\* marked clean does not.
Sync ==
    /\ sdata' = [a \in Addr |-> IF a \in lostData THEN sdata[a] ELSE cdata[a]]
    /\ sslot' = [s \in Slots |-> IF s \in lostSlot THEN sslot[s] ELSE cslot[s]]
    /\ seof' = ceof
    /\ UNCHANGED <<cache, lost>>

Barrier1 ==
    /\ pc = "barrier1"
    /\ Sync
    /\ pc' = "superblock"
    /\ UNCHANGED <<call, up, acked>>

\* The superblock commit and commit_journal write to the inactive slot.
NewSuperBlock == [seq |-> up.seq + 1, ioff |-> up.ioff, icrc |-> up.index,
                  joff |-> up.joff, jlen |-> up.jlen]

WriteSuperBlock ==
    /\ pc = "superblock"
    /\ cslot' = [cslot EXCEPT ![up.slot] = NewSuperBlock]
    /\ lostSlot' = lostSlot \ {up.slot}
    /\ pc' = "barrier2"
    /\ UNCHANGED <<cdata, ceof, stable, lostData, call, up, acked>>

\* The call returns Ok, and the updater is dropped.
ReturnOk == /\ pc' = "idle" /\ call' = NoCall /\ up' = NoUp
            /\ acked' = CacheView

\* The second barrier; commit_session then syncs once more.
Barrier2 ==
    /\ pc = "barrier2"
    /\ Sync
    /\ IF call.op = "session" THEN pc' = "resync" /\ UNCHANGED <<call, up, acked>>
       ELSE ReturnOk

FinalSync == pc = "resync" /\ Sync /\ ReturnOk

\* commit_session without a dirty session only syncs the file.
SyncFile == pc = "idle" /\ Sync /\ ReturnOk

-----------------------------------------------------------------------------
(* Errors and crashes                                                       *)

Fail == /\ pc' = "idle" /\ call' = NoCall /\ up' = NoUp
        /\ UNCHANGED acked

\* A failing write_at may leave part of its cells behind.
WriteError ==
    /\ pc \in {"blocks", "journal"}
    /\ \/ UNCHANGED <<cdata, ceof>>
       \/ /\ ceof < MaxEof
          /\ cdata' = [cdata EXCEPT ![ceof + 1] = JunkCell]
          /\ ceof' = ceof + 1
    /\ Fail
    /\ UNCHANGED <<cslot, stable, lost>>

SuperBlockError ==
    /\ pc = "superblock"
    /\ \/ UNCHANGED <<cslot, lostSlot>>
       \/ cslot' = [cslot EXCEPT ![up.slot] = Torn] /\ lostSlot' = lostSlot \ {up.slot}
    /\ Fail
    /\ UNCHANGED <<cdata, ceof, stable, lostData>>

DirtyAddr == { a \in Addr : cdata[a] # sdata[a] } \ lostData
DirtySlot == { s \in Slots : cslot[s] # sslot[s] } \ lostSlot

\* A failing sync: nothing new is guaranteed durable.  The pages stay dirty,
\* or the kernel forgets that they were.
SyncError ==
    /\ pc \in {"idle", "barrier1", "barrier2", "resync"}
    /\ IF FailedSyncDropsDirty
       THEN lostData' = lostData \cup DirtyAddr /\ lostSlot' = lostSlot \cup DirtySlot
       ELSE UNCHANGED lost
    /\ Fail
    /\ UNCHANGED <<cache, stable>>

\* A crash: the durable state plus any part of what was dirty, each dirty
\* slot possibly torn, each lost cell within the surviving length junk.
Crash ==
    /\ \E e \in seof .. ceof, kept \in SUBSET DirtyAddr :
         /\ cdata' = [a \in Addr |-> IF a > e THEN JunkCell
                                     ELSE IF a \in kept THEN cdata[a] ELSE sdata[a]]
         /\ ceof' = e
    /\ cslot' \in { f \in [Slots -> {cslot[s] : s \in Slots} \cup {sslot[s] : s \in Slots} \cup {Torn}] :
                      \A s \in Slots : \/ f[s] = sslot[s]
                                       \/ s \in DirtySlot /\ f[s] \in {cslot[s], Torn} }
    /\ sdata' = cdata' /\ sslot' = cslot' /\ seof' = ceof'
    /\ lostData' = {} /\ lostSlot' = {}
    /\ pc' = "idle" /\ call' = NoCall /\ up' = NoUp
    /\ UNCHANGED acked

-----------------------------------------------------------------------------

\* ArchiveWriter with no block: an empty index, the same superblock twice.
Superblock0 == [seq |-> 0, ioff |-> 1, icrc |-> <<>>, joff |-> 0, jlen |-> 0]

Init ==
    /\ cslot = [s \in Slots |-> Superblock0]
    /\ cdata = [a \in Addr |-> IF a = 1 THEN IndexCell(<<>>) ELSE JunkCell]
    /\ ceof = 1
    /\ sslot = cslot /\ sdata = cdata /\ seof = ceof
    /\ lostData = {} /\ lostSlot = {}
    /\ pc = "idle" /\ call = NoCall /\ up = NoUp
    /\ acked = [seq |-> 0, blocks |-> <<>>, tail |-> <<>>]

Next ==
    \/ \E d \in Deltas : AppendTail(d)
    \/ \E i \in Blocks, v \in Vals : SealTailBlock(i, v)
    \/ \E s \in Sessions : CommitSession(s)
    \/ WriteGapBlock \/ WriteBlock \/ WriteIndex
    \/ CopyJournal \/ WriteRecord
    \/ Barrier1 \/ WriteSuperBlock \/ Barrier2 \/ FinalSync \/ SyncFile
    \/ WriteError \/ SuperBlockError \/ SyncError
    \/ Crash

Spec == Init /\ [][Next]_vars

-----------------------------------------------------------------------------
(* Properties                                                               *)

Dirty   == UNION { [S -> Vals] : S \in SUBSET Blocks }
Updater == [index : Seq(Addr), todo : Dirty, joff : 0 .. MaxEof, jlen : Nat,
            ioff : 0 .. MaxEof, seq : Nat, slot : Slots]

TypeOK ==
    /\ cslot \in [Slots -> SuperBlock \cup {Torn}]
    /\ sslot \in [Slots -> SuperBlock \cup {Torn}]
    /\ cdata \in [Addr -> Cell] /\ sdata \in [Addr -> Cell]
    /\ ceof \in Addr /\ seof \in Addr
    /\ lostData \subseteq Addr /\ lostSlot \subseteq Slots
    /\ pc \in {"idle", "blocks", "journal", "barrier1", "superblock", "barrier2", "resync"}
    /\ up \in Updater

\* What survives a crash of any kind is never older than the last version a
\* call acknowledged, and is that very version if it has its number:
\* whatever is torn, at least one slot stays usable.
AckedSurvives ==
    /\ Openable(sslot, sdata, seof)
    /\ StableView.seq >= acked.seq
    /\ StableView.seq = acked.seq => StableView = acked

\* A process that opens the archive now (a reader takes no commit lock, a
\* retry follows a failed call) finds a usable slot at every step.
AlwaysOpenable == Openable(cslot, cdata, ceof)

Reach(sb) == {sb.ioff} \cup { sb.icrc[i] : i \in DOMAIN sb.icrc }
                \cup sb.joff .. (sb.joff + sb.jlen - 1)

\* C2: no step changes a cell that a superblock in either slot can reach, in
\* the page cache or on disk; open readers and both recovery candidates
\* depend on it.
ReachableNeverOverwritten ==
    [][ \A s \in Slots :
          /\ cslot[s] # Torn => \A a \in Reach(cslot[s]) : cdata'[a] = cdata[a]
          /\ sslot[s] # Torn => \A a \in Reach(sslot[s]) : sdata'[a] = sdata[a] ]_vars

\* The archive implements an atomic durable file: the version readers see is
\* the page-cache view, the version crashes preserve is the stable view.
Abstract == INSTANCE DurableFile WITH
    volatile   <- CacheView,
    persistent <- StableView,
    request    <- call,
    phase      <- CASE pc = "idle" -> "idle" [] pc \in {"barrier2", "resync"} -> "published"
                    [] OTHER -> "begun"

ImplementsDurableFile == Abstract!Spec
=============================================================================
