---------------------------- MODULE OpenTailProofs ----------------------------
(***************************************************************************)
(* Theorems about OpenTail, for any chunk size, contents, lengths of calls *)
(* and archives to start from: every property of the run, on the mounts    *)
(* that Supported describes.                                               *)
(*                                                                         *)
(* None of them is inductive alone.  Inv says chunk by chunk who has what  *)
(* of the file: the store, over either version a reader may be on, a       *)
(* prefix of it (StoreInv), the tail the rest (TailInv), the journal the    *)
(* part of the tail that is counted (JournalInv); what each version on     *)
(* disk shows as a whole (DurableInv); and what a handler in progress       *)
(* relies on (StepInv).                                                    *)
(***************************************************************************)
EXTENDS OpenTail, WellFoundedInduction, TLAPS

-----------------------------------------------------------------------------
(* Chunks                                                                   *)

Bytes(m) == m.bytes \cup {0, Bad}

LEMMA ModeIs ==
    ASSUME NEW m \in Modes
    PROVE  /\ m.chunk \in Nat /\ m.chunk > 0 /\ m.size \in Nat
           /\ m.buffer \in BOOLEAN /\ m.journal \in BOOLEAN
  BY BoundsAssumption, ModeAssumption

LEMMA DivIs ==
    ASSUME NEW m \in Modes, NEW n \in Nat
    PROVE  /\ n \div m.chunk \in Nat /\ n % m.chunk \in 0 .. m.chunk - 1
           /\ n = (n \div m.chunk) * m.chunk + (n % m.chunk)
<1>. DEFINE c == m.chunk
<1>1. c \in Nat /\ c > 0
  BY ModeIs
<1>. HIDE DEF c
<1>2. n \div c \in Nat /\ n % c \in 0 .. c - 1 /\ n = (n \div c) * c + (n % c)
  BY <1>1
<1>. QED
  BY <1>2 DEF c

LEMMA DivEq ==
    ASSUME NEW m \in Modes, NEW n \in Nat, NEW q \in Nat, q * m.chunk <= n, n < q * m.chunk + m.chunk
    PROVE  n \div m.chunk = q /\ n % m.chunk = n - q * m.chunk
<1>. DEFINE c == m.chunk
<1>1. c \in Nat /\ c > 0 /\ q * c <= n /\ n < q * c + c
  BY ModeIs
<1>. HIDE DEF c
<1>2. n < (q + 1) * c
  BY <1>1
<1>3. n \div c = q
  BY <1>1, <1>2
<1>4. n = (n \div c) * c + (n % c) /\ n % c \in Nat
  BY <1>1
<1>5. n % c = n - q * c
  BY <1>1, <1>3, <1>4
<1>. QED
  BY <1>3, <1>5 DEF c

\* Where chunks begin.
LEMMA Starts ==
    ASSUME NEW m \in Modes
    PROVE  /\ 0 * m.chunk = 0
           /\ \A i \in Nat : i * m.chunk \in Nat /\ (i + 1) * m.chunk = i * m.chunk + m.chunk
           /\ \A i, j \in Nat : i < j => i * m.chunk + m.chunk <= j * m.chunk
<1>. DEFINE c == m.chunk
<1>1. c \in Nat /\ c > 0
  BY ModeIs
<1>. HIDE DEF c
<1>2. \A i \in Nat : i * c \in Nat /\ (i + 1) * c = i * c + c
  BY <1>1
<1>3. ASSUME NEW i \in Nat, NEW j \in Nat, i < j PROVE i * c + c <= j * c
  <2>1. (i + 1) * c <= j * c
    BY <1>1, <1>3
  <2>. QED
    BY <1>2, <2>1
<1>. QED
  BY <1>1, <1>2, <1>3 DEF c

\* The length of chunk i of a file of n bytes, and that b is a block with this
\* chunk of f, or a missing one where it is all zeros.
ChunkLen(m, n, i) ==
    IF n <= i * m.chunk THEN 0 ELSE IF n - i * m.chunk < m.chunk THEN n - i * m.chunk ELSE m.chunk

Holds(m, b, f, i) ==
    /\ b \in Seq(Bytes(m)) /\ Len(b) \in {0, ChunkLen(m, Len(f), i)}
    /\ \A k \in 1 .. ChunkLen(m, Len(f), i) : f[i * m.chunk + k] = IF Len(b) = 0 THEN 0 ELSE b[k]

LEMMA ChunkIs ==
    ASSUME NEW m \in Modes, NEW n \in Nat, NEW i \in Nat
    PROVE  /\ ChunkLen(m, n, i) \in 0 .. m.chunk
           /\ ChunkLen(m, n, i) > 0 => i * m.chunk < n /\ i * m.chunk + ChunkLen(m, n, i) <= n
           /\ ChunkLen(m, n, i) < m.chunk => n <= i * m.chunk + ChunkLen(m, n, i)
           /\ i * m.chunk < n => ChunkLen(m, n, i) > 0
           /\ i * m.chunk + m.chunk <= n => ChunkLen(m, n, i) = m.chunk
           /\ n <= i * m.chunk => ChunkLen(m, n, i) = 0
<1>. DEFINE c == m.chunk
           x == i * m.chunk
<1>1. c \in Nat /\ c > 0 /\ x \in Nat
  BY ModeIs, Starts
<1>2. ChunkLen(m, n, i) = IF n <= x THEN 0 ELSE IF n - x < c THEN n - x ELSE c
  BY DEF ChunkLen
<1>. HIDE DEF c, x
<1>3. /\ ChunkLen(m, n, i) \in 0 .. c
      /\ ChunkLen(m, n, i) > 0 => x < n /\ x + ChunkLen(m, n, i) <= n
      /\ ChunkLen(m, n, i) < c => n <= x + ChunkLen(m, n, i)
      /\ x < n => ChunkLen(m, n, i) > 0
      /\ x + c <= n => ChunkLen(m, n, i) = c
      /\ n <= x => ChunkLen(m, n, i) = 0
  BY <1>1, <1>2
<1>. QED
  BY <1>3 DEF c, x

\* Reading is putting the chunks together.
LEMMA ReadIs ==
    ASSUME mode \in Modes, NEW f \in Seq(Bytes(mode)), Len(f) <= mode.size, NEW b, NEW t,
           \A i \in Indices : Holds(mode, b[i], f, i)
    PROVE  ReadAll(Len(f), b, t) = f
<1>. DEFINE c == mode.chunk
<1>0. c \in Nat /\ c > 0 /\ mode.size \in Nat /\ Len(f) \in Nat
  BY ModeIs
<1>1. ASSUME NEW k \in 1 .. Len(f)
      PROVE  LET i    == (k - 1) \div C
                 off  == k - i * C
                 last == (i + 1) * C >= Len(f)
             IN  (IF off <= Len(b[i]) THEN b[i][off]
                  ELSE IF last \/ i = t \/ b[i] = <<>> THEN 0 ELSE Bad) = f[k]
  <2>. DEFINE i == (k - 1) \div c
             off == k - i * c
  <2>1. i \in Nat /\ i * c \in Nat /\ i * c <= k - 1 /\ k - 1 < i * c + c
    <3>1. k - 1 \in Nat
      OBVIOUS
    <3>2. i \in Nat /\ (k - 1) % c \in 0 .. c - 1 /\ k - 1 = i * c + ((k - 1) % c)
      BY <3>1, DivIs
    <3>3. i * c \in Nat
      BY <3>2, Starts
    <3>. DEFINE x == i * c
                y == (k - 1) % c
    <3>4. x \in Nat /\ y \in 0 .. c - 1 /\ k - 1 = x + y
      BY <3>2, <3>3
    <3>. HIDE DEF c, i, x, y
    <3>5. x <= k - 1 /\ k - 1 < x + c
      BY <1>0, <3>4
    <3>. QED
      BY <3>2, <3>3, <3>5 DEF x
  <2>2. i \in Indices
    <3>. DEFINE e == mode.size \div c
    <3>1. e \in Nat /\ mode.size % c \in 0 .. c - 1 /\ mode.size = e * c + (mode.size % c)
      BY <1>0, DivIs
    <3>2. e * c \in Nat
      BY <3>1, Starts
    <3>3. mode.size < e * c + c
      BY <1>0, <3>1, <3>2
    <3>4. i <= e
      <4>1. e < i => e * c + c <= i * c
        BY <2>1, <3>1, Starts
      <4>. DEFINE x == i * c
                  y == e * c
      <4>2. x \in Nat /\ y \in Nat /\ x <= k - 1 /\ mode.size < y + c /\ (e < i => y + c <= x)
        BY <2>1, <3>2, <3>3, <4>1
      <4>3. k - 1 \in Nat /\ k - 1 < mode.size /\ mode.size \in Nat
        <5>1. k \in Nat /\ k >= 1 /\ k <= Len(f) /\ Len(f) <= mode.size /\ mode.size \in Nat
          BY <1>0
        <5>. QED
          BY <5>1
      <4>4. i \in Nat /\ e \in Nat /\ c \in Nat
        BY <1>0, <2>1, <3>1
      <4>. HIDE DEF c, i, e, x, y
      <4>. QED
        BY <4>2, <4>3, <4>4
    <3>. QED
      BY <2>1, <3>1, <3>4 DEF Indices, MaxSize, C
  <2>. HIDE DEF i
  <2>3. off \in 1 .. ChunkLen(mode, Len(f), i) /\ i * c + off = k
    <3>. DEFINE x == i * c
    <3>1. ChunkLen(mode, Len(f), i) = IF Len(f) <= x THEN 0 ELSE IF Len(f) - x < c THEN Len(f) - x ELSE c
      BY DEF ChunkLen
    <3>2. x \in Nat /\ x <= k - 1 /\ k - 1 < x + c /\ off = k - x
      BY <2>1
    <3>. HIDE DEF c, x, off
    <3>3. off \in 1 .. ChunkLen(mode, Len(f), i) /\ x + off = k
      BY <1>0, <3>1, <3>2
    <3>. QED
      BY <3>3 DEF x
  <2>4. Holds(mode, b[i], f, i)
    BY <2>2
  <2>5. f[k] = IF Len(b[i]) = 0 THEN 0 ELSE b[i][off]
    BY <2>3, <2>4 DEF Holds
  <2>6. b[i] \in Seq(Bytes(mode)) /\ Len(b[i]) \in {0, ChunkLen(mode, Len(f), i)}
    BY <2>4 DEF Holds
  <2>7. Len(b[i]) = 0 => b[i] = <<>>
    BY <2>6
  <2>8. (IF off <= Len(b[i]) THEN b[i][off]
         ELSE IF (i + 1) * C >= Len(f) \/ i = t \/ b[i] = <<>> THEN 0 ELSE Bad) = f[k]
    <3>1. CASE Len(b[i]) = 0
      BY <2>3, <2>5, <2>7, <3>1
    <3>2. CASE Len(b[i]) # 0
      BY <2>3, <2>5, <2>6, <3>2
    <3>. QED
      BY <3>1, <3>2
  <2>. QED
    BY <2>8 DEF i, C
<1>2. f = [k \in 1 .. Len(f) |-> f[k]]
  OBVIOUS
<1>. QED
  BY <1>1, <1>2 DEF ReadAll

-----------------------------------------------------------------------------
(* Versions and sessions                                                    *)

Served(m, v, f) == \A i \in Nat : Holds(m, ArchiveBlock(v, i), f, i)

\* The content of a version.
Is(m, v, f) ==
    f \in Seq(Bytes(m)) /\ Len(f) = v.size /\ Len(f) <= m.size /\ Served(m, v, f)

Logging(m) == m.buffer /\ m.journal

Versions(m) == [blocks : Seq(Seq(Bytes(m))), tail : Seq(Bytes(m)), size : 0 .. m.size]

\* Where a journal is written all blocks are full; elsewhere there is none.
VersionOK(m, v) ==
    /\ v \in Versions(m) /\ \E f : Is(m, v, f)
    /\ IF Logging(m)
       THEN /\ \A j \in 1 .. Len(v.blocks) : Len(v.blocks[j]) = m.chunk
            /\ Len(v.tail) < m.chunk /\ v.size = Len(v.blocks) * m.chunk + Len(v.tail)
       ELSE v.tail = <<>>

LEMMA MountedIs ==
    ASSUME mode \in Modes, NEW v, NEW f, Is(mode, v, f) PROVE Mounted(v) = f
<1>. DEFINE b == [i \in Indices |-> ArchiveBlock(v, i)]
<1>1. \A i \in Indices : i \in Nat
  <2>1. mode.size \div mode.chunk \in Nat
    BY ModeIs, DivIs
  <2>. QED
    BY <2>1 DEF Indices, MaxSize, C
<1>2. \A i \in Indices : Holds(mode, b[i], f, i)
  BY <1>1 DEF Is, Served
<1>3. f \in Seq(Bytes(mode)) /\ Len(f) = v.size /\ Len(f) <= mode.size
  BY DEF Is
<1>. HIDE DEF b
<1>4. ReadAll(Len(f), b, -1) = f
  BY <1>2, <1>3, ReadIs
<1>. QED
  BY <1>3, <1>4 DEF b, Mounted

LEMMA SameText ==
    ASSUME mode \in Modes, NEW v, NEW f, NEW g, Is(mode, v, f), Is(mode, v, g) PROVE f = g
  BY MountedIs

\* A set of natural numbers has a least one.
LEMMA LeastNat == ASSUME NEW T \in SUBSET Nat, T # {} PROVE \E k \in T : \A l \in T : k <= l
<1>. DEFINE R == OpToRel(<, Nat)
<1>1. IsWellFoundedOn(R, Nat) /\ T \subseteq Nat
  BY NatLessThanWellFounded
<1>2. \E k \in T : \A l \in T : ~(<<l, k>> \in R)
  <2>. HIDE DEF R
  <2>. QED
    BY <1>1, WFMin
<1>3. PICK k \in T : \A l \in T : ~(<<l, k>> \in R)
  BY <1>2
<1>4. \A l \in T : ~(l < k)
  BY <1>3 DEF OpToRel
<1>. QED
  BY <1>4

\* Overlay ends with the last dirty block or where the rest was cut.
OverlaySize(blocks, keep) == IF keep < Len(blocks) THEN keep ELSE Len(blocks)

Overlaid(m, blocks, keep, d, n) ==
    [j \in 1 .. n |-> IF j - 1 \in DOMAIN d THEN d[j - 1]
                      ELSE IF j <= OverlaySize(blocks, keep) THEN blocks[j]
                      ELSE [k \in 1 .. m.chunk |-> 0]]

OverlayEnds(blocks, keep, d, n) ==
    /\ n >= OverlaySize(blocks, keep) /\ \A i \in DOMAIN d : i < n
    /\ n = OverlaySize(blocks, keep) \/ \E i \in DOMAIN d : n = i + 1

LEMMA OverlayIs ==
    ASSUME NEW blocks, Len(blocks) \in Nat, NEW keep \in Nat, NEW d, NEW M \in Nat, DOMAIN d \subseteq 0 .. M
    PROVE  \E n \in Nat : OverlayEnds(blocks, keep, d, n)
                           /\ Overlay(blocks, keep, d) = Overlaid(mode, blocks, keep, d, n)
<1>. DEFINE base == OverlaySize(blocks, keep)
           Ends(k) == k \in {base} \cup {i + 1 : i \in DOMAIN d} /\ k >= base /\ \A i \in DOMAIN d : k > i
           n == CHOOSE k \in {base} \cup {i + 1 : i \in DOMAIN d} : k >= base /\ \A i \in DOMAIN d : k > i
           T == {k \in Nat : k >= base /\ \A i \in DOMAIN d : k > i}
<1>1. base \in Nat /\ \A i \in DOMAIN d : i \in Nat /\ i <= M
  BY DEF OverlaySize
<1>. HIDE DEF base
<1>2. \E k : Ends(k)
  <2>1. T # {}
    <3>1. base + M + 1 \in T
      BY <1>1
    <3>. QED
      BY <3>1
  <2>2. T \subseteq Nat
    OBVIOUS
  <2>. HIDE DEF T
  <2>3. PICK k \in T : \A l \in T : k <= l
    BY <2>1, <2>2, LeastNat
  <2>4. k \in Nat /\ k >= base /\ \A i \in DOMAIN d : k > i
    BY DEF T
  <2>5. CASE k = base
    BY <2>4, <2>5
  <2>6. CASE k # base
    <3>1. k - 1 \in Nat /\ k - 1 >= base
      BY <1>1, <2>4, <2>6
    <3>2. k - 1 \notin T
      BY <2>3, <2>4, <3>1
    <3>3. PICK i \in DOMAIN d : ~(k - 1 > i)
      BY <3>1, <3>2 DEF T
    <3>4. k = i + 1
      BY <1>1, <2>4, <3>3
    <3>. QED
      BY <2>4, <3>4
  <2>. QED
    BY <2>5, <2>6
<1>3. Ends(n)
  BY <1>2
<1>4. n \in Nat
  BY <1>1, <1>3
<1>5. Overlay(blocks, keep, d) = Overlaid(mode, blocks, keep, d, n)
  BY DEF Overlay, Overlaid, base, OverlaySize, C
<1>. HIDE DEF n
<1>6. OverlayEnds(blocks, keep, d, n)
  BY <1>3 DEF base, OverlayEnds
<1>. QED
  BY <1>4, <1>5, <1>6

\* A block of a session s over a version v; SessionBlock reads over seen.
Under(s, v, i) ==
    IF s.open /\ i \in DOMAIN s.dirty THEN s.dirty[i]
    ELSE IF s.open /\ i >= s.keep THEN <<>> ELSE ArchiveBlock(v, i)

SessionOK(m, s) ==
    /\ s = [open |-> s.open, dirty |-> s.dirty, size |-> s.size, keep |-> s.keep]
    /\ s.open \in BOOLEAN /\ s.size \in 0 .. m.size /\ s.keep \in 0 .. m.size + 1
    /\ DOMAIN s.dirty \subseteq 0 .. m.size
    /\ \A i \in DOMAIN s.dirty : s.dirty[i] \in Seq(Bytes(m)) /\ Len(s.dirty[i]) > 0
    /\ ~s.open => s.dirty = <<>> /\ s.size = 0 /\ s.keep = m.size + 1

LEMMA NoBlock == ASSUME NEW m, NEW f, NEW i, Holds(m, <<>>, f, i)
                 PROVE  \A k \in 1 .. ChunkLen(m, Len(f), i) : f[i * m.chunk + k] = 0
  BY DEF Holds

LEMMA ZeroBlock ==
    ASSUME mode \in Modes, NEW f, NEW i, Holds(mode, <<>>, f, i), ChunkLen(mode, Len(f), i) = mode.chunk
    PROVE  Holds(mode, [k \in 1 .. mode.chunk |-> 0], f, i)
<1>. DEFINE z == [k \in 1 .. mode.chunk |-> 0]
<1>1. mode.chunk \in Nat /\ mode.chunk > 0
  BY ModeIs
<1>2. z \in Seq(Bytes(mode)) /\ Len(z) = mode.chunk /\ \A k \in 1 .. mode.chunk : z[k] = 0
  BY <1>1 DEF Bytes
<1>. HIDE DEF z
<1>3. Holds(mode, z, f, i)
  BY <1>1, <1>2, NoBlock DEF Holds
<1>. QED
  BY <1>3 DEF z

\* A session that shows f makes a version that holds f, and shows it still over
\* this version.
LEMMA CommitIs ==
    ASSUME mode \in Modes, ~Logging(mode), NEW v, VersionOK(mode, v), NEW s, SessionOK(mode, s), s.open,
           NEW f \in Seq(Bytes(mode)), Len(f) = s.size, \A i \in Nat : Holds(mode, Under(s, v, i), f, i)
    PROVE  /\ VersionOK(mode, WithSession(v, s)) /\ Is(mode, WithSession(v, s), f)
           /\ \A i \in Nat : Holds(mode, Under(s, WithSession(v, s), i), f, i)
<1>. DEFINE w == WithSession(v, s)
           base == OverlaySize(v.blocks, s.keep)
           z == [k \in 1 .. mode.chunk |-> 0]
<1>0. /\ mode.chunk \in Nat /\ mode.chunk > 0 /\ mode.size \in Nat /\ s.keep \in Nat /\ s.size \in 0 .. mode.size
      /\ v \in Versions(mode) /\ v.tail = <<>> /\ Len(v.blocks) \in Nat /\ v.blocks \in Seq(Seq(Bytes(mode)))
      /\ DOMAIN s.dirty \subseteq 0 .. mode.size /\ Len(f) \in Nat
  BY ModeIs DEF SessionOK, VersionOK, Versions
<1>1. PICK n \in Nat : OverlayEnds(v.blocks, s.keep, s.dirty, n)
                         /\ Overlay(v.blocks, s.keep, s.dirty) = Overlaid(mode, v.blocks, s.keep, s.dirty, n)
  <2>. DEFINE bl == v.blocks
              d == s.dirty
              M == mode.size
              K == s.keep
  <2>1. Len(bl) \in Nat /\ K \in Nat /\ M \in Nat /\ DOMAIN d \subseteq 0 .. M
    BY <1>0
  <2>. HIDE DEF bl, d, M, K
  <2>2. \E n \in Nat : OverlayEnds(bl, K, d, n) /\ Overlay(bl, K, d) = Overlaid(mode, bl, K, d, n)
    BY <2>1, OverlayIs
  <2>. QED
    BY <2>2 DEF bl, d, K
<1>1a. n >= base /\ (\A i \in DOMAIN s.dirty : i < n) /\ (n = base \/ \E i \in DOMAIN s.dirty : n = i + 1)
  BY <1>1 DEF OverlayEnds
<1>. DEFINE blocks == Overlaid(mode, v.blocks, s.keep, s.dirty, n)
<1>1b. blocks = [j \in 1 .. n |-> IF j - 1 \in DOMAIN s.dirty THEN s.dirty[j - 1]
                                ELSE IF j <= base THEN v.blocks[j] ELSE z]
  BY DEF Overlaid
<1>2. w = [blocks |-> blocks, tail |-> <<>>, size |-> s.size]
  <2>1. w = [v EXCEPT !.blocks = blocks, !.size = s.size]
    BY <1>1 DEF WithSession
  <2>. HIDE DEF blocks, w
  <2>. QED
    BY <1>0, <2>1 DEF Versions
<1>. HIDE DEF blocks
<1>3. base \in Nat /\ base <= s.keep /\ base <= Len(v.blocks) /\ (base = s.keep \/ base = Len(v.blocks))
  BY <1>0 DEF OverlaySize
<1>4. z \in Seq(Bytes(mode))
  BY <1>0 DEF Bytes
<1>5. blocks \in Seq(Seq(Bytes(mode))) /\ Len(blocks) = n
  <2>. DEFINE B == Seq(Bytes(mode))
  <2>1. ASSUME NEW j \in 1 .. n PROVE blocks[j] \in B
    <3>1. j - 1 \in DOMAIN s.dirty => s.dirty[j - 1] \in B
      BY DEF SessionOK
    <3>2. j <= base => v.blocks[j] \in B
      <4>. HIDE DEF B, base
      <4>1. j <= base => j \in 1 .. Len(v.blocks)
        BY <1>0, <1>3
      <4>2. v.blocks \in Seq(B)
        BY <1>0 DEF B
      <4>. QED
        BY <4>1, <4>2
    <3>3. z \in B
      BY <1>4
    <3>. HIDE DEF B, base, z
    <3>. QED
      BY <1>1b, <3>1, <3>2, <3>3
  <2>2. DOMAIN blocks = 1 .. n /\ blocks = [j \in 1 .. n |-> blocks[j]]
    BY <1>1b
  <2>. HIDE DEF B, blocks
  <2>3. blocks \in [1 .. n -> B] /\ n \in Nat
    BY <2>1, <2>2
  <2>4. blocks \in Seq(B) /\ Len(blocks) = n
    BY <2>3
  <2>. QED
    BY <2>4 DEF B
<1>7. ASSUME NEW i \in Nat
      PROVE  ArchiveBlock(w, i) = IF i >= n THEN <<>> ELSE IF i \in DOMAIN s.dirty THEN s.dirty[i]
                                  ELSE IF i < base THEN v.blocks[i + 1] ELSE z
  <2>1. i < n => i + 1 \in 1 .. n /\ i + 1 - 1 = i /\ (i + 1 <= base <=> i < base)
    BY <1>3
  <2>2. i < n => blocks[i + 1] = IF i \in DOMAIN s.dirty THEN s.dirty[i]
                                 ELSE IF i < base THEN v.blocks[i + 1] ELSE z
    BY <1>1b, <2>1
  <2>. HIDE DEF blocks, z, w, base
  <2>3. ArchiveBlock(w, i) = IF i < n THEN blocks[i + 1] ELSE <<>>
    <3>1. w.blocks = blocks /\ w.tail = <<>>
      BY <1>2
    <3>. QED
      BY <1>5, <3>1 DEF ArchiveBlock
  <2>. QED
    BY <2>2, <2>3
<1>. HIDE DEF blocks, z, w, base
<1>8. ASSUME NEW i \in Nat, i >= base, i \notin DOMAIN s.dirty PROVE Under(s, v, i) = <<>>
  <2>1. i >= s.keep \/ i >= Len(v.blocks)
    BY <1>0, <1>3, <1>8
  <2>. QED
    BY <1>0, <1>8, <2>1 DEF Under, ArchiveBlock
<1>9. ASSUME NEW i \in Nat PROVE Holds(mode, ArchiveBlock(w, i), f, i)
  <2>0. Holds(mode, Under(s, v, i), f, i)
    OBVIOUS
  <2>1. CASE i \in DOMAIN s.dirty
    <3>1. ArchiveBlock(w, i) = s.dirty[i] /\ Under(s, v, i) = s.dirty[i]
      BY <1>1a, <1>7, <2>1 DEF Under
    <3>. QED
      BY <2>0, <3>1
  <2>2. CASE i \notin DOMAIN s.dirty /\ i < base
    <3>1. ArchiveBlock(w, i) = v.blocks[i + 1]
      BY <1>1a, <1>3, <1>7, <2>2
    <3>2. Under(s, v, i) = v.blocks[i + 1]
      BY <1>0, <1>3, <2>2 DEF Under, ArchiveBlock
    <3>. QED
      BY <2>0, <3>1, <3>2
  <2>3. CASE i \notin DOMAIN s.dirty /\ i >= base /\ i >= n
    <3>1. ArchiveBlock(w, i) = <<>> /\ Under(s, v, i) = <<>>
      BY <1>7, <1>8, <2>3
    <3>. QED
      BY <2>0, <3>1
  <2>4. CASE i \notin DOMAIN s.dirty /\ i >= base /\ i < n
    <3>1. ArchiveBlock(w, i) = z /\ Under(s, v, i) = <<>>
      BY <1>3, <1>7, <1>8, <2>4
    <3>2. PICK d \in DOMAIN s.dirty : n = d + 1 /\ d \in Nat /\ i < d
      <4>1. PICK d \in DOMAIN s.dirty : n = d + 1
        BY <1>1a, <1>3, <2>4
      <4>2. d \in Nat
        BY <1>0
      <4>. QED
        BY <2>4, <4>1, <4>2
    <3>3. Holds(mode, s.dirty[d], f, d) /\ Len(s.dirty[d]) > 0
      <4>1. Under(s, v, d) = s.dirty[d]
        BY DEF Under
      <4>. QED
        BY <3>2, <4>1 DEF SessionOK
    <3>4. ChunkLen(mode, Len(f), d) > 0
      <4>1. ChunkLen(mode, Len(f), d) # 0
        BY <3>3 DEF Holds
      <4>2. ChunkLen(mode, Len(f), d) \in 0 .. mode.chunk
        BY <1>0, <3>2, ChunkIs
      <4>. QED
        BY <1>0, <4>1, <4>2
    <3>5. d * mode.chunk < Len(f)
      BY <1>0, <3>2, <3>4, ChunkIs
    <3>6. i * mode.chunk + mode.chunk <= Len(f)
      <4>1. i * mode.chunk + mode.chunk <= d * mode.chunk
        BY <3>2, Starts
      <4>2. i * mode.chunk \in Nat /\ d * mode.chunk \in Nat
        BY <3>2, Starts
      <4>. DEFINE x == i * mode.chunk
                  y == d * mode.chunk
                  c == mode.chunk
      <4>3. x + c <= y /\ x \in Nat /\ y \in Nat /\ y < Len(f) /\ c \in Nat /\ Len(f) \in Nat
        BY <1>0, <3>5, <4>1, <4>2
      <4>. HIDE DEF x, y, c
      <4>4. x + c <= Len(f)
        BY <4>3
      <4>. QED
        BY <4>4 DEF x, c
    <3>7. ChunkLen(mode, Len(f), i) = mode.chunk
      BY <1>0, <3>6, ChunkIs
    <3>. QED
      BY <2>0, <3>1, <3>7, ZeroBlock DEF z
  <2>. QED
    BY <1>3, <2>1, <2>2, <2>3, <2>4
<1>10. Is(mode, w, f)
  BY <1>0, <1>2, <1>9 DEF Is, Served
<1>11. VersionOK(mode, w)
  <2>2. <<>> \in Seq(Bytes(mode))
    OBVIOUS
  <2>3. w \in Versions(mode)
    BY <1>0, <1>2, <1>5, <2>2 DEF Versions
  <2>. QED
    BY <1>2, <1>10, <2>3 DEF VersionOK
<1>12. ASSUME NEW i \in Nat PROVE Holds(mode, Under(s, w, i), f, i)
  <2>1. Under(s, w, i) \in {Under(s, v, i), ArchiveBlock(w, i)}
    BY DEF Under
  <2>. QED
    BY <1>9, <2>1
<1>. QED
  BY <1>10, <1>11, <1>12 DEF w

-----------------------------------------------------------------------------
(* The inductive invariant                                                  *)

\* Block b holds chunk i of the first n bytes of f.
HoldsTo(m, b, f, n, i) ==
    /\ b \in Seq(Bytes(m)) /\ Len(b) \in {0, ChunkLen(m, n, i)}
    /\ \A k \in 1 .. ChunkLen(m, n, i) : f[i * m.chunk + k] = IF Len(b) = 0 THEN 0 ELSE b[k]

\* Session s over version v shows the first n bytes of f.
Shows(m, s, v, f, n) ==
    /\ n = IF s.open THEN s.size ELSE v.size
    /\ \A i \in Nat : HoldsTo(m, Under(s, v, i), f, n, i)

FileInv(m, f) == f \in Seq(Bytes(m)) /\ Len(f) <= m.size

\* The store shows a prefix of the file, over both versions.
StoreInv(m, d, se, s, f, n) ==
    /\ SessionOK(m, s) /\ n \in 0 .. Len(f)
    /\ Shows(m, s, se, f, n) /\ Shows(m, s, d, f, n)
    /\ ~s.open => se = d
    /\ Logging(m) => ~s.open

TailOK(m, t) ==
    /\ t = [open |-> t.open, idx |-> t.idx, plain |-> t.plain, size |-> t.size, journaled |-> t.journaled]
    /\ t.open \in BOOLEAN /\ t.idx \in Nat /\ t.plain \in Seq(Bytes(m)) /\ Len(t.plain) <= m.chunk
    /\ t.size \in 0 .. m.size /\ t.journaled \in 0 .. Len(t.plain)
    /\ ~t.open => t = NoTail

\* The tail is the end of the file, and the store has all that comes before.
TailInv(m, t, f, n) ==
    /\ TailOK(m, t)
    /\ ~t.open => n = Len(f)
    /\ t.open => /\ m.buffer /\ t.size = Len(f) /\ t.size = t.idx * m.chunk + Len(t.plain)
                 /\ t.idx * m.chunk <= n
                 /\ \A k \in 1 .. Len(t.plain) : f[t.idx * m.chunk + k] = t.plain[k]

JournalInv(m, d, t) ==
    Logging(m) /\ t.open => t.idx = Len(d.blocks) /\ d.tail = SubSeq(t.plain, 1, t.journaled)

AppendOnly(m) == m.ops \cap {"write", "sparse", "hole", "truncate", "grow"} = {}

\* What a mount of a version may show.
TextInv(m, v, f, fl) ==
    \E g : Is(m, v, g) /\ IsPrefix(fl, g) /\ (AppendOnly(m) => IsPrefix(g, f))

DurableInv(m, d, st, se, f, fl) ==
    /\ VersionOK(m, d) /\ VersionOK(m, st) /\ VersionOK(m, se)
    /\ fl \in Seq(Bytes(m)) /\ IsPrefix(fl, f)
    /\ TextInv(m, d, f, fl) /\ TextInv(m, st, f, fl)

\* The change proper of a write or truncate, which nothing was promised about.
ChangeOK(m, j, f, fl) ==
    /\ ~Logging(m) /\ ~AppendOnly(m) /\ fl = <<>>
    /\ \/ /\ j.kind = "write" /\ j = [kind |-> "write", off |-> j.off, data |-> j.data]
          /\ j.off \in Nat /\ j.data \in Seq(Bytes(m)) /\ j.data # <<>> /\ j.off + Len(j.data) <= m.size
          /\ Len(f) % m.chunk = 0 \/ j.off \div m.chunk <= Len(f) \div m.chunk
       \/ /\ j.kind = "truncate" /\ j = [kind |-> "truncate", size |-> j.size]
          /\ j.size \in 0 .. m.size

AppendOK(m, j, f) ==
    /\ j.kind = "append" /\ j = [kind |-> "append", rest |-> j.rest]
    /\ j.rest \in Seq(Bytes(m)) /\ Len(f) + Len(j.rest) <= m.size

Syncs == {[kind |-> "fsync"], [kind |-> "release"], [kind |-> "forget"]}

StepInv(m, t, a, j, f, fl) ==
    /\ a \in {"idle", "fill", "seal", "apply", "journal", "commit"}
    /\ a \in {"idle", "fill", "journal", "commit"} => Len(t.plain) < m.chunk
    /\ a = "idle" => j = NoJob
    /\ a = "fill" => t.open /\ AppendOK(m, j, f)
    /\ a = "seal" => /\ t.open /\ t.plain # <<>>
                     /\ \/ AppendOK(m, j, f) /\ Len(t.plain) = m.chunk
                        \/ ChangeOK(m, j, f, fl)
    /\ a = "apply" => ~t.open /\ ChangeOK(m, j, f, fl)
    /\ a \in {"journal", "commit"} => j \in Syncs
    /\ a = "commit" /\ t.open => /\ Logging(m)
                                 /\ j.kind = "release" \/ t.journaled = Len(t.plain)

Inv ==
    /\ mode \in Modes
    /\ FileInv(mode, file)
    /\ DurableInv(mode, disk, stable, seen, file, floor)
    /\ StoreInv(mode, disk, seen, sess, file, StoreSize)
    /\ TailInv(mode, tail, file, StoreSize)
    /\ JournalInv(mode, disk, tail)
    /\ StepInv(mode, tail, at, job, file, floor)

-----------------------------------------------------------------------------
(* What the operations on a session do                                      *)

LEMMA StartAfter == ASSUME NEW m \in Modes, NEW i \in Nat PROVE i <= i * m.chunk
<1>. DEFINE c == m.chunk
<1>1. c \in Nat /\ c >= 1
  BY ModeIs
<1>. HIDE DEF c
<1>2. i <= i * c
  BY <1>1
<1>. QED
  BY <1>2 DEF c

LEMMA PastEnd ==
    ASSUME NEW m \in Modes, NEW n \in Nat, n <= m.size, NEW i \in Nat, i > m.size
    PROVE  ChunkLen(m, n, i) = 0
<1>1. m.chunk \in Nat /\ m.chunk > 0 /\ m.size \in Nat /\ i * m.chunk \in Nat
  BY ModeIs, Starts
<1>2. i * m.chunk >= i
  <2>. DEFINE c == m.chunk
  <2>1. c \in Nat /\ c >= 1
    BY <1>1
  <2>. HIDE DEF c
  <2>2. i * c >= i
    BY <2>1
  <2>. QED
    BY <2>2 DEF c
<1>3. n <= i * m.chunk
  <2>. DEFINE x == i * m.chunk
  <2>1. x \in Nat /\ x >= i /\ m.size \in Nat
    BY <1>1, <1>2
  <2>. HIDE DEF x
  <2>2. n <= x
    BY <2>1
  <2>. QED
    BY <2>2 DEF x
<1>. QED
  BY <1>3, ChunkIs

LEMMA Missing ==
    ASSUME NEW m, NEW f, NEW n, NEW i, ChunkLen(m, n, i) = 0
    PROVE  HoldsTo(m, <<>>, f, n, i)
  BY DEF HoldsTo

LEMMA ChunkWithin ==
    ASSUME NEW m \in Modes, NEW n \in Nat, NEW i \in Nat, NEW k \in 1 .. ChunkLen(m, n, i)
    PROVE  i * m.chunk + k \in 1 .. n /\ k \in Nat /\ k >= 1 /\ k <= m.chunk
<1>. DEFINE x == i * m.chunk
            l == ChunkLen(m, n, i)
<1>1. x \in Nat /\ m.chunk \in Nat /\ l \in 0 .. m.chunk
  BY ModeIs, Starts, ChunkIs
<1>2. k \in Nat /\ k >= 1 /\ k <= l /\ l \in Nat
  BY <1>1
<1>3. x + l <= n
  <2>1. ChunkLen(m, n, i) > 0
    BY <1>2
  <2>. QED
    BY <2>1, ChunkIs
<1>. HIDE DEF x, l
<1>4. x + k \in 1 .. n /\ k <= m.chunk
  BY <1>1, <1>2, <1>3
<1>. QED
  BY <1>2, <1>4 DEF x

LEMMA HoldsAgree ==
    ASSUME NEW m \in Modes, NEW n \in Nat, NEW i \in Nat, NEW b, NEW f, NEW g, HoldsTo(m, b, f, n, i),
           \A p \in 1 .. n : g[p] = f[p]
    PROVE  HoldsTo(m, b, g, n, i)
<1>1. \A k \in 1 .. ChunkLen(m, n, i) : i * m.chunk + k \in 1 .. n
  BY ChunkWithin
<1>2. \A k \in 1 .. ChunkLen(m, n, i) : g[i * m.chunk + k] = f[i * m.chunk + k]
  BY <1>1
<1>. QED
  BY <1>2 DEF HoldsTo

PutOK(m, s, d, size) ==
    /\ SessionOK(m, s) /\ DOMAIN d \subseteq 0 .. m.size /\ size \in 0 .. m.size
    /\ \A i \in DOMAIN d : d[i] \in Seq(Bytes(m)) /\ Len(d[i]) > 0

LEMMA PutIs ==
    ASSUME NEW m \in Modes, NEW s, NEW d, NEW size, PutOK(m, s, d, size)
    PROVE  /\ SessionOK(m, PutBlocks(s, d, size))
           /\ PutBlocks(s, d, size).open /\ PutBlocks(s, d, size).size = size
           /\ \A v : \A i \in Nat :
                IF i \in DOMAIN d THEN Under(PutBlocks(s, d, size), v, i) = d[i]
                ELSE \/ Under(PutBlocks(s, d, size), v, i) = Under(s, v, i)
                     \/ i > m.size /\ Under(PutBlocks(s, d, size), v, i) = <<>>
<1>. DEFINE S == PutBlocks(s, d, size)
            D == [i \in DOMAIN s.dirty \cup DOMAIN d |-> IF i \in DOMAIN d THEN d[i] ELSE s.dirty[i]]
<1>1. SessionOK(m, s) /\ m.size \in Nat /\ DOMAIN d \subseteq 0 .. m.size /\ size \in 0 .. m.size
      /\ \A i \in DOMAIN d : d[i] \in Seq(Bytes(m)) /\ Len(d[i]) > 0
  BY ModeIs DEF PutOK
<1>2. s = [open |-> s.open, dirty |-> s.dirty, size |-> s.size, keep |-> s.keep]
      /\ DOMAIN s.dirty \subseteq 0 .. m.size /\ s.keep \in 0 .. m.size + 1
      /\ \A i \in DOMAIN s.dirty : s.dirty[i] \in Seq(Bytes(m)) /\ Len(s.dirty[i]) > 0
  BY <1>1 DEF SessionOK
<1>3. ~s.open => s.dirty = <<>> /\ s.keep = m.size + 1
  BY <1>1 DEF SessionOK
<1>4. S = [open |-> TRUE, dirty |-> D, size |-> size, keep |-> s.keep]
  <2>1. S = [s EXCEPT !.open = TRUE, !.size = size, !.dirty = D]
    BY <1>2 DEF PutBlocks
  <2>. DEFINE o == s.open
              dd == s.dirty
              z == s.size
              k == s.keep
  <2>2. s = [open |-> o, dirty |-> dd, size |-> z, keep |-> k]
    BY <1>2
  <2>. HIDE DEF D, S, o, dd, z, k
  <2>3. S = [open |-> TRUE, dirty |-> D, size |-> size, keep |-> k]
    BY <2>1, <2>2
  <2>. QED
    BY <2>3 DEF k
<1>5. DOMAIN D = DOMAIN s.dirty \cup DOMAIN d
      /\ \A i \in DOMAIN D : D[i] = IF i \in DOMAIN d THEN d[i] ELSE s.dirty[i]
  OBVIOUS
<1>. HIDE DEF S, D
<1>6. S.open /\ S.dirty = D /\ S.size = size /\ S.keep = s.keep
  BY <1>4
<1>7. SessionOK(m, S)
  <2>1. S = [open |-> S.open, dirty |-> S.dirty, size |-> S.size, keep |-> S.keep] /\ S.open = TRUE
    BY <1>4
  <2>2. DOMAIN D \subseteq 0 .. m.size
    BY <1>1, <1>2, <1>5
  <2>3. \A i \in DOMAIN D : D[i] \in Seq(Bytes(m)) /\ Len(D[i]) > 0
    BY <1>1, <1>2, <1>5
  <2>. QED
    BY <1>1, <1>2, <1>6, <2>1, <2>2, <2>3 DEF SessionOK
<1>8. ASSUME NEW v, NEW i \in Nat
      PROVE  IF i \in DOMAIN d THEN Under(S, v, i) = d[i]
             ELSE Under(S, v, i) = Under(s, v, i) \/ (i > m.size /\ Under(S, v, i) = <<>>)
  <2>1. CASE i \in DOMAIN d
    BY <1>5, <1>6, <2>1 DEF Under
  <2>2. CASE i \notin DOMAIN d /\ s.open
    BY <1>5, <1>6, <2>2 DEF Under
  <2>3. CASE i \notin DOMAIN d /\ ~s.open
    <3>1. i \notin DOMAIN D /\ S.keep = m.size + 1
      BY <1>3, <1>5, <1>6, <2>3
    <3>2. Under(S, v, i) = IF i >= m.size + 1 THEN <<>> ELSE ArchiveBlock(v, i)
      BY <1>6, <3>1 DEF Under
    <3>3. Under(s, v, i) = ArchiveBlock(v, i)
      BY <2>3 DEF Under
    <3>. QED
      BY <1>1, <2>3, <3>2, <3>3
  <2>. QED
    BY <2>1, <2>2, <2>3
<1>. QED
  BY <1>6, <1>7, <1>8 DEF S

LEMMA PutShows ==
    ASSUME NEW m \in Modes, NEW s, NEW d, NEW size, PutOK(m, s, d, size), NEW v, NEW g,
           \A i \in DOMAIN d : HoldsTo(m, d[i], g, size, i),
           \A i \in Nat \ DOMAIN d : HoldsTo(m, Under(s, v, i), g, size, i)
    PROVE  Shows(m, PutBlocks(s, d, size), v, g, size)
<1>. DEFINE S == PutBlocks(s, d, size)
<1>1. S.open /\ S.size = size /\ size \in Nat /\ size <= m.size /\ m.size \in Nat
  BY PutIs, ModeIs DEF PutOK
<1>2. ASSUME NEW i \in Nat PROVE HoldsTo(m, Under(S, v, i), g, size, i)
  <2>1. CASE i \in DOMAIN d
    BY <2>1, PutIs
  <2>2. CASE i \notin DOMAIN d /\ Under(S, v, i) = Under(s, v, i)
    BY <2>2
  <2>3. CASE i > m.size /\ Under(S, v, i) = <<>>
    BY <1>1, <2>3, PastEnd, Missing
  <2>. QED
    BY <2>1, <2>2, <2>3, PutIs
<1>. QED
  BY <1>1, <1>2 DEF Shows

LEMMA TruncateIs ==
    ASSUME NEW m \in Modes, NEW s, SessionOK(m, s), NEW keep \in 0 .. m.size + 1, NEW size \in 0 .. m.size
    PROVE  /\ SessionOK(m, TruncateBlocks(s, keep, size))
           /\ TruncateBlocks(s, keep, size).open /\ TruncateBlocks(s, keep, size).size = size
           /\ \A v : \A i \in Nat :
                Under(TruncateBlocks(s, keep, size), v, i) = IF i < keep THEN Under(s, v, i) ELSE <<>>
<1>. DEFINE S == TruncateBlocks(s, keep, size)
            D == [i \in {j \in DOMAIN s.dirty : j < keep} |-> s.dirty[i]]
            K == Min2(s.keep, keep)
<1>1. m.size \in Nat /\ keep \in Nat
  BY ModeIs
<1>2. s = [open |-> s.open, dirty |-> s.dirty, size |-> s.size, keep |-> s.keep]
      /\ DOMAIN s.dirty \subseteq 0 .. m.size /\ s.keep \in 0 .. m.size + 1
      /\ \A i \in DOMAIN s.dirty : s.dirty[i] \in Seq(Bytes(m)) /\ Len(s.dirty[i]) > 0
  BY DEF SessionOK
<1>3. ~s.open => s.dirty = <<>> /\ s.keep = m.size + 1
  BY DEF SessionOK
<1>4. S = [open |-> TRUE, dirty |-> D, size |-> size, keep |-> K]
  <2>1. S = [s EXCEPT !.open = TRUE, !.size = size, !.keep = K, !.dirty = D]
    BY <1>2 DEF TruncateBlocks
  <2>. DEFINE o == s.open
              dd == s.dirty
              z == s.size
              k == s.keep
  <2>2. s = [open |-> o, dirty |-> dd, size |-> z, keep |-> k]
    BY <1>2
  <2>. HIDE DEF D, S, K, o, dd, z, k
  <2>. QED
    BY <2>1, <2>2
<1>5. DOMAIN D = {j \in DOMAIN s.dirty : j < keep} /\ \A i \in DOMAIN D : D[i] = s.dirty[i]
  OBVIOUS
<1>6. K \in 0 .. m.size + 1 /\ \A i \in Nat : i >= K <=> i >= keep \/ i >= s.keep
  BY <1>1, <1>2 DEF Min2
<1>. HIDE DEF S, D, K
<1>7. S.open /\ S.dirty = D /\ S.size = size /\ S.keep = K
  BY <1>4
<1>8. SessionOK(m, S)
  <2>1. S = [open |-> S.open, dirty |-> S.dirty, size |-> S.size, keep |-> S.keep] /\ S.open = TRUE
    BY <1>4
  <2>2. DOMAIN D \subseteq 0 .. m.size
    BY <1>2, <1>5
  <2>3. \A i \in DOMAIN D : D[i] \in Seq(Bytes(m)) /\ Len(D[i]) > 0
    BY <1>2, <1>5
  <2>. QED
    BY <1>6, <1>7, <2>1, <2>2, <2>3 DEF SessionOK
<1>9. ASSUME NEW v, NEW i \in Nat PROVE Under(S, v, i) = IF i < keep THEN Under(s, v, i) ELSE <<>>
  <2>0. i \in DOMAIN D <=> i \in DOMAIN s.dirty /\ i < keep
    BY <1>5
  <2>1. Under(S, v, i) = IF i \in DOMAIN D THEN s.dirty[i]
                         ELSE IF i >= keep \/ i >= s.keep THEN <<>> ELSE ArchiveBlock(v, i)
    BY <1>5, <1>6, <1>7 DEF Under
  <2>2. CASE i >= keep
    BY <1>1, <2>0, <2>1, <2>2
  <2>3. CASE i < keep /\ s.open
    BY <1>1, <2>0, <2>1, <2>3 DEF Under
  <2>4. CASE i < keep /\ ~s.open
    <3>1. ~(i >= s.keep) /\ i \notin DOMAIN s.dirty
      BY <1>1, <1>3, <2>4
    <3>. QED
      BY <1>1, <2>0, <2>1, <2>4, <3>1 DEF Under
  <2>. QED
    BY <1>1, <2>2, <2>3, <2>4
<1>. QED
  BY <1>7, <1>8, <1>9 DEF S

LEMMA TruncateShows ==
    ASSUME NEW m \in Modes, NEW s, SessionOK(m, s), NEW keep \in 0 .. m.size + 1, NEW size \in 0 .. m.size,
           NEW v, NEW g,
           \A i \in Nat : i < keep => HoldsTo(m, Under(s, v, i), g, size, i),
           \A i \in Nat : i >= keep => HoldsTo(m, <<>>, g, size, i)
    PROVE  Shows(m, TruncateBlocks(s, keep, size), v, g, size)
<1>. DEFINE S == TruncateBlocks(s, keep, size)
<1>1. S.open /\ S.size = size /\ keep \in Nat /\ \A i \in Nat : Under(S, v, i) = IF i < keep THEN Under(s, v, i) ELSE <<>>
  BY TruncateIs, ModeIs
<1>. HIDE DEF S
<1>2. ASSUME NEW i \in Nat PROVE HoldsTo(m, Under(S, v, i), g, size, i)
  BY <1>1
<1>3. Shows(m, S, v, g, size)
  BY <1>1, <1>2 DEF Shows
<1>. QED
  BY <1>3 DEF S

-----------------------------------------------------------------------------
(* Tails                                                                    *)

LEMMA ResizedIs ==
    ASSUME NEW S, 0 \in S, NEW s \in Seq(S), NEW n \in Nat
    PROVE  /\ Resized(s, n) \in Seq(S) /\ Len(Resized(s, n)) = n
           /\ \A k \in 1 .. n : Resized(s, n)[k] = IF k <= Len(s) THEN s[k] ELSE 0
<1>1. \A k \in 1 .. n : (IF k <= Len(s) THEN s[k] ELSE 0) \in S
  OBVIOUS
<1>. QED
  BY <1>1 DEF Resized

\* The chunks of n bytes are those before n \div chunk, which are full, and the
\* rest in the last one.
LEMMA LastChunk ==
    ASSUME NEW m \in Modes, NEW n \in Nat, NEW i \in Nat
    PROVE  /\ i < n \div m.chunk => i * m.chunk + m.chunk <= n /\ ChunkLen(m, n, i) = m.chunk
           /\ i > n \div m.chunk => n <= i * m.chunk /\ ChunkLen(m, n, i) = 0
           /\ i = n \div m.chunk => ChunkLen(m, n, i) = n % m.chunk
           /\ (n \div m.chunk) * m.chunk \in Nat /\ (n \div m.chunk) * m.chunk + (n % m.chunk) = n
           /\ (n \div m.chunk) * m.chunk <= n
<1>. DEFINE c == m.chunk
            q == n \div m.chunk
            r == n % m.chunk
            x == i * m.chunk
            y == q * m.chunk
<1>1. c \in Nat /\ c > 0 /\ q \in Nat /\ r \in 0 .. c - 1 /\ n = y + r
  BY ModeIs, DivIs
<1>2. x \in Nat /\ y \in Nat /\ (i < q => x + c <= y) /\ (i > q => y + c <= x) /\ (i = q => x = y)
  BY <1>1, Starts
<1>3. ChunkLen(m, n, i) = IF n <= x THEN 0 ELSE IF n - x < c THEN n - x ELSE c
  BY DEF ChunkLen
<1>. HIDE DEF c, q, r, x, y
<1>4. /\ i < q => x + c <= n /\ ChunkLen(m, n, i) = c
      /\ i > q => n <= x /\ ChunkLen(m, n, i) = 0
      /\ i = q => ChunkLen(m, n, i) = r
      /\ y \in Nat /\ y + r = n /\ y <= n
  BY <1>1, <1>2, <1>3
<1>. QED
  BY <1>4 DEF c, q, r, x, y

\* p is the r bytes of f from offset x on.
TailIs(m, p, f, x, r) ==
    p \in Seq(Bytes(m)) /\ Len(p) = r /\ \A k \in 1 .. Len(p) : f[x + k] = p[k]

\* Loading a tail takes the last, partial chunk.
LEMMA LoadIs ==
    ASSUME NEW m \in Modes, NEW f \in Seq(Bytes(m)), NEW n \in Nat, n = Len(f), n <= m.size, NEW b,
           HoldsTo(m, b, f, n, n \div m.chunk)
    PROVE  TailIs(m, Resized(b, n % m.chunk), f, (n \div m.chunk) * m.chunk, n % m.chunk)
<1>. DEFINE p == Resized(b, n % m.chunk)
            r == n % m.chunk
            x == (n \div m.chunk) * m.chunk
<1>1. r \in Nat /\ n \div m.chunk \in Nat /\ ChunkLen(m, n, n \div m.chunk) = r
  BY ModeIs, DivIs, LastChunk
<1>2. b \in Seq(Bytes(m)) /\ Len(b) \in {0, r} /\ \A k \in 1 .. r : f[x + k] = IF Len(b) = 0 THEN 0 ELSE b[k]
  BY <1>1 DEF HoldsTo
<1>3. 0 \in Bytes(m)
  BY DEF Bytes
<1>4. p \in Seq(Bytes(m)) /\ Len(p) = r /\ \A k \in 1 .. r : p[k] = IF k <= Len(b) THEN b[k] ELSE 0
  <2>. HIDE DEF r
  <2>1. Resized(b, r) \in Seq(Bytes(m)) /\ Len(Resized(b, r)) = r
        /\ \A k \in 1 .. r : Resized(b, r)[k] = IF k <= Len(b) THEN b[k] ELSE 0
    BY <1>1, <1>2, <1>3, ResizedIs
  <2>. QED
    BY <2>1 DEF r
<1>. HIDE DEF p, r, x
<1>5. \A k \in 1 .. r : f[x + k] = p[k]
  <2>1. ASSUME NEW k \in 1 .. r PROVE f[x + k] = p[k]
    <3>1. k \in Nat /\ k >= 1 /\ k <= r
      BY <1>1
    <3>2. CASE Len(b) = 0
      BY <1>2, <1>4, <3>1, <3>2
    <3>3. CASE Len(b) = r
      <4>1. ~(Len(b) = 0)
        BY <1>1, <3>1, <3>3
      <4>2. f[x + k] = b[k]
        BY <1>2, <4>1
      <4>3. p[k] = b[k]
        BY <1>4, <3>1, <3>3
      <4>. QED
        BY <4>2, <4>3
    <3>. QED
      BY <1>2, <3>2, <3>3
  <2>. QED
    BY <2>1
<1>6. TailIs(m, p, f, x, r)
  BY <1>4, <1>5 DEF TailIs
<1>. QED
  BY <1>6 DEF p, r, x

LoadedTailOf(m, b, n) ==
    [open |-> TRUE, idx |-> n \div m.chunk, plain |-> Resized(b, n % m.chunk), size |-> n, journaled |-> n % m.chunk]
EmptyTailOf(m, n) ==
    [open |-> TRUE, idx |-> n \div m.chunk, plain |-> <<>>, size |-> n, journaled |-> 0]

LEMMA LoadedTailIs ==
    ASSUME NEW m \in Modes, NEW f \in Seq(Bytes(m)), NEW n \in Nat, n = Len(f), n <= m.size, NEW b,
           HoldsTo(m, b, f, n, n \div m.chunk), m.buffer
    PROVE  TailInv(m, LoadedTailOf(m, b, n), f, n) /\ Len(LoadedTailOf(m, b, n).plain) < m.chunk
<1>. DEFINE q == n \div m.chunk
            r == n % m.chunk
            p == Resized(b, n % m.chunk)
            t == LoadedTailOf(m, b, n)
<1>1. m.chunk \in Nat /\ q \in Nat /\ r \in 0 .. m.chunk - 1 /\ m.size \in Nat /\ q * m.chunk + r = n /\ q * m.chunk <= n
  BY ModeIs, DivIs, LastChunk
<1>2. p \in Seq(Bytes(m)) /\ Len(p) = r /\ \A k \in 1 .. Len(p) : f[q * m.chunk + k] = p[k]
  <2>1. TailIs(m, p, f, q * m.chunk, r)
    BY LoadIs
  <2>. QED
    BY <2>1 DEF TailIs
<1>3. t = [open |-> TRUE, idx |-> q, plain |-> p, size |-> n, journaled |-> r]
  BY DEF LoadedTailOf
<1>. HIDE DEF t, p, r, q
<1>4. t.open = TRUE /\ t.idx = q /\ t.plain = p /\ t.size = n /\ t.journaled = r
      /\ t = [open |-> t.open, idx |-> t.idx, plain |-> t.plain, size |-> t.size, journaled |-> t.journaled]
  BY <1>3
<1>5. TailOK(m, t)
  <2>1. t.size \in 0 .. m.size /\ t.journaled \in 0 .. Len(t.plain) /\ Len(t.plain) <= m.chunk
    BY <1>1, <1>2, <1>4
  <2>2. t.plain \in Seq(Bytes(m)) /\ t.idx \in Nat /\ t.open \in BOOLEAN /\ (~t.open => t = NoTail)
    BY <1>1, <1>2, <1>4
  <2>. QED
    BY <1>4, <2>1, <2>2 DEF TailOK
<1>6. t.size = Len(f) /\ t.size = t.idx * m.chunk + Len(t.plain) /\ t.idx * m.chunk <= n
  BY <1>1, <1>2, <1>4
<1>7. \A k \in 1 .. Len(t.plain) : f[t.idx * m.chunk + k] = t.plain[k]
  BY <1>2, <1>4
<1>8. TailInv(m, t, f, n)
  BY <1>4, <1>5, <1>6, <1>7 DEF TailInv
<1>9. Len(t.plain) < m.chunk
  BY <1>1, <1>2, <1>4
<1>. QED
  BY <1>8, <1>9 DEF t

LEMMA EmptyTailIs ==
    ASSUME NEW m \in Modes, NEW f \in Seq(Bytes(m)), NEW n \in Nat, n = Len(f), n <= m.size, n % m.chunk = 0, m.buffer
    PROVE  TailInv(m, EmptyTailOf(m, n), f, n) /\ Len(EmptyTailOf(m, n).plain) < m.chunk
<1>. DEFINE q == n \div m.chunk
            t == EmptyTailOf(m, n)
<1>1. m.chunk \in Nat /\ m.chunk > 0 /\ q \in Nat /\ m.size \in Nat /\ q * m.chunk + 0 = n /\ q * m.chunk <= n
  BY ModeIs, DivIs, LastChunk
<1>3. t = [open |-> TRUE, idx |-> q, plain |-> <<>>, size |-> n, journaled |-> 0]
  BY DEF EmptyTailOf
<1>. HIDE DEF t, q
<1>4. t.open = TRUE /\ t.idx = q /\ t.plain = <<>> /\ t.size = n /\ t.journaled = 0
      /\ t = [open |-> t.open, idx |-> t.idx, plain |-> t.plain, size |-> t.size, journaled |-> t.journaled]
  BY <1>3
<1>5. TailOK(m, t)
  <2>1. t.size \in 0 .. m.size /\ t.journaled \in 0 .. Len(t.plain) /\ Len(t.plain) <= m.chunk
    BY <1>1, <1>4
  <2>0. <<>> \in Seq(Bytes(m))
    OBVIOUS
  <2>3. t.idx \in Nat /\ t.open \in BOOLEAN /\ (~t.open => t = NoTail)
    BY <1>1, <1>4
  <2>2. t.plain \in Seq(Bytes(m)) /\ t.idx \in Nat /\ t.open \in BOOLEAN /\ (~t.open => t = NoTail)
    BY <1>4, <2>0, <2>3
  <2>. QED
    BY <1>4, <2>1, <2>2 DEF TailOK
<1>6. t.size = Len(f) /\ t.size = t.idx * m.chunk + Len(t.plain) /\ t.idx * m.chunk <= n
  BY <1>1, <1>4
<1>8. TailInv(m, t, f, n)
  BY <1>4, <1>5, <1>6 DEF TailInv
<1>9. Len(t.plain) < m.chunk
  BY <1>1, <1>4
<1>. QED
  BY <1>8, <1>9 DEF t

\* Where the tail is over the chunks of the file.
LEMMA TailChunks ==
    ASSUME NEW m \in Modes, NEW f \in Seq(Bytes(m)), NEW n \in 0 .. Len(f), NEW t, TailInv(m, t, f, n), t.open
    PROVE  /\ ChunkLen(m, Len(f), t.idx) = Len(t.plain)
           /\ \A i \in Nat : i < t.idx => ChunkLen(m, n, i) = m.chunk /\ ChunkLen(m, Len(f), i) = m.chunk
           /\ \A i \in Nat : i > t.idx => ChunkLen(m, n, i) = 0 /\ ChunkLen(m, Len(f), i) = 0
           /\ t.idx \in Nat /\ t.idx <= m.size
<1>. DEFINE c == m.chunk
            x == t.idx * m.chunk
            l == Len(t.plain)
            N == Len(f)
<1>1. c \in Nat /\ c > 0 /\ t.idx \in Nat /\ x \in Nat /\ l \in 0 .. c /\ N \in Nat /\ n \in Nat /\ n <= N
  BY ModeIs, Starts DEF TailInv, TailOK
<1>2. N = x + l /\ x <= n /\ N <= m.size /\ m.size \in Nat
  BY ModeIs DEF TailInv, TailOK
<1>3. ChunkLen(m, N, t.idx) = IF N <= x THEN 0 ELSE IF N - x < c THEN N - x ELSE c
  BY DEF ChunkLen
<1>4. ChunkLen(m, N, t.idx) = l
  <2>. HIDE DEF c, x, l, N
  <2>. QED
    BY <1>1, <1>2, <1>3
<1>5. ASSUME NEW i \in Nat, i < t.idx
      PROVE  i * m.chunk + m.chunk <= n /\ i * m.chunk + m.chunk <= N
  <2>. DEFINE y == i * m.chunk
  <2>1. y \in Nat /\ y + c <= x
    BY <1>1, <1>5, Starts
  <2>. HIDE DEF c, x, l, N, y
  <2>2. y + c <= n /\ y + c <= N
    BY <1>1, <1>2, <2>1
  <2>. QED
    BY <2>2 DEF y, c
<1>6. ASSUME NEW i \in Nat, i > t.idx PROVE n <= i * m.chunk /\ N <= i * m.chunk
  <2>. DEFINE y == i * m.chunk
  <2>1. y \in Nat /\ x + c <= y
    BY <1>1, <1>6, Starts
  <2>. HIDE DEF c, x, l, N, y
  <2>2. n <= y /\ N <= y
    BY <1>1, <1>2, <2>1
  <2>. QED
    BY <2>2 DEF y
<1>7. t.idx <= m.size
  <2>1. t.idx <= x
    <3>. DEFINE q == t.idx
    <3>1. q \in Nat /\ c \in Nat /\ c >= 1
      BY <1>1
    <3>. HIDE DEF q, c
    <3>2. q <= q * c
      BY <3>1
    <3>. QED
      BY <3>2 DEF q, c
  <2>. HIDE DEF c, x, l, N
  <2>. QED
    BY <1>1, <1>2, <2>1
<1>. HIDE DEF c, x, l, N
<1>8. N \in Nat /\ n \in Nat
  BY <1>1
<1>9. ASSUME NEW i \in Nat, i < t.idx PROVE ChunkLen(m, n, i) = m.chunk /\ ChunkLen(m, N, i) = m.chunk
  BY <1>5, <1>8, <1>9, ChunkIs
<1>10. ASSUME NEW i \in Nat, i > t.idx PROVE ChunkLen(m, n, i) = 0 /\ ChunkLen(m, N, i) = 0
  BY <1>6, <1>8, <1>10, ChunkIs
<1>. QED
  BY <1>1, <1>4, <1>7, <1>9, <1>10 DEF N, l

LEMMA HoldsMore ==
    ASSUME NEW m, NEW b, NEW f, NEW n, NEW k, NEW i, HoldsTo(m, b, f, n, i), ChunkLen(m, n, i) = ChunkLen(m, k, i)
    PROVE  HoldsTo(m, b, f, k, i)
  BY DEF HoldsTo

\* The tail over the store shows the whole file.
LEMMA OverIs ==
    ASSUME NEW m \in Modes, NEW f \in Seq(Bytes(m)), NEW n \in 0 .. Len(f), NEW s, NEW v, NEW t, Shows(m, s, v, f, n),
           TailInv(m, t, f, n)
    PROVE  \A i \in Nat :
             HoldsTo(m, IF t.open /\ i = t.idx THEN t.plain ELSE Under(s, v, i), f, Len(f), i)
<1>1. ASSUME NEW i \in Nat, t.open, i = t.idx PROVE HoldsTo(m, t.plain, f, Len(f), i)
  <2>1. ChunkLen(m, Len(f), i) = Len(t.plain)
    BY <1>1, TailChunks
  <2>2. t.plain \in Seq(Bytes(m)) /\ \A k \in 1 .. Len(t.plain) : f[i * m.chunk + k] = t.plain[k]
    BY <1>1 DEF TailInv, TailOK
  <2>3. Len(t.plain) = 0 => 1 .. Len(t.plain) = {}
    OBVIOUS
  <2>4. \A k \in 1 .. Len(t.plain) : f[i * m.chunk + k] = IF Len(t.plain) = 0 THEN 0 ELSE t.plain[k]
    BY <2>2, <2>3
  <2>. QED
    BY <2>1, <2>2, <2>4 DEF HoldsTo
<1>2. ASSUME NEW i \in Nat, ~t.open \/ i # t.idx PROVE HoldsTo(m, Under(s, v, i), f, Len(f), i)
  <2>1. HoldsTo(m, Under(s, v, i), f, n, i)
    BY DEF Shows
  <2>2. ChunkLen(m, n, i) = ChunkLen(m, Len(f), i)
    <3>1. CASE ~t.open
      BY <3>1 DEF TailInv
    <3>2. CASE t.open
      <4>1. t.idx \in Nat /\ (i < t.idx \/ i > t.idx)
        <5>1. t.idx \in Nat
          BY <3>2, TailChunks
        <5>. QED
          BY <1>2, <3>2, <5>1
      <4>. QED
        BY <3>2, <4>1, TailChunks
    <3>. QED
      BY <3>1, <3>2
  <2>. QED
    BY <2>1, <2>2, HoldsMore
<1>. QED
  BY <1>1, <1>2

TailBlock(t) == [i \in {t.idx} |-> t.plain]

\* A tail sealed into the session.
LEMMA SealIs ==
    ASSUME NEW m \in Modes, NEW f \in Seq(Bytes(m)), NEW n \in 0 .. Len(f), NEW s, NEW v, NEW t, Shows(m, s, v, f, n),
           SessionOK(m, s), TailInv(m, t, f, n), t.open, t.plain # <<>>
    PROVE  PutOK(m, s, TailBlock(t), t.size) /\ Shows(m, PutBlocks(s, TailBlock(t), t.size), v, f, Len(f))
<1>. DEFINE d == TailBlock(t)
<1>1. DOMAIN d = {t.idx} /\ d[t.idx] = t.plain
  BY DEF TailBlock
<1>. HIDE DEF d
<1>2. t.idx \in Nat /\ t.idx <= m.size /\ m.size \in Nat /\ t.size \in 0 .. m.size /\ t.size = Len(f)
      /\ t.plain \in Seq(Bytes(m)) /\ Len(t.plain) > 0
  <2>1. t.plain \in Seq(Bytes(m)) /\ t.size \in 0 .. m.size /\ t.size = Len(f)
    BY DEF TailInv, TailOK
  <2>2. Len(t.plain) > 0
    BY <2>1
  <2>. QED
    BY <2>1, <2>2, TailChunks, ModeIs
<1>3. PutOK(m, s, d, t.size)
  BY <1>1, <1>2 DEF PutOK
<1>4. \A i \in DOMAIN d : HoldsTo(m, d[i], f, t.size, i)
  <2>1. HoldsTo(m, t.plain, f, Len(f), t.idx)
    BY <1>2, OverIs
  <2>. QED
    BY <1>1, <1>2, <2>1
<1>5. ASSUME NEW i \in Nat \ DOMAIN d PROVE HoldsTo(m, Under(s, v, i), f, t.size, i)
  <2>1. i # t.idx /\ i \in Nat
    BY <1>1
  <2>2. HoldsTo(m, IF t.open /\ i = t.idx THEN t.plain ELSE Under(s, v, i), f, Len(f), i)
    BY <2>1, OverIs
  <2>. QED
    BY <1>2, <2>1, <2>2
<1>6. Shows(m, PutBlocks(s, d, t.size), v, f, t.size)
  BY <1>3, <1>4, <1>5, PutShows
<1>. QED
  BY <1>2, <1>3, <1>6 DEF d

\* The version after a seal into the archive, and after a journal entry: the
\* tail t is in front of full blocks.
LEMMA PublishIs ==
    ASSUME NEW m \in Modes, Logging(m), NEW f \in Seq(Bytes(m)), Len(f) <= m.size, NEW v, VersionOK(m, v), NEW s, ~s.open,
           Shows(m, s, v, f, v.size), v.size <= Len(f), NEW t, TailInv(m, t, f, v.size), t.open, t.idx = Len(v.blocks),
           NEW w, w.size = t.size,
           \/ w.blocks = Append(v.blocks, t.plain) /\ w.tail = <<>> /\ Len(t.plain) = m.chunk
           \/ w.blocks = v.blocks /\ w.tail = t.plain /\ Len(t.plain) < m.chunk,
           w = [blocks |-> w.blocks, tail |-> w.tail, size |-> w.size]
    PROVE  VersionOK(m, w) /\ Is(m, w, f)
<1>1. /\ v.blocks \in Seq(Seq(Bytes(m))) /\ v.tail \in Seq(Bytes(m)) /\ v.size \in 0 .. m.size /\ v.size \in 0 .. Len(f)
      /\ \A j \in 1 .. Len(v.blocks) : Len(v.blocks[j]) = m.chunk
      /\ m.size \in Nat /\ m.chunk \in Nat /\ m.chunk > 0
  BY ModeIs DEF VersionOK, Versions
<1>2. /\ t.plain \in Seq(Bytes(m)) /\ t.idx \in Nat /\ t.size = Len(f) /\ t.size = t.idx * m.chunk + Len(t.plain)
      /\ t.size \in 0 .. m.size
  BY DEF TailInv, TailOK
<1>3. w.blocks \in Seq(Seq(Bytes(m))) /\ w.tail \in Seq(Bytes(m))
  <2>. DEFINE B == Seq(Bytes(m))
  <2>1. <<>> \in B
    OBVIOUS
  <2>2. t.plain \in B /\ v.blocks \in Seq(B)
    BY <1>1, <1>2
  <2>. HIDE DEF B
  <2>3. Append(v.blocks, t.plain) \in Seq(B)
    BY <2>2
  <2>4. w.blocks \in Seq(B) /\ w.tail \in B
    BY <2>1, <2>2, <2>3
  <2>. QED
    BY <2>4 DEF B
<1>4. \A j \in 1 .. Len(w.blocks) : Len(w.blocks[j]) = m.chunk
  <2>1. CASE w.blocks = v.blocks
    BY <1>1, <2>1
  <2>2. CASE w.blocks = Append(v.blocks, t.plain) /\ Len(t.plain) = m.chunk
    <3>. DEFINE B == Seq(Bytes(m))
    <3>1. v.blocks \in Seq(B) /\ t.plain \in B
      BY <1>1, <1>2
    <3>. HIDE DEF B
    <3>2. ASSUME NEW j \in 1 .. Len(w.blocks) PROVE Len(w.blocks[j]) = m.chunk
      <4>1. Len(w.blocks) = Len(v.blocks) + 1 /\ Len(v.blocks) \in Nat
        BY <2>2, <3>1
      <4>2. w.blocks[j] = IF j <= Len(v.blocks) THEN v.blocks[j] ELSE t.plain
        BY <2>2, <3>1, <4>1
      <4>3. j <= Len(v.blocks) => j \in 1 .. Len(v.blocks)
        BY <4>1
      <4>. QED
        BY <1>1, <2>2, <4>2, <4>3
    <3>. QED
      BY <3>2
  <2>. QED
    BY <2>1, <2>2
<1>5. Len(w.tail) < m.chunk /\ w.size = Len(w.blocks) * m.chunk + Len(w.tail)
  <2>1. CASE w.blocks = v.blocks /\ w.tail = t.plain /\ Len(t.plain) < m.chunk
    BY <1>2, <2>1
  <2>2. CASE w.blocks = Append(v.blocks, t.plain) /\ w.tail = <<>> /\ Len(t.plain) = m.chunk
    <3>1. Len(w.blocks) = t.idx + 1
      BY <1>1, <2>2
    <3>2. (t.idx + 1) * m.chunk = t.idx * m.chunk + m.chunk /\ (t.idx + 1) * m.chunk \in Nat
      <4>1. t.idx \in Nat /\ t.idx + 1 \in Nat
        BY <1>2
      <4>2. (t.idx + 1) * m.chunk = t.idx * m.chunk + m.chunk
        BY <4>1, Starts
      <4>3. (t.idx + 1) * m.chunk \in Nat
        BY <4>1, Starts
      <4>. QED
        BY <4>2, <4>3
    <3>3. Len(w.tail) = 0 /\ w.size = (t.idx + 1) * m.chunk
      BY <1>2, <2>2, <3>2
    <3>4. w.size = Len(w.blocks) * m.chunk /\ w.size \in Nat
      BY <3>1, <3>2, <3>3
    <3>. DEFINE y == Len(w.blocks) * m.chunk
    <3>5. w.size = y /\ y \in Nat
      BY <3>4
    <3>. HIDE DEF y
    <3>6. w.size = y + Len(w.tail)
      BY <3>3, <3>5
    <3>. QED
      BY <1>1, <3>3, <3>6 DEF y
  <2>. QED
    BY <2>1, <2>2
<1>6. ASSUME NEW i \in Nat
      PROVE  ArchiveBlock(w, i) = IF i = t.idx THEN t.plain ELSE IF i < t.idx THEN v.blocks[i + 1] ELSE <<>>
  <2>0. Len(v.blocks) = t.idx /\ t.idx \in Nat /\ (i < t.idx => i + 1 \in 1 .. t.idx)
    BY <1>2
  <2>1. CASE w.blocks = v.blocks /\ w.tail = t.plain
    BY <2>0, <2>1 DEF ArchiveBlock
  <2>2. CASE w.blocks = Append(v.blocks, t.plain) /\ w.tail = <<>>
    <3>. DEFINE B == Seq(Bytes(m))
    <3>1. v.blocks \in Seq(B) /\ t.plain \in B
      BY <1>1, <1>2
    <3>. HIDE DEF B
    <3>2. Len(w.blocks) = t.idx + 1 /\ w.blocks[t.idx + 1] = t.plain /\ (i < t.idx => w.blocks[i + 1] = v.blocks[i + 1])
      BY <2>0, <2>2, <3>1
    <3>3. (i < t.idx + 1) <=> (i = t.idx \/ i < t.idx)
      BY <2>0
    <3>. QED
      BY <2>0, <2>2, <3>2, <3>3 DEF ArchiveBlock
  <2>. QED
    BY <2>1, <2>2
<1>7. ASSUME NEW i \in Nat PROVE HoldsTo(m, ArchiveBlock(w, i), f, Len(f), i)
  <2>0. HoldsTo(m, IF t.open /\ i = t.idx THEN t.plain ELSE Under(s, v, i), f, Len(f), i)
    BY <1>1, OverIs
  <2>1. CASE i = t.idx
    BY <1>6, <2>0, <2>1
  <2>2. CASE i < t.idx
    <3>1. Under(s, v, i) = v.blocks[i + 1]
      BY <2>2 DEF Under, ArchiveBlock
    <3>. QED
      BY <1>2, <1>6, <2>0, <2>2, <3>1
  <2>3. CASE i > t.idx
    <3>1. ChunkLen(m, Len(f), i) = 0
      BY <1>1, <2>3, TailChunks
    <3>2. ArchiveBlock(w, i) = <<>>
      BY <1>2, <1>6, <2>3
    <3>. QED
      BY <3>1, <3>2, Missing
  <2>. QED
    BY <1>2, <2>1, <2>2, <2>3
<1>8. Is(m, w, f)
  BY <1>2, <1>7 DEF Is, Served, Holds, HoldsTo
<1>9. w \in Versions(m)
  BY <1>2, <1>3 DEF Versions
<1>. QED
  BY <1>4, <1>5, <1>8, <1>9 DEF VersionOK

-----------------------------------------------------------------------------
(* Read-modify-write                                                        *)

LEMMA HoldsElse ==
    ASSUME NEW m, NEW b, NEW f, NEW g, NEW n, NEW k, NEW i, HoldsTo(m, b, f, n, i), ChunkLen(m, n, i) = ChunkLen(m, k, i),
           \A p \in 1 .. ChunkLen(m, n, i) : g[i * m.chunk + p] = f[i * m.chunk + p]
    PROVE  HoldsTo(m, b, g, k, i)
  BY DEF HoldsTo

EndOf(off, data) == off + Len(data)

NewSize(n, off, data) == IF n > EndOf(off, data) THEN n ELSE EndOf(off, data)

NewFile(f, off, data) ==
    [k \in 1 .. NewSize(Len(f), off, data) |->
       IF k > off /\ k <= EndOf(off, data) THEN data[k - off] ELSE IF k <= Len(f) THEN f[k] ELSE 0]

NewBlock(m, old, size, off, data, i) ==
    [k \in 1 .. Min2((i + 1) * m.chunk, size) - i * m.chunk |->
       IF i * m.chunk + k > off /\ i * m.chunk + k <= EndOf(off, data) THEN data[i * m.chunk + k - off]
       ELSE IF k <= Len(old) THEN old[k] ELSE 0]

WriteOK(m, f, off, data) ==
    /\ f \in Seq(Bytes(m)) /\ off \in Nat /\ data \in Seq(Bytes(m)) /\ data # <<>>

LEMMA NewFileIs ==
    ASSUME NEW m \in Modes, NEW f, NEW off, NEW data, WriteOK(m, f, off, data)
    PROVE  /\ NewFile(f, off, data) \in Seq(Bytes(m)) /\ Len(NewFile(f, off, data)) = NewSize(Len(f), off, data)
           /\ NewSize(Len(f), off, data) \in Nat /\ NewSize(Len(f), off, data) >= Len(f)
           /\ EndOf(off, data) \in Nat /\ EndOf(off, data) <= NewSize(Len(f), off, data) /\ EndOf(off, data) > off
<1>1. f \in Seq(Bytes(m)) /\ off \in Nat /\ data \in Seq(Bytes(m)) /\ data # <<>>
  BY DEF WriteOK
<1>2. Len(f) \in Nat /\ Len(data) \in Nat /\ Len(data) > 0
  BY <1>1
<1>3. EndOf(off, data) \in Nat /\ EndOf(off, data) > off
  BY <1>1, <1>2 DEF EndOf
<1>. DEFINE N == NewSize(Len(f), off, data)
<1>4. N \in Nat /\ N >= Len(f) /\ EndOf(off, data) <= N
  BY <1>2, <1>3 DEF NewSize
<1>. HIDE DEF N
<1>5. ASSUME NEW k \in 1 .. N
      PROVE  (IF k > off /\ k <= EndOf(off, data) THEN data[k - off] ELSE IF k <= Len(f) THEN f[k] ELSE 0) \in Bytes(m)
  <2>1. CASE k > off /\ k <= EndOf(off, data)
    <3>1. k - off \in 1 .. Len(data)
      BY <1>1, <1>2, <1>4, <2>1 DEF EndOf
    <3>2. data[k - off] \in Bytes(m)
      BY <1>1, <3>1
    <3>. QED
      BY <2>1, <3>2
  <2>2. CASE ~(k > off /\ k <= EndOf(off, data)) /\ k <= Len(f)
    <3>1. k \in 1 .. Len(f)
      BY <1>2, <1>4, <2>2
    <3>2. f[k] \in Bytes(m)
      BY <1>1, <3>1
    <3>. QED
      BY <2>2, <3>2
  <2>3. CASE ~(k > off /\ k <= EndOf(off, data)) /\ ~(k <= Len(f))
    BY <2>3 DEF Bytes
  <2>. QED
    BY <2>1, <2>2, <2>3
<1>6. NewFile(f, off, data) = [k \in 1 .. N |->
         IF k > off /\ k <= EndOf(off, data) THEN data[k - off] ELSE IF k <= Len(f) THEN f[k] ELSE 0]
  BY DEF NewFile, N
<1>7. NewFile(f, off, data) \in Seq(Bytes(m)) /\ Len(NewFile(f, off, data)) = N
  BY <1>4, <1>5, <1>6
<1>. QED
  BY <1>3, <1>4, <1>7 DEF N

LEMMA NewBlockIs ==
    ASSUME NEW m \in Modes, NEW f, NEW off, NEW data, WriteOK(m, f, off, data), NEW i \in Nat, NEW b,
           HoldsTo(m, b, f, Len(f), i), i * m.chunk < NewSize(Len(f), off, data)
    PROVE  /\ HoldsTo(m, NewBlock(m, b, NewSize(Len(f), off, data), off, data, i), NewFile(f, off, data),
                      NewSize(Len(f), off, data), i)
           /\ Len(NewBlock(m, b, NewSize(Len(f), off, data), off, data, i)) > 0
<1>. DEFINE n == Len(f)
            N == NewSize(Len(f), off, data)
            g == NewFile(f, off, data)
            B == NewBlock(m, b, NewSize(Len(f), off, data), off, data, i)
            x == i * m.chunk
            l == ChunkLen(m, N, i)
            end == EndOf(off, data)
            c == m.chunk
<1>1. /\ n \in Nat /\ c \in Nat /\ c > 0 /\ x \in Nat /\ N \in Nat /\ x < N /\ end \in Nat /\ off \in Nat
      /\ (i + 1) * m.chunk = x + c /\ n <= N /\ end <= N
      /\ data \in Seq(Bytes(m)) /\ f \in Seq(Bytes(m)) /\ end = off + Len(data) /\ Len(data) \in Nat
  <2>1. data \in Seq(Bytes(m)) /\ f \in Seq(Bytes(m)) /\ off \in Nat
    BY DEF WriteOK
  <2>2. n \in Nat /\ Len(data) \in Nat /\ end = off + Len(data)
    BY <2>1 DEF EndOf
  <2>3. c \in Nat /\ c > 0 /\ x \in Nat /\ (i + 1) * m.chunk = x + c
    BY ModeIs, Starts
  <2>4. N \in Nat /\ x < N /\ end \in Nat /\ n <= N /\ end <= N
    BY NewFileIs
  <2>. QED
    BY <2>1, <2>2, <2>3, <2>4
<1>2. l \in 1 .. c /\ x + l <= N /\ Min2((i + 1) * m.chunk, N) - i * m.chunk = l
  <2>1. l = IF N <= x THEN 0 ELSE IF N - x < c THEN N - x ELSE c
    BY DEF ChunkLen
  <2>2. Min2((i + 1) * m.chunk, N) = IF x + c < N THEN x + c ELSE N
    BY <1>1 DEF Min2
  <2>3. i * m.chunk = x
    OBVIOUS
  <2>. DEFINE y == Min2((i + 1) * m.chunk, N)
  <2>. HIDE DEF x, c, N, l, y
  <2>4. l \in 1 .. c /\ x + l <= N /\ y - x = l
    BY <1>1, <2>1, <2>2 DEF y
  <2>. QED
    BY <2>3, <2>4 DEF y
<1>3. /\ b \in Seq(Bytes(m)) /\ Len(b) \in {0, ChunkLen(m, n, i)} /\ ChunkLen(m, n, i) \in 0 .. c
      /\ \A k \in 1 .. ChunkLen(m, n, i) : f[x + k] = IF Len(b) = 0 THEN 0 ELSE b[k]
      /\ ChunkLen(m, n, i) = IF n <= x THEN 0 ELSE IF n - x < c THEN n - x ELSE c
  BY <1>1, ChunkIs DEF HoldsTo, ChunkLen
<1>4. B = [k \in 1 .. l |-> IF x + k > off /\ x + k <= end THEN data[x + k - off]
                            ELSE IF k <= Len(b) THEN b[k] ELSE 0]
  BY <1>2 DEF NewBlock
<1>5. \A k \in 1 .. N : g[k] = IF k > off /\ k <= end THEN data[k - off] ELSE IF k <= n THEN f[k] ELSE 0
  BY DEF NewFile
<1>6. g \in Seq(Bytes(m)) /\ Len(g) = N
  BY NewFileIs
<1>. DEFINE L == ChunkLen(m, n, i)
<1>7. L \in Nat /\ Len(b) \in Nat /\ Len(b) \in {0, L}
      /\ L = (IF n <= x THEN 0 ELSE IF n - x < c THEN n - x ELSE c)
      /\ \A k \in 1 .. L : f[x + k] = IF Len(b) = 0 THEN 0 ELSE b[k]
  BY <1>1, <1>3
<1>. HIDE DEF n, N, g, B, x, l, end, c, L
<1>8. ASSUME NEW k \in 1 .. l PROVE x + k \in 1 .. N /\ B[k] = g[x + k]
  <2>. DEFINE q == x + k
  <2>1. k \in Nat /\ k >= 1 /\ k <= c /\ q \in 1 .. N /\ q \in Nat /\ q = x + k
    BY <1>1, <1>2
  <2>2. B[k] = IF q > off /\ q <= end THEN data[q - off] ELSE IF k <= Len(b) THEN b[k] ELSE 0
    <3>1. B[k] = IF x + k > off /\ x + k <= end THEN data[x + k - off] ELSE IF k <= Len(b) THEN b[k] ELSE 0
      BY <1>4
    <3>2. q = x + k
      OBVIOUS
    <3>3. x \in Nat /\ k \in Nat /\ off \in Nat /\ end \in Nat
      BY <1>1, <2>1
    <3>. HIDE DEF q
    <3>. QED
      BY <3>1, <3>2, <3>3
  <2>3. k <= L => f[q] = IF Len(b) = 0 THEN 0 ELSE b[k]
    <3>1. k <= L => k \in 1 .. L
      BY <1>7, <2>1
    <3>. QED
      BY <1>7, <3>1
  <2>. SUFFICES q \in 1 .. N /\ B[k] = g[q]
    OBVIOUS
  <2>. HIDE DEF q
  <2>4. g[q] = IF q > off /\ q <= end THEN data[q - off] ELSE IF q <= n THEN f[q] ELSE 0
    BY <1>5, <2>1
  <2>5. CASE q > off /\ q <= end
    BY <2>1, <2>2, <2>4, <2>5
  <2>6. CASE ~(q > off /\ q <= end) /\ q <= n
    <3>1. k <= L
      BY <1>1, <1>7, <2>1, <2>6
    <3>2. f[q] = IF k <= Len(b) THEN b[k] ELSE 0
      <4>1. Len(b) = 0 => ~(k <= Len(b))
        BY <2>1
      <4>2. Len(b) = L => k <= Len(b) /\ Len(b) # 0
        BY <1>7, <2>1, <3>1
      <4>. QED
        BY <1>7, <2>3, <3>1, <4>1, <4>2
    <3>. QED
      BY <2>1, <2>2, <2>4, <2>6, <3>2
  <2>7. CASE ~(q > off /\ q <= end) /\ ~(q <= n)
    <3>1. ~(k <= L)
      BY <1>1, <1>7, <2>1, <2>7
    <3>2. ~(k <= Len(b))
      BY <1>7, <2>1, <3>1
    <3>. QED
      BY <2>1, <2>2, <2>4, <2>7, <3>2
  <2>. QED
    BY <2>5, <2>6, <2>7
<1>9. \A k \in 1 .. l : B[k] \in Bytes(m)
  BY <1>6, <1>8
<1>10. B \in Seq(Bytes(m)) /\ Len(B) = l
  BY <1>2, <1>4, <1>9
<1>11. Len(B) > 0 /\ l = ChunkLen(m, N, i)
  BY <1>2, <1>10 DEF l
<1>12. HoldsTo(m, B, g, N, i)
  <2>1. \A k \in 1 .. l : g[x + k] = IF Len(B) = 0 THEN 0 ELSE B[k]
    BY <1>8, <1>11
  <2>. QED
    BY <1>10, <1>11, <2>1 DEF HoldsTo, x
<1>. QED
  BY <1>11, <1>12 DEF n, N, g, B

LEMMA CeilIs ==
    ASSUME NEW m \in Modes, NEW n \in Nat
    PROVE  CeilDiv(n, m.chunk) \in Nat /\ \A i \in Nat : i < CeilDiv(n, m.chunk) => i * m.chunk < n
<1>. DEFINE c == m.chunk
            e == (n + c - 1) \div c
            y == e * c
<1>1. c \in Nat /\ c > 0
  BY ModeIs
<1>2. n + c - 1 \in Nat
  <2>. HIDE DEF c
  <2>. QED
    BY <1>1
<1>3. e \in Nat /\ y <= n + c - 1 /\ y \in Nat
  BY <1>2, DivIs, LastChunk
<1>4. ASSUME NEW i \in Nat, i < e PROVE i * c < n
  <2>. DEFINE x == i * c
  <2>1. x + c <= y /\ x \in Nat
    BY <1>3, <1>4, Starts
  <2>. HIDE DEF x, y, c, e
  <2>2. x < n
    BY <1>1, <1>3, <2>1
  <2>. QED
    BY <2>2 DEF x
<1>5. CeilDiv(n, c) = e
  BY DEF CeilDiv
<1>. QED
  BY <1>3, <1>4, <1>5

\* The blocks a write leaves alone keep holding their chunk, if it does not
\* skip a short one.
FirstOf(m, n, off) == Min2(off \div m.chunk, CeilDiv(n, m.chunk))
LastOf(m, off, data) == (EndOf(off, data) - 1) \div m.chunk

LEMMA RangeIs ==
    ASSUME NEW m \in Modes, NEW f, NEW off, NEW data, WriteOK(m, f, off, data)
    PROVE  /\ FirstOf(m, Len(f), off) \in Nat /\ LastOf(m, off, data) \in Nat
           /\ LastOf(m, off, data) * m.chunk < EndOf(off, data)
           /\ EndOf(off, data) <= LastOf(m, off, data) * m.chunk + m.chunk
           /\ \A i \in Nat : i < FirstOf(m, Len(f), off) => i * m.chunk < Len(f) /\ i < off \div m.chunk
<1>1. Len(f) \in Nat /\ off \in Nat /\ EndOf(off, data) \in Nat /\ EndOf(off, data) > off
  <2>1. Len(f) \in Nat /\ off \in Nat
    BY DEF WriteOK
  <2>2. EndOf(off, data) \in Nat /\ EndOf(off, data) > off
    BY NewFileIs
  <2>. QED
    BY <2>1, <2>2
<1>2. EndOf(off, data) - 1 \in Nat
  BY <1>1
<1>3. off \div m.chunk \in Nat /\ LastOf(m, off, data) \in Nat
  BY <1>1, <1>2, DivIs DEF LastOf
<1>4. CeilDiv(Len(f), m.chunk) \in Nat /\ \A i \in Nat : i < CeilDiv(Len(f), m.chunk) => i * m.chunk < Len(f)
  BY <1>1, CeilIs
<1>5. FirstOf(m, Len(f), off) \in Nat
      /\ \A i \in Nat : i < FirstOf(m, Len(f), off) => i < CeilDiv(Len(f), m.chunk) /\ i < off \div m.chunk
  <2>. DEFINE p == off \div m.chunk
              q == CeilDiv(Len(f), m.chunk)
  <2>1. p \in Nat /\ q \in Nat
    BY <1>3, <1>4
  <2>2. FirstOf(m, Len(f), off) = IF p < q THEN p ELSE q
    BY DEF FirstOf, Min2
  <2>. HIDE DEF p, q
  <2>3. FirstOf(m, Len(f), off) \in Nat /\ \A i \in Nat : i < FirstOf(m, Len(f), off) => i < q /\ i < p
    BY <2>1, <2>2
  <2>. QED
    BY <2>3 DEF p, q
<1>6. /\ LastOf(m, off, data) * m.chunk < EndOf(off, data)
      /\ EndOf(off, data) <= LastOf(m, off, data) * m.chunk + m.chunk
  <2>. DEFINE e == EndOf(off, data) - 1
              x == LastOf(m, off, data) * m.chunk
              r == e % m.chunk
  <2>1. e \in Nat
    BY <1>2
  <2>2. r \in 0 .. m.chunk - 1 /\ m.chunk \in Nat
    BY <2>1, DivIs, ModeIs
  <2>3. x \in Nat /\ x + r = e
    BY <2>1, LastChunk DEF LastOf
  <2>4. EndOf(off, data) = e + 1
    BY <1>1
  <2>. DEFINE c == m.chunk
  <2>. HIDE DEF e, x, r, c
  <2>5. x < EndOf(off, data) /\ EndOf(off, data) <= x + c
    BY <2>1, <2>2, <2>3, <2>4 DEF c
  <2>. QED
    BY <2>5 DEF x, c
<1>. QED
  BY <1>3, <1>4, <1>5, <1>6

LEMMA KeptIs ==
    ASSUME NEW m \in Modes, NEW f, NEW off, NEW data, WriteOK(m, f, off, data), NEW i \in Nat, NEW b,
           HoldsTo(m, b, f, Len(f), i),
           Len(f) % m.chunk = 0 \/ off \div m.chunk <= Len(f) \div m.chunk,
           i < FirstOf(m, Len(f), off) \/ i > LastOf(m, off, data)
    PROVE  HoldsTo(m, b, NewFile(f, off, data), NewSize(Len(f), off, data), i)
<1>. DEFINE n == Len(f)
            N == NewSize(Len(f), off, data)
            g == NewFile(f, off, data)
            x == i * m.chunk
            end == EndOf(off, data)
            c == m.chunk
            l == ChunkLen(m, Len(f), i)
<1>1. /\ n \in Nat /\ c \in Nat /\ c > 0 /\ x \in Nat /\ N \in Nat /\ end \in Nat /\ off \in Nat
      /\ n <= N /\ end <= N /\ end > off /\ (N = n \/ N = end)
  <2>1. off \in Nat /\ n \in Nat
    BY DEF WriteOK
  <2>2. c \in Nat /\ c > 0 /\ x \in Nat
    BY ModeIs, Starts
  <2>3. N \in Nat /\ end \in Nat /\ n <= N /\ end <= N /\ end > off
    BY NewFileIs
  <2>4. N = n \/ N = end
    BY DEF NewSize
  <2>. QED
    BY <2>1, <2>2, <2>3, <2>4
<1>2. \A k \in 1 .. N : g[k] = IF k > off /\ k <= end THEN data[k - off] ELSE IF k <= n THEN f[k] ELSE 0
  BY DEF NewFile
<1>3. l \in 0 .. c /\ (l > 0 => x + l <= n) /\ (l < c => n <= x + l)
  BY <1>1, ChunkIs
<1>4. ASSUME i > LastOf(m, off, data) PROVE end <= x
  <2>. DEFINE y == LastOf(m, off, data) * m.chunk
  <2>1. end <= y + c /\ LastOf(m, off, data) \in Nat
    BY RangeIs
  <2>2. y + c <= x /\ y \in Nat
    BY <1>4, <2>1, Starts
  <2>. HIDE DEF y, x, end, c
  <2>. QED
    BY <1>1, <2>1, <2>2
<1>5. ASSUME i < FirstOf(m, Len(f), off) PROVE x < n /\ x + c <= off /\ x + c <= n
  <2>1. x < n /\ i < off \div m.chunk
    BY <1>5, RangeIs
  <2>2. x + c <= off
    BY <1>1, <2>1, LastChunk
  <2>3. x + c <= n
    <3>1. SUFFICES ASSUME ~(x + c <= n) PROVE FALSE
      OBVIOUS
    <3>2. n < x + c /\ x <= n
      <4>. HIDE DEF x, c, n
      <4>. QED
        BY <1>1, <2>1, <3>1
    <3>3. n \div m.chunk = i /\ n % m.chunk = n - i * m.chunk
      BY <1>1, <3>2, DivEq
    <3>4. n % m.chunk # 0
      <4>. DEFINE r == n % m.chunk
      <4>1. r = n - x
        BY <3>3
      <4>. HIDE DEF r, n, x
      <4>2. r # 0
        BY <1>1, <2>1, <4>1
      <4>. QED
        BY <4>2 DEF r
    <3>5. off \div m.chunk <= i
      BY <3>3, <3>4
    <3>6. off \div m.chunk \in Nat
      BY <1>1, DivIs
    <3>. QED
      BY <2>1, <3>5, <3>6
  <2>. QED
    BY <2>1, <2>2, <2>3
<1>6. ChunkLen(m, N, i) = l
  <2>1. CASE i < FirstOf(m, Len(f), off)
    <3>1. x + c <= n /\ x + c <= N
      <4>1. x + c <= n
        BY <1>5, <2>1
      <4>. HIDE DEF x, c, n, N
      <4>. QED
        BY <1>1, <4>1
    <3>2. ChunkLen(m, n, i) = m.chunk
      BY <1>1, <3>1, ChunkIs
    <3>3. ChunkLen(m, N, i) = m.chunk
      BY <1>1, <3>1, ChunkIs
    <3>. QED
      BY <3>2, <3>3
  <2>2. CASE i > LastOf(m, off, data) /\ N = end
    <3>1. N <= x /\ n <= x
      <4>1. end <= x
        BY <1>4, <2>2
      <4>2. N = end
        BY <2>2
      <4>. HIDE DEF x, c, n, N, end
      <4>. QED
        BY <1>1, <4>1, <4>2
    <3>2. ChunkLen(m, n, i) = 0
      BY <1>1, <3>1, ChunkIs
    <3>3. ChunkLen(m, N, i) = 0
      BY <1>1, <3>1, ChunkIs
    <3>. QED
      BY <3>2, <3>3
  <2>3. CASE N = n
    BY <2>3
  <2>. QED
    BY <1>1, <2>1, <2>2, <2>3
<1>. HIDE DEF n, N, g, x, end, c, l
<1>7. ASSUME NEW k \in 1 .. l PROVE g[x + k] = f[x + k]
  <2>. DEFINE q == x + k
  <2>1. q \in 1 .. n /\ q \in 1 .. N /\ q > x /\ q <= x + c
    BY <1>1, <1>3
  <2>2. ~(q > off /\ q <= end)
    <3>1. end <= x \/ x + c <= off
      BY <1>4, <1>5
    <3>. QED
      BY <1>1, <2>1, <3>1
  <2>. HIDE DEF q
  <2>3. g[q] = f[q]
    BY <1>1, <1>2, <2>1, <2>2
  <2>. QED
    BY <2>3 DEF q
<1>8. HoldsTo(m, b, f, n, i) /\ ChunkLen(m, n, i) = ChunkLen(m, N, i)
  BY <1>6 DEF n, l
<1>9. \A k \in 1 .. ChunkLen(m, n, i) : g[i * m.chunk + k] = f[i * m.chunk + k]
  BY <1>7 DEF n, x, l
<1>10. HoldsTo(m, b, g, N, i)
  BY <1>8, <1>9, HoldsElse
<1>. QED
  BY <1>10 DEF N, g

LEMMA RewrittenIs ==
    ASSUME mode \in Modes, FileInv(mode, file), StoreInv(mode, disk, seen, sess, file, StoreSize), StoreSize = Len(file),
           NEW off, NEW data, WriteOK(mode, file, off, data), EndOf(off, data) <= mode.size,
           Len(file) % mode.chunk = 0 \/ off \div mode.chunk <= Len(file) \div mode.chunk
    PROVE  /\ SessionOK(mode, Rewritten(off, data))
           /\ Rewritten(off, data).open /\ Rewritten(off, data).size = NewSize(Len(file), off, data)
           /\ \A v \in {seen, disk} :
                Shows(mode, Rewritten(off, data), v, NewFile(file, off, data), NewSize(Len(file), off, data))
<1>. DEFINE N == NewSize(Len(file), off, data)
            g == NewFile(file, off, data)
            first == FirstOf(mode, Len(file), off)
            last == LastOf(mode, off, data)
            d == [i \in first .. last |-> NewBlock(mode, StoreBlock(i), N, off, data, i)]
<1>1. SizeAfter(off, data) = N
  BY DEF SizeAfter, Max2, NewSize, EndOf
<1>2. Rewritten(off, data) = PutBlocks(sess, d, N)
  <2>1. Rewritten(off, data) =
          PutBlocks(sess, [i \in FirstOf(mode, StoreSize, off) .. last |-> RewrittenBlock(off, data, i)],
                    SizeAfter(off, data))
    <3>1. Rewritten(off, data) =
            PutBlocks(sess, [i \in Min2(off \div mode.chunk, CeilDiv(StoreSize, mode.chunk))
                                     .. (off + Len(data) - 1) \div mode.chunk |-> RewrittenBlock(off, data, i)],
                      SizeAfter(off, data))
      BY DEF Rewritten, C
    <3>2. Min2(off \div mode.chunk, CeilDiv(StoreSize, mode.chunk)) = FirstOf(mode, StoreSize, off)
      BY DEF FirstOf
    <3>3. (off + Len(data) - 1) \div mode.chunk = last
      <4>1. off + Len(data) = EndOf(off, data)
        BY DEF EndOf
      <4>2. off \in Nat /\ Len(data) \in Nat /\ mode.chunk \in Nat /\ mode.chunk > 0
        BY ModeIs DEF WriteOK
      <4>3. last = (EndOf(off, data) - 1) \div mode.chunk
        BY DEF LastOf
      <4>4. off + Len(data) - 1 = EndOf(off, data) - 1
        BY <4>1, <4>2
      <4>. HIDE DEF last
      <4>. QED
        BY <4>3, <4>4
    <3>. QED
      BY <3>1, <3>2, <3>3
  <2>2. SizeAfter(off, data) = N /\ StoreSize = Len(file)
    BY <1>1
  <2>3. \A i : RewrittenBlock(off, data, i) = NewBlock(mode, StoreBlock(i), SizeAfter(off, data), off, data, i)
    BY DEF RewrittenBlock, NewBlock, EndOf, C
  <2>. HIDE DEF N
  <2>4. \A i : RewrittenBlock(off, data, i) = NewBlock(mode, StoreBlock(i), N, off, data, i)
    BY <2>2, <2>3
  <2>5. [i \in first .. last |-> RewrittenBlock(off, data, i)] = d
    BY <2>4
  <2>. HIDE DEF d, last
  <2>6. FirstOf(mode, StoreSize, off) = first
    BY <2>2
  <2>. HIDE DEF first
  <2>. QED
    BY <2>1, <2>2, <2>5, <2>6
<1>3. DOMAIN d = first .. last /\ \A i \in first .. last : d[i] = NewBlock(mode, StoreBlock(i), N, off, data, i)
  OBVIOUS
<1>. HIDE DEF d
<1>4. SessionOK(mode, sess) /\ Shows(mode, sess, seen, file, Len(file)) /\ Shows(mode, sess, disk, file, Len(file))
  BY DEF StoreInv
<1>5. \A i \in Nat : HoldsTo(mode, StoreBlock(i), file, Len(file), i)
  BY <1>4 DEF Shows, StoreBlock, SessionBlock, Under
<1>6. /\ first \in Nat /\ last \in Nat /\ last * mode.chunk < EndOf(off, data) /\ N \in Nat /\ N <= mode.size
      /\ EndOf(off, data) <= N /\ EndOf(off, data) \in Nat /\ mode.size \in Nat
  <2>1. first \in Nat /\ last \in Nat /\ last * mode.chunk < EndOf(off, data)
    BY RangeIs
  <2>2. N \in Nat /\ EndOf(off, data) <= N /\ EndOf(off, data) \in Nat
    BY NewFileIs
  <2>3. N <= mode.size
    BY DEF NewSize, FileInv
  <2>. QED
    BY <2>1, <2>2, <2>3, ModeIs
<1>7. ASSUME NEW i \in first .. last PROVE i \in Nat /\ i * mode.chunk < N /\ i <= mode.size
  <2>. DEFINE x == i * mode.chunk
              y == last * mode.chunk
              c == mode.chunk
              end == EndOf(off, data)
  <2>1. i \in Nat /\ i <= last
    BY <1>6
  <2>2. x \in Nat /\ y \in Nat /\ (i < last => x + c <= y) /\ c \in Nat /\ c > 0 /\ y < end
    BY <1>6, <2>1, Starts, ModeIs
  <2>3. x <= y
    <3>1. i = last => x = y
      OBVIOUS
    <3>. HIDE DEF x, y, c
    <3>. QED
      BY <1>6, <2>1, <2>2, <3>1
  <2>4. i <= x
    <3>. HIDE DEF c
    <3>1. i <= i * c
      BY <2>1, <2>2
    <3>. QED
      BY <3>1 DEF c
  <2>5. end <= N /\ end \in Nat
    BY <1>6
  <2>. HIDE DEF x, y, c, end, N
  <2>6. x < N /\ i <= mode.size
    BY <1>6, <2>1, <2>2, <2>3, <2>4, <2>5
  <2>. QED
    BY <2>1, <2>6 DEF x
<1>8. \A i \in first .. last : HoldsTo(mode, d[i], g, N, i) /\ Len(d[i]) > 0
  <2>1. ASSUME NEW i \in first .. last PROVE HoldsTo(mode, d[i], g, N, i) /\ Len(d[i]) > 0
    <3>1. i \in Nat /\ i * mode.chunk < N /\ HoldsTo(mode, StoreBlock(i), file, Len(file), i)
      BY <1>5, <1>7
    <3>. DEFINE b == StoreBlock(i)
    <3>. HIDE DEF b
    <3>2. HoldsTo(mode, NewBlock(mode, b, N, off, data, i), g, N, i) /\ Len(NewBlock(mode, b, N, off, data, i)) > 0
      BY <3>1, NewBlockIs DEF b
    <3>. QED
      BY <1>3, <3>2 DEF b
  <2>. QED
    BY <2>1
<1>9. PutOK(mode, sess, d, N)
  <2>1. \A i \in first .. last : d[i] \in Seq(Bytes(mode))
    BY <1>8 DEF HoldsTo
  <2>2. DOMAIN d \subseteq 0 .. mode.size
    BY <1>3, <1>6, <1>7
  <2>. QED
    BY <1>3, <1>4, <1>6, <1>8, <2>1, <2>2 DEF PutOK
<1>10. ASSUME NEW v, Shows(mode, sess, v, file, Len(file)) PROVE Shows(mode, PutBlocks(sess, d, N), v, g, N)
  <2>1. ASSUME NEW i \in Nat \ DOMAIN d PROVE HoldsTo(mode, Under(sess, v, i), g, N, i)
    <3>1. HoldsTo(mode, Under(sess, v, i), file, Len(file), i)
      BY <1>10 DEF Shows
    <3>2. i < first \/ i > last
      BY <1>3, <1>6
    <3>. DEFINE b == Under(sess, v, i)
    <3>. HIDE DEF b
    <3>3. HoldsTo(mode, b, file, Len(file), i)
      BY <3>1 DEF b
    <3>4. HoldsTo(mode, b, g, N, i)
      BY <3>2, <3>3, KeptIs
    <3>. QED
      BY <3>4 DEF b
  <2>. QED
    BY <1>3, <1>8, <1>9, <2>1, PutShows
<1>. HIDE DEF N, g
<1>11. SessionOK(mode, PutBlocks(sess, d, N)) /\ PutBlocks(sess, d, N).open /\ PutBlocks(sess, d, N).size = N
  BY <1>9, PutIs
<1>12. \A v \in {seen, disk} : Shows(mode, PutBlocks(sess, d, N), v, g, N)
  BY <1>4, <1>10
<1>. QED
  BY <1>2, <1>11, <1>12 DEF N, g

\* A block cut or zero-filled with its file.
LEMMA ResizeIs ==
    ASSUME NEW m \in Modes, NEW f \in Seq(Bytes(m)), NEW b, NEW i \in Nat, HoldsTo(m, b, f, Len(f), i), NEW n \in Nat,
           NEW l, l = ChunkLen(m, n, i), l > 0
    PROVE  HoldsTo(m, Resized(b, l), Resized(f, n), n, i) /\ Len(Resized(b, l)) > 0
<1>. DEFINE N == Len(f)
            L == ChunkLen(m, N, i)
            x == i * m.chunk
            B == Resized(b, l)
            g == Resized(f, n)
            c == m.chunk
<1>1. /\ N \in Nat /\ c \in Nat /\ x \in Nat /\ l \in 0 .. c /\ x + l <= n
      /\ L = (IF N <= x THEN 0 ELSE IF N - x < c THEN N - x ELSE c)
      /\ b \in Seq(Bytes(m)) /\ Len(b) \in {0, L} /\ Len(b) \in Nat
      /\ \A k \in 1 .. L : f[x + k] = IF Len(b) = 0 THEN 0 ELSE b[k]
  <2>1. N \in Nat /\ c \in Nat /\ x \in Nat
    <3>1. N \in Nat
      OBVIOUS
    <3>2. c \in Nat /\ x \in Nat
      BY ModeIs, Starts
    <3>. QED
      BY <3>1, <3>2
  <2>2. l \in 0 .. c /\ x + l <= n
    BY ChunkIs
  <2>3. L = (IF N <= x THEN 0 ELSE IF N - x < c THEN N - x ELSE c)
    BY DEF ChunkLen
  <2>4. b \in Seq(Bytes(m)) /\ Len(b) \in {0, L} /\ \A k \in 1 .. L : f[x + k] = IF Len(b) = 0 THEN 0 ELSE b[k]
    BY DEF HoldsTo
  <2>. QED
    BY <2>1, <2>2, <2>3, <2>4
<1>2. 0 \in Bytes(m) /\ l \in Nat
  BY <1>1 DEF Bytes
<1>3. /\ B \in Seq(Bytes(m)) /\ Len(B) = l /\ \A k \in 1 .. l : B[k] = IF k <= Len(b) THEN b[k] ELSE 0
      /\ \A k \in 1 .. n : g[k] = IF k <= N THEN f[k] ELSE 0
  <2>1. B \in Seq(Bytes(m)) /\ Len(B) = l /\ \A k \in 1 .. l : B[k] = IF k <= Len(b) THEN b[k] ELSE 0
    BY <1>1, <1>2, ResizedIs
  <2>2. \A k \in 1 .. n : g[k] = IF k <= N THEN f[k] ELSE 0
    BY <1>1, <1>2, ResizedIs
  <2>. QED
    BY <2>1, <2>2
<1>. HIDE DEF N, L, x, B, g, c
<1>4. ASSUME NEW k \in 1 .. l PROVE g[x + k] = B[k]
  <2>. DEFINE q == x + k
  <2>1. k \in Nat /\ k >= 1 /\ k <= l /\ k <= c /\ q \in 1 .. n /\ q = x + k /\ q \in Nat
    BY <1>1
  <2>2. k <= L => f[q] = IF Len(b) = 0 THEN 0 ELSE b[k]
    <3>1. k <= L => k \in 1 .. L
      BY <1>1, <2>1
    <3>. QED
      BY <1>1, <3>1
  <2>. SUFFICES g[q] = B[k]
    OBVIOUS
  <2>. HIDE DEF q
  <2>3. g[q] = IF q <= N THEN f[q] ELSE 0
    BY <1>3, <2>1
  <2>4. B[k] = IF k <= Len(b) THEN b[k] ELSE 0
    BY <1>3
  <2>5. CASE q <= N
    <3>1. k <= L
      BY <1>1, <2>1, <2>5
    <3>2. Len(b) = 0 => ~(k <= Len(b))
      BY <2>1
    <3>3. Len(b) = L => k <= Len(b) /\ Len(b) # 0
      BY <1>1, <2>1, <3>1
    <3>. QED
      BY <1>1, <2>2, <2>3, <2>4, <2>5, <3>1, <3>2, <3>3
  <2>6. CASE ~(q <= N)
    <3>1. ~(k <= L)
      BY <1>1, <2>1, <2>6
    <3>2. ~(k <= Len(b))
      BY <1>1, <2>1, <3>1
    <3>. QED
      BY <2>3, <2>4, <2>6, <3>2
  <2>. QED
    BY <2>5, <2>6
<1>5. \A k \in 1 .. l : g[x + k] = IF Len(B) = 0 THEN 0 ELSE B[k]
  BY <1>3, <1>4
<1>6. HoldsTo(m, B, g, n, i)
  BY <1>3, <1>5 DEF HoldsTo, x
<1>. QED
  BY <1>3, <1>6 DEF B, g

\* A chunk that is full in both files, and one that is past the end of the old.
LEMMA FullIs ==
    ASSUME NEW m \in Modes, NEW f \in Seq(Bytes(m)), NEW b, NEW i \in Nat, HoldsTo(m, b, f, Len(f), i), NEW n \in Nat,
           ChunkLen(m, Len(f), i) = m.chunk, ChunkLen(m, n, i) = m.chunk
    PROVE  HoldsTo(m, b, Resized(f, n), n, i)
<1>. DEFINE g == Resized(f, n)
            N == Len(f)
<1>1. N \in Nat /\ 0 \in Bytes(m)
  BY DEF Bytes
<1>2. \A k \in 1 .. n : g[k] = IF k <= N THEN f[k] ELSE 0
  BY <1>1, ResizedIs
<1>3. \A k \in 1 .. m.chunk : i * m.chunk + k \in 1 .. n /\ i * m.chunk + k \in 1 .. N
  BY <1>1, ChunkWithin
<1>. DEFINE x == i * m.chunk
<1>. HIDE DEF g, x
<1>4. \A k \in 1 .. m.chunk : g[x + k] = f[x + k]
  <2>1. ASSUME NEW k \in 1 .. m.chunk PROVE g[x + k] = f[x + k]
    <3>1. x + k \in 1 .. n /\ x + k \in 1 .. N
      BY <1>3 DEF x
    <3>2. x + k <= N
      BY <3>1
    <3>. DEFINE q == x + k
    <3>. SUFFICES g[q] = f[q]
      OBVIOUS
    <3>3. q \in 1 .. n /\ q <= N
      BY <3>1, <3>2
    <3>. HIDE DEF q
    <3>. QED
      BY <1>2, <3>3
  <2>. QED
    BY <2>1
<1>5. HoldsTo(m, b, g, n, i)
  BY <1>4, HoldsElse DEF x
<1>. QED
  BY <1>5 DEF g

LEMMA BeyondIs ==
    ASSUME NEW m \in Modes, NEW f \in Seq(Bytes(m)), NEW i \in Nat, Len(f) <= i * m.chunk, NEW n \in Nat
    PROVE  HoldsTo(m, <<>>, Resized(f, n), n, i)
<1>. DEFINE g == Resized(f, n)
            N == Len(f)
            x == i * m.chunk
<1>1. N \in Nat /\ 0 \in Bytes(m) /\ x \in Nat /\ N <= x
  <2>1. N \in Nat /\ 0 \in Bytes(m)
    BY DEF Bytes
  <2>2. x \in Nat /\ N <= x
    BY Starts
  <2>. QED
    BY <2>1, <2>2
<1>2. \A k \in 1 .. n : g[k] = IF k <= N THEN f[k] ELSE 0
  BY <1>1, ResizedIs
<1>3. \A k \in 1 .. ChunkLen(m, n, i) : x + k \in 1 .. n /\ k \in Nat /\ k >= 1
  BY ChunkWithin
<1>. HIDE DEF g, x, N
<1>4. ASSUME NEW k \in 1 .. ChunkLen(m, n, i) PROVE g[x + k] = 0
  <2>. DEFINE q == x + k
  <2>. SUFFICES g[q] = 0
    OBVIOUS
  <2>1. q \in 1 .. n /\ ~(q <= N)
    BY <1>1, <1>3
  <2>. HIDE DEF q
  <2>. QED
    BY <1>2, <2>1
<1>5. HoldsTo(m, <<>>, g, n, i)
  BY <1>4 DEF HoldsTo, x
<1>. QED
  BY <1>5 DEF g

StoreHolds(n) ==
    /\ mode \in Modes /\ FileInv(mode, file) /\ StoreInv(mode, disk, seen, sess, file, StoreSize)
    /\ StoreSize = Len(file) /\ n \in 0 .. mode.size

LEMMA StoreHoldsIs ==
    ASSUME NEW n, StoreHolds(n)
    PROVE  /\ mode \in Modes /\ file \in Seq(Bytes(mode)) /\ Len(file) \in Nat /\ Len(file) <= mode.size /\ mode.size \in Nat
           /\ SessionOK(mode, sess) /\ n \in Nat /\ n <= mode.size
           /\ \A v \in {seen, disk} : \A i \in Nat : HoldsTo(mode, Under(sess, v, i), file, Len(file), i)
           /\ \A i : StoreBlock(i) = Under(sess, seen, i)
<1>1. mode \in Modes /\ file \in Seq(Bytes(mode)) /\ Len(file) \in Nat /\ Len(file) <= mode.size /\ mode.size \in Nat
  BY ModeIs DEF StoreHolds, FileInv
<1>2. SessionOK(mode, sess) /\ n \in Nat /\ n <= mode.size
  BY <1>1 DEF StoreHolds, StoreInv
<1>3. \A v \in {seen, disk} : \A i \in Nat : HoldsTo(mode, Under(sess, v, i), file, Len(file), i)
  BY DEF StoreHolds, StoreInv, Shows
<1>4. \A i : StoreBlock(i) = Under(sess, seen, i)
  BY DEF StoreBlock, SessionBlock, Under
<1>. QED
  BY <1>1, <1>2, <1>3, <1>4

Changed(s, n) ==
    /\ SessionOK(mode, s) /\ s.open /\ s.size = n
    /\ \A v \in {seen, disk} : Shows(mode, s, v, Resized(file, n), n)

LEMMA CutIs ==
    ASSUME NEW n, StoreHolds(n), n < Len(file) PROVE Changed(Cut(n), n)
<1>. DEFINE i == n \div mode.chunk
            r == n % mode.chunk
            g == Resized(file, n)
<1>1. /\ mode \in Modes /\ file \in Seq(Bytes(mode)) /\ Len(file) \in Nat /\ Len(file) <= mode.size /\ mode.size \in Nat
      /\ SessionOK(mode, sess) /\ n \in Nat /\ n <= mode.size
  BY StoreHoldsIs
<1>2. /\ \A v \in {seen, disk} : \A j \in Nat : HoldsTo(mode, Under(sess, v, j), file, Len(file), j)
      /\ HoldsTo(mode, StoreBlock(i), file, Len(file), i)
  <2>1. i \in Nat
    BY <1>1, DivIs
  <2>2. \A v \in {seen, disk} : \A j \in Nat : HoldsTo(mode, Under(sess, v, j), file, Len(file), j)
    BY StoreHoldsIs
  <2>3. HoldsTo(mode, Under(sess, seen, i), file, Len(file), i)
    BY <2>1, <2>2
  <2>4. StoreBlock(i) = Under(sess, seen, i)
    BY StoreHoldsIs
  <2>. QED
    BY <2>2, <2>3, <2>4
<1>3. i \in Nat /\ r \in Nat /\ i * mode.chunk <= n /\ i * mode.chunk \in Nat /\ i * mode.chunk + r = n
  BY <1>1, DivIs, LastChunk, ModeIs
<1>4. i <= i * mode.chunk
  BY <1>1, <1>3, StartAfter
<1>5. i \in 0 .. mode.size + 1 /\ (r # 0 => i + 1 \in 0 .. mode.size + 1 /\ i <= mode.size) /\ n \in 0 .. mode.size
  <2>. DEFINE x == i * mode.chunk
  <2>1. i <= x /\ x <= n /\ x \in Nat
    BY <1>3, <1>4
  <2>. HIDE DEF i, x, r
  <2>. QED
    BY <1>1, <1>3, <2>1
<1>6. ASSUME NEW v \in {seen, disk}, NEW j \in Nat, j < i PROVE HoldsTo(mode, Under(sess, v, j), g, n, j)
  <2>1. j * mode.chunk + mode.chunk <= n /\ ChunkLen(mode, n, j) = mode.chunk
    BY <1>1, <1>6, LastChunk
  <2>2. j * mode.chunk + mode.chunk <= Len(file)
    <3>. DEFINE y == j * mode.chunk
    <3>1. y \in Nat /\ mode.chunk \in Nat /\ y + mode.chunk <= n
      BY <1>1, <2>1, Starts, ModeIs
    <3>. HIDE DEF y
    <3>2. y + mode.chunk <= Len(file)
      BY <1>1, <3>1
    <3>. QED
      BY <3>2 DEF y
  <2>3. ChunkLen(mode, Len(file), j) = mode.chunk
    BY <1>1, <2>2, ChunkIs
  <2>. DEFINE b == Under(sess, v, j)
  <2>4. HoldsTo(mode, b, file, Len(file), j)
    BY <1>2
  <2>. HIDE DEF b, g
  <2>5. HoldsTo(mode, b, Resized(file, n), n, j)
    BY <1>1, <2>1, <2>3, <2>4, FullIs
  <2>. QED
    BY <2>5 DEF b, g
<1>7. ASSUME NEW j \in Nat, j > i \/ (j = i /\ r = 0) PROVE HoldsTo(mode, <<>>, g, n, j)
  <2>1. ChunkLen(mode, n, j) = 0
    BY <1>1, <1>7, LastChunk
  <2>. QED
    BY <2>1, Missing
<1>8. CASE r = 0
  <2>1. Cut(n) = TruncateBlocks(sess, i, n)
    BY <1>8 DEF Cut, C
  <2>2. \A j \in Nat : j >= i => HoldsTo(mode, <<>>, g, n, j)
    <3>1. ASSUME NEW j \in Nat, j >= i PROVE j > i \/ j = i
      BY <1>3, <3>1
    <3>. QED
      BY <1>7, <1>8, <3>1
  <2>. DEFINE S == TruncateBlocks(sess, i, n)
  <2>. HIDE DEF i, g
  <2>3. ASSUME NEW v \in {seen, disk} PROVE Shows(mode, S, v, g, n)
    <3>1. \A j \in Nat : j < i => HoldsTo(mode, Under(sess, v, j), g, n, j)
      BY <1>6
    <3>. QED
      BY <1>1, <1>5, <2>2, <3>1, TruncateShows
  <2>4. SessionOK(mode, S) /\ S.open /\ S.size = n
    BY <1>1, <1>5, TruncateIs
  <2>. HIDE DEF S
  <2>5. Cut(n) = S /\ g = Resized(file, n)
    BY <2>1 DEF S, g
  <2>. QED
    BY <2>3, <2>4, <2>5 DEF Changed
<1>9. CASE r # 0
  <2>. DEFINE d == [j \in {i} |-> Resized(StoreBlock(i), r)]
              T == PutBlocks(sess, d, n)
              S == TruncateBlocks(T, i + 1, n)
  <2>1. Cut(n) = S
    BY <1>9 DEF Cut, C
  <2>2. ChunkLen(mode, n, i) = r /\ r > 0
    BY <1>1, <1>3, <1>9, LastChunk
  <2>3. HoldsTo(mode, Resized(StoreBlock(i), r), g, n, i) /\ Len(Resized(StoreBlock(i), r)) > 0
    <3>. DEFINE b == StoreBlock(i)
    <3>1. HoldsTo(mode, b, file, Len(file), i)
      BY <1>2
    <3>. HIDE DEF b, i, r
    <3>2. HoldsTo(mode, Resized(b, r), Resized(file, n), n, i) /\ Len(Resized(b, r)) > 0
      BY <1>1, <1>3, <2>2, <3>1, ResizeIs
    <3>. QED
      BY <3>2 DEF b
  <2>4. DOMAIN d = {i} /\ d[i] = Resized(StoreBlock(i), r)
    OBVIOUS
  <2>. HIDE DEF d, i, r, g
  <2>5. PutOK(mode, sess, d, n)
    <3>1. Resized(StoreBlock(i), r) \in Seq(Bytes(mode))
      BY <2>3 DEF HoldsTo
    <3>. QED
      BY <1>1, <1>5, <1>9, <2>3, <2>4, <3>1 DEF PutOK
  <2>6. SessionOK(mode, T)
    BY <1>1, <2>5, PutIs
  <2>7. ASSUME NEW v \in {seen, disk}, NEW j \in Nat, j < i + 1 PROVE HoldsTo(mode, Under(T, v, j), g, n, j)
    <3>1. CASE j = i
      <4>1. Under(T, v, j) = d[i]
        BY <1>1, <2>4, <2>5, <3>1, PutIs
      <4>. QED
        BY <2>3, <2>4, <3>1, <4>1
    <3>2. CASE j # i
      <4>1. j < i /\ j \notin DOMAIN d /\ ~(j > mode.size)
        BY <1>1, <1>3, <1>5, <2>4, <2>7, <3>2
      <4>2. Under(T, v, j) = Under(sess, v, j)
        BY <1>1, <2>5, <4>1, PutIs
      <4>. QED
        BY <1>6, <4>1, <4>2
    <3>. QED
      BY <3>1, <3>2
  <2>8. ASSUME NEW j \in Nat, j >= i + 1 PROVE HoldsTo(mode, <<>>, g, n, j)
    <3>1. j > i
      BY <1>3, <2>8
    <3>. QED
      BY <1>7, <3>1
  <2>. HIDE DEF T
  <2>9. i + 1 \in 0 .. mode.size + 1
    BY <1>5, <1>9
  <2>10. ASSUME NEW v \in {seen, disk} PROVE Shows(mode, S, v, g, n)
    <3>1. \A j \in Nat : j < i + 1 => HoldsTo(mode, Under(T, v, j), g, n, j)
      BY <2>7
    <3>2. \A j \in Nat : j >= i + 1 => HoldsTo(mode, <<>>, g, n, j)
      BY <2>8
    <3>. DEFINE K == i + 1
    <3>3. K \in 0 .. mode.size + 1
      BY <2>9
    <3>4. \A j \in Nat : j < K => HoldsTo(mode, Under(T, v, j), g, n, j)
      BY <3>1
    <3>5. \A j \in Nat : j >= K => HoldsTo(mode, <<>>, g, n, j)
      BY <3>2
    <3>. HIDE DEF K
    <3>6. Shows(mode, TruncateBlocks(T, K, n), v, g, n)
      BY <1>1, <1>5, <2>6, <3>3, <3>4, <3>5, TruncateShows
    <3>. QED
      BY <3>6 DEF K
  <2>11. SessionOK(mode, S) /\ S.open /\ S.size = n
    BY <1>1, <1>5, <2>6, <2>9, TruncateIs
  <2>. HIDE DEF S
  <2>12. Cut(n) = S /\ g = Resized(file, n)
    BY <2>1 DEF g
  <2>. QED
    BY <2>10, <2>11, <2>12 DEF Changed
<1>. QED
  BY <1>8, <1>9

LEMMA GrownIs ==
    ASSUME NEW n, StoreHolds(n), n > Len(file) PROVE Changed(Grown(n), n)
<1>. DEFINE N == Len(file)
            i == N \div mode.chunk
            r == N % mode.chunk
            g == Resized(file, n)
<1>1. /\ mode \in Modes /\ file \in Seq(Bytes(mode)) /\ N \in Nat /\ N <= mode.size /\ mode.size \in Nat
      /\ SessionOK(mode, sess) /\ n \in Nat /\ n <= mode.size /\ StoreSize = N
  BY StoreHoldsIs DEF StoreHolds
<1>2. /\ \A v \in {seen, disk} : \A j \in Nat : HoldsTo(mode, Under(sess, v, j), file, N, j)
      /\ HoldsTo(mode, StoreBlock(i), file, N, i)
  <2>1. i \in Nat
    BY <1>1, DivIs
  <2>2. \A v \in {seen, disk} : \A j \in Nat : HoldsTo(mode, Under(sess, v, j), file, N, j)
    BY StoreHoldsIs
  <2>3. HoldsTo(mode, Under(sess, seen, i), file, N, i)
    BY <2>1, <2>2
  <2>4. StoreBlock(i) = Under(sess, seen, i)
    BY StoreHoldsIs
  <2>. QED
    BY <2>2, <2>3, <2>4
<1>3. i \in Nat /\ r \in Nat /\ i * mode.chunk <= N /\ i * mode.chunk \in Nat /\ i * mode.chunk + r = N
      /\ i <= i * mode.chunk /\ mode.chunk \in Nat /\ r < mode.chunk /\ mode.chunk > 0
  <2>1. i \in Nat /\ r \in 0 .. mode.chunk - 1
    BY <1>1, DivIs
  <2>2. i * mode.chunk <= N /\ i * mode.chunk \in Nat /\ i * mode.chunk + r = N
    BY <1>1, <2>1, LastChunk
  <2>3. i <= i * mode.chunk /\ mode.chunk \in Nat /\ mode.chunk > 0
    BY <1>1, <2>1, ModeIs, StartAfter
  <2>. HIDE DEF i, r
  <2>. QED
    BY <2>1, <2>2, <2>3
<1>5. i \in 0 .. mode.size + 1 /\ i \in 0 .. mode.size /\ n \in 0 .. mode.size
  <2>. DEFINE x == i * mode.chunk
  <2>1. i <= x /\ x <= N /\ x \in Nat
    BY <1>3
  <2>. HIDE DEF i, x, r, N
  <2>. QED
    BY <1>1, <1>3, <2>1
<1>6. ASSUME NEW v \in {seen, disk}, NEW j \in Nat, j < i PROVE HoldsTo(mode, Under(sess, v, j), g, n, j)
  <2>1. j * mode.chunk + mode.chunk <= N /\ ChunkLen(mode, N, j) = mode.chunk
    BY <1>1, <1>6, LastChunk
  <2>2. j * mode.chunk + mode.chunk <= n
    <3>. DEFINE y == j * mode.chunk
    <3>1. y \in Nat /\ mode.chunk \in Nat /\ y + mode.chunk <= N
      BY <1>1, <2>1, Starts, ModeIs
    <3>. HIDE DEF y, N
    <3>2. y + mode.chunk <= n
      BY <1>1, <3>1 DEF N
    <3>. QED
      BY <3>2 DEF y
  <2>3. ChunkLen(mode, n, j) = mode.chunk
    BY <1>1, <2>2, ChunkIs
  <2>. DEFINE b == Under(sess, v, j)
  <2>4. HoldsTo(mode, b, file, Len(file), j)
    BY <1>2
  <2>. HIDE DEF b, g
  <2>5. HoldsTo(mode, b, Resized(file, n), n, j)
    BY <1>1, <2>1, <2>3, <2>4, FullIs
  <2>. QED
    BY <2>5 DEF b, g
<1>7. ASSUME NEW j \in Nat, N <= j * mode.chunk PROVE HoldsTo(mode, <<>>, g, n, j)
  BY <1>1, <1>7, BeyondIs
<1>8. CASE r = 0
  <2>1. Grown(n) = TruncateBlocks(sess, i, n)
    BY <1>1, <1>8 DEF Grown, C
  <2>2. \A j \in Nat : j >= i => HoldsTo(mode, <<>>, g, n, j)
    <3>1. ASSUME NEW j \in Nat, j >= i PROVE N <= j * mode.chunk
      <4>. DEFINE x == i * mode.chunk
                  y == j * mode.chunk
                  c == mode.chunk
      <4>1. x + r = N /\ x \in Nat /\ y \in Nat /\ (i < j => x + c <= y) /\ (i = j => x = y) /\ c \in Nat
        BY <1>1, <1>3, Starts
      <4>. HIDE DEF x, y, c, i, r, N
      <4>2. N <= y
        BY <1>1, <1>3, <1>8, <3>1, <4>1
      <4>. QED
        BY <4>2 DEF y
    <3>. QED
      BY <1>7, <3>1
  <2>. DEFINE S == TruncateBlocks(sess, i, n)
  <2>. HIDE DEF i, g
  <2>3. ASSUME NEW v \in {seen, disk} PROVE Shows(mode, S, v, g, n)
    <3>1. \A j \in Nat : j < i => HoldsTo(mode, Under(sess, v, j), g, n, j)
      BY <1>6
    <3>. QED
      BY <1>1, <1>5, <2>2, <3>1, TruncateShows
  <2>4. SessionOK(mode, S) /\ S.open /\ S.size = n
    BY <1>1, <1>5, TruncateIs
  <2>. HIDE DEF S
  <2>5. Grown(n) = S /\ g = Resized(file, n)
    BY <2>1 DEF S, g
  <2>. QED
    BY <2>3, <2>4, <2>5 DEF Changed
<1>9. CASE r # 0
  <2>. DEFINE b == StoreBlock(i)
              l == ChunkLen(mode, n, i)
              d == [j \in {i} |-> Resized(StoreBlock(i), l)]
              x == i * mode.chunk
  <2>1. Min2((i + 1) * mode.chunk, n) - i * mode.chunk = l /\ l \in Nat /\ l > 0 /\ r <= l
    <3>1. l = IF n <= x THEN 0 ELSE IF n - x < mode.chunk THEN n - x ELSE mode.chunk
      BY DEF ChunkLen
    <3>2. (i + 1) * mode.chunk = x + mode.chunk /\ x \in Nat
      BY <1>1, <1>3, Starts
    <3>. DEFINE y == (i + 1) * mode.chunk
    <3>3. Min2(y, n) = IF y < n THEN y ELSE n
      BY DEF Min2
    <3>4. y = x + mode.chunk /\ x <= N /\ x + r = N /\ N < n
      BY <1>1, <1>3, <3>2
    <3>. HIDE DEF x, l, y, i, r, N
    <3>. DEFINE c == mode.chunk
    <3>6. c \in Nat /\ c > 0 /\ r \in Nat /\ r < c /\ n \in Nat /\ x \in Nat /\ N \in Nat
      BY <1>1, <1>3, <3>2
    <3>7. /\ l = IF n <= x THEN 0 ELSE IF n - x < c THEN n - x ELSE c
          /\ y = x + c /\ x + r = N /\ N < n
      BY <3>1, <3>4
    <3>. HIDE DEF c
    <3>8. l \in Nat /\ l > 0 /\ r <= l /\ (y < n => l = c) /\ (~(y < n) => l = n - x)
      BY <3>6, <3>7
    <3>5. Min2(y, n) - x = l /\ l \in Nat /\ l > 0 /\ r <= l
      BY <3>3, <3>6, <3>7, <3>8
    <3>. QED
      BY <3>5 DEF x, y
  <2>2. Len(b) \in {0, r} /\ Len(b) \in Nat
    <3>1. HoldsTo(mode, b, file, N, i) /\ ChunkLen(mode, N, i) = r
      BY <1>1, <1>2, <1>3, LastChunk
    <3>. HIDE DEF b, i, r, N
    <3>2. b \in Seq(Bytes(mode)) /\ Len(b) \in {0, r}
      BY <3>1 DEF HoldsTo
    <3>. QED
      BY <3>2
  <2>3. Max2(l, Len(b)) = l
    <3>. HIDE DEF l, b, r
    <3>. QED
      BY <1>3, <2>1, <2>2 DEF Max2
  <2>4. Grown(n) = PutBlocks(sess, d, n)
    <3>1. Grown(n) = PutBlocks(sess, [j \in {i} |-> Resized(b, Max2(Min2((i + 1) * mode.chunk, n) - i * mode.chunk, Len(b)))], n)
      BY <1>1, <1>9 DEF Grown, C
    <3>2. Max2(Min2((i + 1) * mode.chunk, n) - i * mode.chunk, Len(b)) = l
      BY <2>1, <2>3
    <3>. HIDE DEF l, b, i
    <3>. QED
      BY <3>1, <3>2 DEF b
  <2>5. HoldsTo(mode, Resized(StoreBlock(i), l), g, n, i) /\ Len(Resized(StoreBlock(i), l)) > 0
    <3>1. HoldsTo(mode, b, file, Len(file), i)
      BY <1>2
    <3>2. l = ChunkLen(mode, n, i) /\ l > 0
      BY <2>1
    <3>. HIDE DEF b, i, l
    <3>3. HoldsTo(mode, Resized(b, l), Resized(file, n), n, i) /\ Len(Resized(b, l)) > 0
      BY <1>1, <1>3, <3>1, <3>2, ResizeIs
    <3>. QED
      BY <3>3 DEF b
  <2>6. DOMAIN d = {i} /\ d[i] = Resized(StoreBlock(i), l)
    OBVIOUS
  <2>. HIDE DEF d, i, r, g, l
  <2>7. PutOK(mode, sess, d, n)
    <3>1. Resized(StoreBlock(i), l) \in Seq(Bytes(mode))
      BY <2>5 DEF HoldsTo
    <3>. QED
      BY <1>1, <1>5, <2>5, <2>6, <3>1 DEF PutOK
  <2>8. ASSUME NEW v \in {seen, disk} PROVE Shows(mode, PutBlocks(sess, d, n), v, g, n)
    <3>1. ASSUME NEW j \in Nat \ DOMAIN d PROVE HoldsTo(mode, Under(sess, v, j), g, n, j)
      <4>1. j # i /\ j \in Nat
        BY <2>6
      <4>2. CASE j < i
        BY <1>6, <4>1, <4>2
      <4>3. CASE j > i
        <5>1. N <= j * mode.chunk /\ ChunkLen(mode, N, j) = 0
          BY <1>1, <4>1, <4>3, LastChunk DEF i
        <5>2. HoldsTo(mode, Under(sess, v, j), file, N, j)
          BY <1>2
        <5>3. Under(sess, v, j) = <<>>
          BY <5>1, <5>2 DEF HoldsTo
        <5>. QED
          BY <1>7, <4>1, <5>1, <5>3
      <4>. QED
        BY <1>3, <4>1, <4>2, <4>3
    <3>. QED
      BY <1>1, <2>5, <2>6, <2>7, <3>1, PutShows
  <2>9. SessionOK(mode, PutBlocks(sess, d, n)) /\ PutBlocks(sess, d, n).open /\ PutBlocks(sess, d, n).size = n
    BY <1>1, <2>7, PutIs
  <2>. DEFINE S == PutBlocks(sess, d, n)
  <2>10. Grown(n) = S /\ g = Resized(file, n)
    BY <2>4 DEF g
  <2>. HIDE DEF S
  <2>11. SessionOK(mode, S) /\ S.open /\ S.size = n /\ \A v \in {seen, disk} : Shows(mode, S, v, g, n)
    BY <2>8, <2>9 DEF S
  <2>. QED
    BY <2>10, <2>11 DEF Changed
<1>. QED
  BY <1>8, <1>9

-----------------------------------------------------------------------------
(* The initial states                                                       *)

LEMMA PositionIs ==
    ASSUME NEW m \in Modes, NEW n \in Nat, NEW k \in 1 .. n
    PROVE  /\ (k - 1) \div m.chunk \in Nat
           /\ k - ((k - 1) \div m.chunk) * m.chunk \in 1 .. ChunkLen(m, n, (k - 1) \div m.chunk)
<1>. DEFINE c == m.chunk
            i == (k - 1) \div c
            x == i * m.chunk
            r == (k - 1) % c
<1>1. k - 1 \in Nat /\ k \in Nat /\ k <= n
  OBVIOUS
<1>2. i \in Nat /\ r \in 0 .. c - 1 /\ c \in Nat
  BY <1>1, DivIs, ModeIs
<1>3. x \in Nat /\ x + r = k - 1
  BY <1>1, <1>2, LastChunk
<1>4. ChunkLen(m, n, i) = IF n <= x THEN 0 ELSE IF n - x < c THEN n - x ELSE c
  BY DEF ChunkLen
<1>5. i \in Nat /\ k - x \in 1 .. ChunkLen(m, n, i)
  <2>. HIDE DEF x, i, r, c
  <2>. QED
    BY <1>1, <1>2, <1>3, <1>4
<1>. QED
  BY <1>5 DEF i, x, c

LEMMA SeqSub == ASSUME NEW A, NEW B, A \subseteq B, NEW s \in Seq(A) PROVE s \in Seq(B)
<1>1. \A k \in 1 .. Len(s) : s[k] \in B
  OBVIOUS
<1>2. s = [k \in 1 .. Len(s) |-> s[k]] /\ Len(s) \in Nat
  OBVIOUS
<1>3. s \in [1 .. Len(s) -> B]
  BY <1>1, <1>2
<1>. QED
  BY <1>2, <1>3

LEMMA FileBlocks ==
    ASSUME NEW m \in Modes, NEW v, FileOK(m, v)
    PROVE  /\ v \in Versions(m)
           /\ Logging(m) => /\ \A j \in 1 .. Len(v.blocks) : Len(v.blocks[j]) = m.chunk
                            /\ Len(v.tail) < m.chunk /\ v.size = Len(v.blocks) * m.chunk + Len(v.tail)
           /\ ~Logging(m) => v.tail = <<>>
           /\ \A i \in Nat : /\ ArchiveBlock(v, i) \in Seq(Bytes(m))
                             /\ Len(ArchiveBlock(v, i)) \in {0, ChunkLen(m, v.size, i)}
<1>. DEFINE A == m.bytes \cup {0}
            B == Bytes(m)
<1>1. v \in [blocks : Seq(Seq(A)), tail : Seq(A), size : 0 .. m.size] /\ A \subseteq B
  BY DEF FileOK, Bytes
<1>2. m.chunk \in Nat /\ m.chunk > 0 /\ m.size \in Nat
  BY ModeIs
<1>3. v.tail \in Seq(B) /\ v.blocks \in Seq(Seq(A)) /\ v.size \in 0 .. m.size /\ v.tail \in Seq(A)
  <2>. HIDE DEF A, B
  <2>1. v.tail \in Seq(A) /\ v.blocks \in Seq(Seq(A)) /\ v.size \in 0 .. m.size
    BY <1>1
  <2>. QED
    BY <1>1, <2>1, SeqSub
<1>4. v.blocks \in Seq(Seq(B))
  <2>. HIDE DEF A, B
  <2>1. \A s \in Seq(A) : s \in Seq(B)
    BY <1>1, SeqSub
  <2>. DEFINE SA == Seq(A)
              SB == Seq(B)
  <2>2. SA \subseteq SB /\ v.blocks \in Seq(SA)
    BY <1>3, <2>1
  <2>. HIDE DEF SA, SB
  <2>3. v.blocks \in Seq(SB)
    BY <2>2, SeqSub
  <2>. QED
    BY <2>3 DEF SB
<1>5. v = [blocks |-> v.blocks, tail |-> v.tail, size |-> v.size]
  <2>. DEFINE SSA == Seq(Seq(A))
              SA == Seq(A)
  <2>1. v \in [blocks : SSA, tail : SA, size : 0 .. m.size]
    BY <1>1
  <2>. HIDE DEF SSA, SA
  <2>. QED
    BY <2>1
<1>6. v \in Versions(m)
  <2>. DEFINE SSB == Seq(Seq(B))
              SB == Seq(B)
  <2>1. v.blocks \in SSB /\ v.tail \in SB
    BY <1>3, <1>4
  <2>2. Versions(m) = [blocks : SSB, tail : SB, size : 0 .. m.size]
    BY DEF Versions
  <2>. HIDE DEF SSB, SB
  <2>. QED
    BY <1>3, <1>5, <2>1, <2>2
<1>7. \A j \in 1 .. Len(v.blocks) :
        (j - 1) * m.chunk < v.size /\ Len(v.blocks[j]) = Min2(m.chunk, v.size - (j - 1) * m.chunk)
  BY DEF FileOK
<1>8. /\ Logging(m) => Len(v.tail) < m.chunk /\ v.size = Len(v.blocks) * m.chunk + Len(v.tail)
      /\ ~Logging(m) => v.tail = <<>>
  BY DEF FileOK, Logging
<1>. HIDE DEF A, B
<1>9. Len(v.blocks) \in Nat /\ Len(v.tail) \in Nat /\ v.size \in Nat
  BY <1>2, <1>3
<1>10. ASSUME NEW i \in Nat, i < Len(v.blocks)
       PROVE  /\ Len(v.blocks[i + 1]) = ChunkLen(m, v.size, i)
              /\ Logging(m) => Len(v.blocks[i + 1]) = m.chunk
  <2>. DEFINE x == i * m.chunk
              c == m.chunk
              n == v.size
              b == v.blocks[i + 1]
  <2>1. i + 1 \in 1 .. Len(v.blocks) /\ i + 1 - 1 = i
    BY <1>9, <1>10
  <2>2. (i + 1 - 1) * m.chunk < n /\ Len(b) = Min2(c, n - (i + 1 - 1) * m.chunk)
    BY <1>7, <2>1
  <2>3. x < n /\ Len(b) = Min2(c, n - x)
    BY <2>1, <2>2
  <2>4. x \in Nat /\ ChunkLen(m, n, i) = IF n <= x THEN 0 ELSE IF n - x < c THEN n - x ELSE c
    BY Starts DEF ChunkLen
  <2>5. Len(b) = IF c < n - x THEN c ELSE n - x
    BY <2>3 DEF Min2
  <2>6. Logging(m) => x + c <= n
    <3>. DEFINE y == Len(v.blocks) * m.chunk
    <3>1. x + c <= y /\ y \in Nat
      BY <1>9, <1>10, Starts
    <3>2. Logging(m) => n = y + Len(v.tail)
      BY <1>8
    <3>3. c \in Nat /\ n \in Nat /\ Len(v.tail) \in Nat
      BY <1>2, <1>9
    <3>. HIDE DEF x, y, c, n
    <3>. QED
      BY <2>4, <3>1, <3>2, <3>3
  <2>7. c \in Nat /\ n \in Nat
    BY <1>2, <1>9
  <2>. HIDE DEF x, c, n, b
  <2>8. Len(b) = ChunkLen(m, n, i) /\ (Logging(m) => Len(b) = c)
    BY <2>3, <2>4, <2>5, <2>6, <2>7
  <2>. QED
    BY <2>8 DEF b, n, c
<1>11. Logging(m) => \A j \in 1 .. Len(v.blocks) : Len(v.blocks[j]) = m.chunk
  <2>1. ASSUME NEW j \in 1 .. Len(v.blocks), Logging(m) PROVE Len(v.blocks[j]) = m.chunk
    <3>. DEFINE i == j - 1
    <3>1. i \in Nat /\ i < Len(v.blocks) /\ i + 1 = j
      BY <1>9
    <3>. HIDE DEF i
    <3>2. Len(v.blocks[i + 1]) = m.chunk
      BY <1>10, <2>1, <3>1
    <3>. QED
      BY <3>1, <3>2
  <2>. QED
    BY <2>1
<1>12. ASSUME NEW i \in Nat
       PROVE  /\ ArchiveBlock(v, i) \in Seq(Bytes(m))
              /\ Len(ArchiveBlock(v, i)) \in {0, ChunkLen(m, v.size, i)}
  <2>1. CASE i < Len(v.blocks)
    <3>1. ArchiveBlock(v, i) = v.blocks[i + 1]
      BY <2>1 DEF ArchiveBlock
    <3>2. i + 1 \in 1 .. Len(v.blocks)
      BY <1>9, <2>1
    <3>. DEFINE SB == Seq(B)
    <3>3. v.blocks \in Seq(SB)
      BY <1>4
    <3>. HIDE DEF SB
    <3>4. v.blocks[i + 1] \in SB
      BY <3>2, <3>3
    <3>5. Len(v.blocks[i + 1]) = ChunkLen(m, v.size, i)
      BY <1>10, <2>1
    <3>. QED
      BY <3>1, <3>4, <3>5 DEF SB, B
  <2>2. CASE i = Len(v.blocks)
    <3>1. ArchiveBlock(v, i) = v.tail
      BY <2>2 DEF ArchiveBlock
    <3>2. Len(v.tail) \in {0, ChunkLen(m, v.size, i)}
      <4>1. CASE Logging(m)
        <5>. DEFINE x == i * m.chunk
                    c == m.chunk
                    n == v.size
                    l == Len(v.tail)
        <5>1. n = x + l /\ l < c /\ c \in Nat /\ x \in Nat /\ l \in Nat
          BY <1>2, <1>8, <1>9, <2>2, <4>1, Starts
        <5>2. ChunkLen(m, n, i) = IF n <= x THEN 0 ELSE IF n - x < c THEN n - x ELSE c
          BY DEF ChunkLen
        <5>. HIDE DEF x, c, n, l
        <5>3. l = ChunkLen(m, n, i)
          BY <5>1, <5>2
        <5>. QED
          BY <5>3 DEF l, n
      <4>2. CASE ~Logging(m)
        BY <1>8, <4>2
      <4>. QED
        BY <4>1, <4>2
    <3>. QED
      BY <1>3, <3>1, <3>2 DEF B
  <2>3. CASE i > Len(v.blocks)
    <3>1. ArchiveBlock(v, i) = <<>>
      BY <1>9, <2>3 DEF ArchiveBlock
    <3>2. <<>> \in Seq(Bytes(m)) /\ Len(<<>>) = 0
      OBVIOUS
    <3>. QED
      BY <3>1, <3>2
  <2>. QED
    BY <1>9, <2>1, <2>2, <2>3
<1>. QED
  BY <1>6, <1>8, <1>11, <1>12

LEMMA FileIs ==
    ASSUME NEW m \in Modes, NEW v, FileOK(m, v) PROVE VersionOK(m, v)
<1>. DEFINE n == v.size
            c == m.chunk
            f == [k \in 1 .. n |->
                    IF Len(ArchiveBlock(v, (k - 1) \div m.chunk)) = 0 THEN 0
                    ELSE ArchiveBlock(v, (k - 1) \div m.chunk)[k - ((k - 1) \div m.chunk) * m.chunk]]
<1>1. \A i \in Nat : /\ ArchiveBlock(v, i) \in Seq(Bytes(m))
                     /\ Len(ArchiveBlock(v, i)) \in {0, ChunkLen(m, n, i)}
  BY FileBlocks
<1>2. n \in Nat /\ n <= m.size
  <2>1. v \in Versions(m)
    BY FileBlocks
  <2>. QED
    BY <2>1, ModeIs DEF Versions
<1>3. f \in Seq(Bytes(m)) /\ Len(f) = n
  <2>1. ASSUME NEW k \in 1 .. n PROVE f[k] \in Bytes(m)
    <3>. DEFINE i == (k - 1) \div m.chunk
                b == ArchiveBlock(v, i)
                off == k - i * m.chunk
    <3>1. f[k] = IF Len(b) = 0 THEN 0 ELSE b[off]
      OBVIOUS
    <3>2. i \in Nat /\ off \in 1 .. ChunkLen(m, n, i)
      BY <1>2, PositionIs
    <3>. HIDE DEF i, off
    <3>3. b \in Seq(Bytes(m)) /\ Len(b) \in {0, ChunkLen(m, n, i)}
      BY <1>1, <3>2
    <3>. HIDE DEF f, b, n
    <3>4. Len(b) # 0 => b[off] \in Bytes(m)
      BY <3>2, <3>3
    <3>5. 0 \in Bytes(m)
      BY DEF Bytes
    <3>. QED
      BY <3>1, <3>4, <3>5
  <2>2. f = [k \in 1 .. n |-> f[k]]
    OBVIOUS
  <2>. HIDE DEF f, n
  <2>. QED
    BY <1>2, <2>1, <2>2
<1>4. ASSUME NEW i \in Nat PROVE Holds(m, ArchiveBlock(v, i), f, i)
  <2>. DEFINE b == ArchiveBlock(v, i)
              l == ChunkLen(m, n, i)
              x == i * m.chunk
  <2>1. ASSUME NEW k \in 1 .. l PROVE f[x + k] = IF Len(b) = 0 THEN 0 ELSE b[k]
    <3>. DEFINE q == x + k
    <3>1. q \in 1 .. n /\ k \in Nat /\ k >= 1 /\ k <= c /\ x \in Nat /\ c \in Nat
      BY <1>2, ChunkWithin, ModeIs, Starts
    <3>2. q - 1 \in Nat /\ x <= q - 1 /\ q - 1 < x + c /\ q - x = k
      <4>. HIDE DEF x, c, n
      <4>. QED
        BY <3>1
    <3>3. (q - 1) \div m.chunk = i
      BY <3>2, DivEq
    <3>4. f[q] = IF Len(ArchiveBlock(v, (q - 1) \div m.chunk)) = 0 THEN 0
                 ELSE ArchiveBlock(v, (q - 1) \div m.chunk)[q - ((q - 1) \div m.chunk) * m.chunk]
      BY <3>1
    <3>5. f[q] = IF Len(b) = 0 THEN 0 ELSE b[q - x]
      BY <3>3, <3>4
    <3>6. f[q] = IF Len(b) = 0 THEN 0 ELSE b[k]
      <4>. HIDE DEF f, q, b, x
      <4>. QED
        BY <3>2, <3>5
    <3>. QED
      BY <3>6
  <2>2. b \in Seq(Bytes(m)) /\ Len(b) \in {0, l}
    BY <1>1
  <2>3. ChunkLen(m, Len(f), i) = l
    BY <1>3
  <2>. HIDE DEF f, b, l, n
  <2>4. Holds(m, b, f, i)
    BY <2>1, <2>2, <2>3 DEF Holds
  <2>. QED
    BY <2>4 DEF b
<1>. HIDE DEF f
<1>5. Is(m, v, f)
  BY <1>2, <1>3, <1>4 DEF Is, Served
<1>6. v \in Versions(m) /\ (Logging(m) => /\ \A j \in 1 .. Len(v.blocks) : Len(v.blocks[j]) = m.chunk
                            /\ Len(v.tail) < m.chunk /\ v.size = Len(v.blocks) * m.chunk + Len(v.tail))
      /\ (~Logging(m) => v.tail = <<>>)
  BY FileBlocks
<1>. QED
  BY <1>5, <1>6 DEF VersionOK

LEMMA TextIs ==
    ASSUME mode \in Modes, NEW v, VersionOK(mode, v)
    PROVE  Is(mode, v, Mounted(v)) /\ \A f : Is(mode, v, f) => f = Mounted(v)
<1>1. PICK f : Is(mode, v, f)
  BY DEF VersionOK
<1>2. Mounted(v) = f
  BY <1>1, MountedIs
<1>. QED
  BY <1>1, <1>2, MountedIs

LEMMA PrefixSelf == ASSUME NEW S, NEW s \in Seq(S) PROVE IsPrefix(s, s) /\ IsPrefix(<<>>, s)
  BY DEF IsPrefix

LEMMA PrefixAppend == ASSUME NEW S, NEW s \in Seq(S), NEW f \in Seq(S), NEW d \in Seq(S), IsPrefix(s, f) PROVE IsPrefix(s, f \o d)
  BY DEF IsPrefix

\* A store without a session, at a version that holds the file.
LEMMA FreshIs ==
    ASSUME mode \in Modes, NEW v, VersionOK(mode, v), NEW f, Is(mode, v, f), NEW s, s = NoSess
    PROVE  /\ FileInv(mode, f) /\ StoreInv(mode, v, v, s, f, v.size) /\ v.size = Len(f)
           /\ \A t : t = NoTail => TailInv(mode, t, f, v.size)
<1>1. f \in Seq(Bytes(mode)) /\ Len(f) = v.size /\ Len(f) <= mode.size /\ \A i \in Nat : Holds(mode, ArchiveBlock(v, i), f, i)
  BY DEF Is, Served
<1>2. FileInv(mode, f) /\ v.size = Len(f) /\ v.size \in 0 .. Len(f)
  BY <1>1 DEF FileInv
<1>3. mode.size \in Nat /\ mode.chunk \in Nat /\ mode.chunk > 0
  BY ModeIs
<1>4. s = [open |-> FALSE, dirty |-> <<>>, size |-> 0, keep |-> mode.size + 1]
  BY DEF NoSess, NoKeep, MaxSize
<1>5. s.open = FALSE /\ s.dirty = <<>> /\ s.size = 0 /\ s.keep = mode.size + 1
  BY <1>4
<1>6. SessionOK(mode, s)
  <2>1. DOMAIN s.dirty = {}
    BY <1>5
  <2>2. s = [open |-> s.open, dirty |-> s.dirty, size |-> s.size, keep |-> s.keep]
    BY <1>4
  <2>3. s.keep \in 0 .. mode.size + 1 /\ s.size \in 0 .. mode.size
    BY <1>3, <1>5
  <2>4. DOMAIN s.dirty \subseteq 0 .. mode.size
        /\ \A i \in DOMAIN s.dirty : s.dirty[i] \in Seq(Bytes(mode)) /\ Len(s.dirty[i]) > 0
    BY <2>1
  <2>. QED
    BY <1>5, <2>2, <2>3, <2>4 DEF SessionOK
<1>7. Shows(mode, s, v, f, v.size)
  <2>1. ASSUME NEW i \in Nat PROVE HoldsTo(mode, Under(s, v, i), f, v.size, i)
    <3>1. Under(s, v, i) = ArchiveBlock(v, i)
      BY <1>5 DEF Under
    <3>. QED
      BY <1>1, <3>1 DEF Holds, HoldsTo
  <2>. QED
    BY <1>5, <2>1 DEF Shows
<1>8. StoreInv(mode, v, v, s, f, v.size)
  BY <1>2, <1>5, <1>6, <1>7 DEF StoreInv
<1>9. ASSUME NEW t, t = NoTail PROVE TailInv(mode, t, f, v.size)
  <2>1. t = [open |-> FALSE, idx |-> 0, plain |-> <<>>, size |-> 0, journaled |-> 0]
    BY <1>9 DEF NoTail
  <2>2. t.open = FALSE /\ t.idx = 0 /\ t.plain = <<>> /\ t.size = 0 /\ t.journaled = 0
    BY <2>1
  <2>3. t = [open |-> t.open, idx |-> t.idx, plain |-> t.plain, size |-> t.size, journaled |-> t.journaled]
    BY <2>1
  <2>4. <<>> \in Seq(Bytes(mode)) /\ Len(<<>>) = 0
    OBVIOUS
  <2>5. TailOK(mode, t)
    <3>1. t.size \in 0 .. mode.size /\ t.journaled \in 0 .. Len(t.plain) /\ Len(t.plain) <= mode.chunk /\ t.idx \in Nat
      BY <1>3, <2>2, <2>4
    <3>2. t.plain \in Seq(Bytes(mode))
      BY <2>2, <2>4
    <3>. QED
      BY <1>9, <2>2, <2>3, <3>1, <3>2 DEF TailOK
  <2>. QED
    BY <1>2, <2>2, <2>5 DEF TailInv
<1>. QED
  BY <1>2, <1>8, <1>9

LEMMA NoTailIs == ASSUME NEW m \in Modes, NEW t, t = NoTail PROVE t.open = FALSE /\ t.plain = <<>> /\ Len(t.plain) < m.chunk
<1>1. t.open = FALSE /\ t.plain = <<>>
  BY DEF NoTail
<1>2. m.chunk \in Nat /\ m.chunk > 0 /\ Len(<<>>) = 0
  BY ModeIs
<1>. QED
  BY <1>1, <1>2

LEMMA InitInv == Supported(Modes) /\ Init => Inv
<1>. SUFFICES ASSUME Supported(Modes), Init PROVE Inv
  OBVIOUS
<1>1. /\ mode \in Modes /\ disk \in mode.files /\ stable = disk /\ seen = disk /\ sess = NoSess /\ tail = NoTail
      /\ at = "idle" /\ job = NoJob /\ file = Mounted(disk) /\ floor = file
  BY DEF Init
<1>2. VersionOK(mode, disk)
  <2>1. FileOK(mode, disk)
    BY <1>1 DEF Supported
  <2>. QED
    BY <1>1, <2>1, FileIs
<1>3. Is(mode, disk, file)
  BY <1>1, <1>2, TextIs
<1>4. FileInv(mode, file) /\ StoreInv(mode, disk, disk, sess, file, disk.size) /\ TailInv(mode, tail, file, disk.size)
  BY <1>1, <1>2, <1>3, FreshIs
<1>5. StoreSize = disk.size
  BY <1>1 DEF StoreSize, NoSess
<1>6. DurableInv(mode, disk, stable, seen, file, floor)
  <2>1. file \in Seq(Bytes(mode))
    BY <1>4 DEF FileInv
  <2>2. IsPrefix(file, file)
    BY <2>1, PrefixSelf
  <2>3. TextInv(mode, disk, file, floor)
    BY <1>1, <1>3, <2>2 DEF TextInv
  <2>. QED
    BY <1>1, <1>2, <2>1, <2>2, <2>3 DEF DurableInv
<1>7. tail.open = FALSE /\ Len(tail.plain) < mode.chunk
  BY <1>1, NoTailIs
<1>8. JournalInv(mode, disk, tail)
  BY <1>7 DEF JournalInv
<1>9. StepInv(mode, tail, at, job, file, floor)
  BY <1>1, <1>7 DEF StepInv
<1>. QED
  BY <1>1, <1>4, <1>5, <1>6, <1>8, <1>9 DEF Inv

-----------------------------------------------------------------------------
(* The steps                                                                *)

SizeOf(s, v) == IF s.open THEN s.size ELSE v.size

\* The invariant, of values.
Ready(m, d, st, se, s, t, a, j, f, fl) ==
    /\ m \in Modes
    /\ FileInv(m, f)
    /\ DurableInv(m, d, st, se, f, fl)
    /\ StoreInv(m, d, se, s, f, SizeOf(s, se))
    /\ TailInv(m, t, f, SizeOf(s, se))
    /\ JournalInv(m, d, t)
    /\ StepInv(m, t, a, j, f, fl)

LEMMA InvIs == Inv <=> Ready(mode, disk, stable, seen, sess, tail, at, job, file, floor)
  BY DEF Inv, Ready, StoreSize, SizeOf

LEMMA InvNext ==
    mode' = mode /\ Ready(mode, disk', stable', seen', sess', tail', at', job', file', floor') => Inv'
  BY DEF Inv, Ready, StoreSize, SizeOf

\* The parts of Ready that an operation on the tail alone leaves as they were.
LEMMA TailStep ==
    ASSUME NEW m, NEW d, NEW st, NEW se, NEW s, NEW t, NEW a, NEW j, NEW f, NEW fl,
           Ready(m, d, st, se, s, t, a, j, f, fl), NEW u, NEW b, NEW k,
           TailInv(m, u, f, SizeOf(s, se)), JournalInv(m, d, u), StepInv(m, u, b, k, f, fl)
    PROVE  Ready(m, d, st, se, s, u, b, k, f, fl)
  BY DEF Ready

LEMMA InvFacts ==
    ASSUME Inv
    PROVE  /\ mode \in Modes /\ mode.chunk \in Nat /\ mode.chunk > 0 /\ mode.size \in Nat
           /\ file \in Seq(Bytes(mode)) /\ Len(file) \in Nat /\ Len(file) <= mode.size
           /\ StoreSize = SizeOf(sess, seen) /\ StoreSize \in 0 .. Len(file) /\ FileSize = Len(file)
           /\ TailInv(mode, tail, file, StoreSize) /\ TailOK(mode, tail)
           /\ StoreInv(mode, disk, seen, sess, file, StoreSize)
           /\ Shows(mode, sess, seen, file, StoreSize) /\ Shows(mode, sess, disk, file, StoreSize)
           /\ JournalInv(mode, disk, tail) /\ StepInv(mode, tail, at, job, file, floor)
           /\ DurableInv(mode, disk, stable, seen, file, floor)
<1>1. mode \in Modes /\ FileInv(mode, file) /\ StoreInv(mode, disk, seen, sess, file, StoreSize)
      /\ TailInv(mode, tail, file, StoreSize) /\ JournalInv(mode, disk, tail) /\ StepInv(mode, tail, at, job, file, floor)
      /\ DurableInv(mode, disk, stable, seen, file, floor)
  BY DEF Inv
<1>2. mode.chunk \in Nat /\ mode.chunk > 0 /\ mode.size \in Nat
  BY <1>1, ModeIs
<1>3. file \in Seq(Bytes(mode)) /\ Len(file) \in Nat /\ Len(file) <= mode.size
  BY <1>1 DEF FileInv
<1>4. StoreSize = SizeOf(sess, seen)
  BY DEF StoreSize, SizeOf
<1>5. StoreSize \in 0 .. Len(file) /\ Shows(mode, sess, seen, file, StoreSize) /\ Shows(mode, sess, disk, file, StoreSize)
  BY <1>1 DEF StoreInv
<1>6. FileSize = Len(file) /\ TailOK(mode, tail)
  BY <1>1 DEF TailInv, FileSize
<1>. QED
  BY <1>1, <1>2, <1>3, <1>4, <1>5, <1>6

LEMMA DataIs ==
    ASSUME NEW data \in Data, mode \in Modes
    PROVE  data \in Seq(Bytes(mode)) /\ data # <<>> /\ Len(data) \in Nat /\ Len(data) > 0
<1>1. PICK n \in 1 .. mode.write : data \in [1 .. n -> mode.bytes]
  BY DEF Data
<1>2. mode.write \in Nat
  BY BoundsAssumption
<1>3. n \in Nat /\ n > 0
  BY <1>2
<1>4. \A k \in 1 .. n : data[k] \in Bytes(mode)
  BY <1>1 DEF Bytes
<1>5. data = [k \in 1 .. n |-> data[k]]
  BY <1>1
<1>6. data \in Seq(Bytes(mode)) /\ Len(data) = n
  BY <1>3, <1>4, <1>5
<1>. QED
  BY <1>3, <1>6

\* Where a journal is written and no tail is open, the sizes of the archive.
LEMMA LogSizes ==
    ASSUME NEW m \in Modes, Logging(m), NEW v, VersionOK(m, v)
    PROVE  /\ v.size \in Nat /\ v.size \div m.chunk = Len(v.blocks) /\ v.size % m.chunk = Len(v.tail)
           /\ ArchiveBlock(v, Len(v.blocks)) = v.tail /\ v.tail \in Seq(Bytes(m)) /\ Len(v.blocks) \in Nat
<1>1. v \in Versions(m) /\ Len(v.tail) < m.chunk /\ v.size = Len(v.blocks) * m.chunk + Len(v.tail)
  BY DEF VersionOK
<1>2. v.size \in Nat /\ Len(v.blocks) \in Nat /\ v.tail \in Seq(Bytes(m)) /\ Len(v.tail) \in Nat
  BY <1>1, ModeIs DEF Versions
<1>3. v.size \div m.chunk = Len(v.blocks) /\ v.size % m.chunk = Len(v.tail)
  <2>. DEFINE q == Len(v.blocks)
              x == q * m.chunk
              n == v.size
              l == Len(v.tail)
  <2>1. x \in Nat /\ m.chunk \in Nat /\ n = x + l /\ l \in Nat /\ l < m.chunk
    BY <1>1, <1>2, Starts, ModeIs
  <2>2. x <= n /\ n < x + m.chunk /\ n - x = l
    <3>. DEFINE c == m.chunk
    <3>1. x \in Nat /\ c \in Nat /\ n = x + l /\ l \in Nat /\ l < c
      BY <2>1
    <3>. HIDE DEF x, n, l, c
    <3>2. x <= n /\ n < x + c /\ n - x = l
      BY <3>1
    <3>. QED
      BY <3>2 DEF c
  <2>3. n \div m.chunk = q /\ n % m.chunk = n - q * m.chunk
    BY <1>2, <2>2, DivEq
  <2>. QED
    BY <2>2, <2>3
<1>4. ArchiveBlock(v, Len(v.blocks)) = v.tail
  BY <1>2 DEF ArchiveBlock
<1>. QED
  BY <1>2, <1>3, <1>4

\* A step that changes the tail and the handler's place, and nothing else.
LEMMA TailOnly ==
    ASSUME Inv, mode' = mode, UNCHANGED <<disk, stable, seen, sess, file, floor>>,
           TailInv(mode, tail', file, StoreSize), JournalInv(mode, disk, tail'),
           StepInv(mode, tail', at', job', file, floor)
    PROVE  Inv'
<1>1. Ready(mode, disk, stable, seen, sess, tail, at, job, file, floor)
  BY InvIs
<1>2. StoreSize = SizeOf(sess, seen)
  BY InvFacts
<1>3. Ready(mode, disk, stable, seen, sess, tail', at', job', file, floor)
  BY <1>1, <1>2, TailStep
<1>4. Ready(mode, disk', stable', seen', sess', tail', at', job', file', floor')
  BY <1>3
<1>. QED
  BY <1>4, InvNext

\* A tail opened where the archive ends counts as journaled what the journal has.
LEMMA OpenedJournal ==
    ASSUME NEW m \in Modes, Logging(m), NEW v, VersionOK(m, v)
    PROVE  /\ JournalInv(m, v, LoadedTailOf(m, ArchiveBlock(v, v.size \div m.chunk), v.size))
           /\ v.size % m.chunk = 0 => JournalInv(m, v, EmptyTailOf(m, v.size))
<1>1. /\ v.size \in Nat /\ v.size \div m.chunk = Len(v.blocks) /\ v.size % m.chunk = Len(v.tail)
      /\ ArchiveBlock(v, Len(v.blocks)) = v.tail /\ v.tail \in Seq(Bytes(m))
  BY LogSizes
<1>. DEFINE b == v.tail
<1>2. Resized(b, Len(b)) = b
  <2>1. b \in Seq(Bytes(m)) /\ Len(b) \in Nat /\ 0 \in Bytes(m)
    BY <1>1 DEF Bytes
  <2>. HIDE DEF b
  <2>2. Resized(b, Len(b)) \in Seq(Bytes(m)) /\ Len(Resized(b, Len(b))) = Len(b)
        /\ \A k \in 1 .. Len(b) : Resized(b, Len(b))[k] = b[k]
    BY <2>1, ResizedIs
  <2>. QED
    BY <2>1, <2>2
<1>3. SubSeq(b, 1, Len(b)) = b
  <2>1. b \in Seq(Bytes(m))
    BY <1>1
  <2>. HIDE DEF b
  <2>. QED
    BY <2>1
<1>4. JournalInv(m, v, LoadedTailOf(m, ArchiveBlock(v, v.size \div m.chunk), v.size))
  <2>. DEFINE t == LoadedTailOf(m, ArchiveBlock(v, v.size \div m.chunk), v.size)
  <2>1. t.idx = Len(v.blocks) /\ t.plain = b /\ t.journaled = Len(b)
    BY <1>1, <1>2 DEF LoadedTailOf
  <2>. QED
    BY <1>3, <2>1 DEF JournalInv
<1>5. ASSUME v.size % m.chunk = 0 PROVE JournalInv(m, v, EmptyTailOf(m, v.size))
  <2>. DEFINE t == EmptyTailOf(m, v.size)
  <2>1. b = <<>>
    BY <1>1, <1>5
  <2>2. SubSeq(<<>>, 1, 0) = <<>>
    BY <1>3, <2>1
  <2>3. t.idx = Len(v.blocks) /\ t.plain = <<>> /\ t.journaled = 0
    BY <1>1 DEF EmptyTailOf
  <2>. QED
    BY <2>1, <2>2, <2>3 DEF JournalInv
<1>. QED
  BY <1>4, <1>5

\* What ensure_tail_loaded gives an append.
LEMMA EnsuredIs ==
    ASSUME Inv, TailBuffer, Len(tail.plain) < mode.chunk
    PROVE  /\ TailInv(mode, EnsuredTail, file, StoreSize) /\ JournalInv(mode, disk, EnsuredTail)
           /\ EnsuredTail.open /\ Len(EnsuredTail.plain) < mode.chunk
<1>1. /\ mode \in Modes /\ mode.chunk \in Nat /\ mode.chunk > 0 /\ mode.size \in Nat
      /\ file \in Seq(Bytes(mode)) /\ Len(file) \in Nat /\ Len(file) <= mode.size
      /\ FileSize = Len(file) /\ TailInv(mode, tail, file, StoreSize) /\ TailOK(mode, tail)
      /\ Shows(mode, sess, seen, file, StoreSize) /\ JournalInv(mode, disk, tail) /\ VersionOK(mode, disk)
      /\ StoreInv(mode, disk, seen, sess, file, StoreSize)
  BY InvFacts DEF DurableInv
<1>2. CASE tail.open
  BY <1>1, <1>2 DEF EnsuredTail
<1>3. CASE ~tail.open
  <2>. DEFINE n == Len(file)
              b == SessionBlock(sess, n \div mode.chunk)
  <2>1. StoreSize = n /\ mode.buffer
    BY <1>1, <1>3 DEF TailInv, TailBuffer
  <2>2. n \div mode.chunk \in Nat
    BY <1>1, DivIs
  <2>3. \A i : SessionBlock(sess, i) = Under(sess, seen, i)
    BY DEF SessionBlock, Under
  <2>4. HoldsTo(mode, b, file, n, n \div mode.chunk)
    BY <1>1, <2>1, <2>2, <2>3 DEF Shows
  <2>5. ASSUME Logging(mode) PROVE b = ArchiveBlock(disk, disk.size \div mode.chunk) /\ disk.size = n
    <3>1. sess.open = FALSE /\ seen = disk /\ StoreSize = disk.size
      BY <1>1, <2>5 DEF StoreInv, SessionOK, StoreSize
    <3>2. Under(sess, seen, n \div mode.chunk) = ArchiveBlock(disk, n \div mode.chunk)
      BY <3>1 DEF Under
    <3>. QED
      BY <2>1, <2>3, <3>1, <3>2
  <2>6. CASE n % mode.chunk = 0
    <3>1. EnsuredTail = EmptyTailOf(mode, n)
      BY <1>1, <1>3, <2>6 DEF EnsuredTail, EmptyTail, EmptyTailOf, C
    <3>2. TailInv(mode, EmptyTailOf(mode, n), file, n) /\ Len(EmptyTailOf(mode, n).plain) < mode.chunk
      BY <1>1, <2>1, <2>6, EmptyTailIs
    <3>3. JournalInv(mode, disk, EmptyTailOf(mode, n))
      <4>1. CASE Logging(mode)
        BY <1>1, <2>5, <2>6, <4>1, OpenedJournal
      <4>2. CASE ~Logging(mode)
        BY <4>2 DEF JournalInv
      <4>. QED
        BY <4>1, <4>2
    <3>4. EmptyTailOf(mode, n).open = TRUE
      BY DEF EmptyTailOf
    <3>. QED
      BY <2>1, <3>1, <3>2, <3>3, <3>4
  <2>7. CASE n % mode.chunk # 0
    <3>1. EnsuredTail = LoadedTailOf(mode, b, n)
      BY <1>1, <1>3, <2>7 DEF EnsuredTail, LoadedTail, LoadedTailOf, C
    <3>2. TailInv(mode, LoadedTailOf(mode, b, n), file, n) /\ Len(LoadedTailOf(mode, b, n).plain) < mode.chunk
      BY <1>1, <2>1, <2>4, LoadedTailIs
    <3>3. JournalInv(mode, disk, LoadedTailOf(mode, b, n))
      <4>1. CASE Logging(mode)
        BY <1>1, <2>5, <4>1, OpenedJournal
      <4>2. CASE ~Logging(mode)
        BY <4>2 DEF JournalInv
      <4>. QED
        BY <4>1, <4>2
    <3>4. LoadedTailOf(mode, b, n).open = TRUE
      BY DEF LoadedTailOf
    <3>. HIDE DEF b, n
    <3>. QED
      BY <2>1, <3>1, <3>2, <3>3, <3>4
  <2>. QED
    BY <2>6, <2>7
<1>. QED
  BY <1>1, <1>2, <1>3 DEF TailOK

LEMMA StartAppendStep ==
    ASSUME Inv, mode' = mode, NEW data \in Data, StartAppend(data) PROVE Inv'
<1>1. /\ at = "idle" /\ TailBuffer /\ FileSize + Len(data) <= mode.size
      /\ tail' = EnsuredTail /\ at' = "fill" /\ job' = [kind |-> "append", rest |-> data]
      /\ UNCHANGED <<disk, stable, seen, sess, file, floor>>
  BY DEF StartAppend, MaxSize, archive
<1>2. mode \in Modes /\ FileSize = Len(file) /\ StepInv(mode, tail, at, job, file, floor)
  BY InvFacts
<1>3. Len(tail.plain) < mode.chunk
  BY <1>1, <1>2 DEF StepInv
<1>4. /\ TailInv(mode, EnsuredTail, file, StoreSize) /\ JournalInv(mode, disk, EnsuredTail)
      /\ EnsuredTail.open /\ Len(EnsuredTail.plain) < mode.chunk
  BY <1>1, <1>3, EnsuredIs
<1>5. data \in Seq(Bytes(mode))
  BY <1>2, DataIs
<1>6. job'.kind = "append" /\ job'.rest = data
  BY <1>1
<1>7. AppendOK(mode, job', file)
  BY <1>1, <1>2, <1>5, <1>6 DEF AppendOK
<1>8. StepInv(mode, tail', at', job', file, floor)
  BY <1>1, <1>4, <1>7 DEF StepInv
<1>. QED
  BY <1>1, <1>4, <1>8, TailOnly

LEMMA ConcatIs ==
    ASSUME NEW S, NEW s \in Seq(S), NEW d \in Seq(S)
    PROVE  /\ s \o d \in Seq(S) /\ Len(s) \in Nat /\ Len(d) \in Nat /\ Len(s \o d) = Len(s) + Len(d)
           /\ \A k \in 1 .. Len(s) + Len(d) : (s \o d)[k] = IF k <= Len(s) THEN s[k] ELSE d[k - Len(s)]
  OBVIOUS

Filled(t, d) == [t EXCEPT !.plain = @ \o d, !.size = @ + Len(d)]

FillOK(m, f, n, t, d) ==
    /\ m \in Modes /\ f \in Seq(Bytes(m)) /\ n \in 0 .. Len(f) /\ TailInv(m, t, f, n) /\ t.open
    /\ d \in Seq(Bytes(m)) /\ Len(t.plain) + Len(d) <= m.chunk /\ Len(f) + Len(d) <= m.size

\* Bytes put at the end of the open tail are at the end of the file.
LEMMA FilledIs ==
    ASSUME NEW m, NEW f, NEW n, NEW t, NEW d, NEW u, FillOK(m, f, n, t, d), u = Filled(t, d)
    PROVE  /\ TailInv(m, u, f \o d, n) /\ u.open /\ Len(u.plain) = Len(t.plain) + Len(d)
           /\ \A v : JournalInv(m, v, t) => JournalInv(m, v, u)
<1>. USE DEF FillOK
<1>1. /\ t = [open |-> t.open, idx |-> t.idx, plain |-> t.plain, size |-> t.size, journaled |-> t.journaled]
      /\ t.plain \in Seq(Bytes(m)) /\ t.size \in 0 .. m.size /\ t.journaled \in 0 .. Len(t.plain) /\ t.idx \in Nat
  BY DEF TailInv, TailOK
<1>2. /\ m.buffer /\ t.size = Len(f) /\ t.size = t.idx * m.chunk + Len(t.plain) /\ t.idx * m.chunk <= n
      /\ \A k \in 1 .. Len(t.plain) : f[t.idx * m.chunk + k] = t.plain[k]
  BY DEF TailInv
<1>3. /\ u.open = t.open /\ u.idx = t.idx /\ u.plain = t.plain \o d /\ u.size = t.size + Len(d) /\ u.journaled = t.journaled
      /\ u = [open |-> u.open, idx |-> u.idx, plain |-> u.plain, size |-> u.size, journaled |-> u.journaled]
  BY <1>1 DEF Filled
<1>. DEFINE p == t.plain
            x == t.idx * m.chunk
<1>4. /\ p \in Seq(Bytes(m)) /\ Len(p) \in Nat /\ x \in Nat /\ Len(d) \in Nat /\ Len(f) \in Nat /\ m.size \in Nat /\ m.chunk \in Nat
      /\ Len(f) = x + Len(p)
  <2>1. p \in Seq(Bytes(m)) /\ Len(p) \in Nat /\ Len(d) \in Nat /\ Len(f) \in Nat
    BY <1>1
  <2>2. x \in Nat /\ m.size \in Nat /\ m.chunk \in Nat
    BY <1>1, Starts, ModeIs
  <2>3. Len(f) = x + Len(p)
    BY <1>2
  <2>. QED
    BY <2>1, <2>2, <2>3
<1>5. p \o d \in Seq(Bytes(m)) /\ Len(p \o d) = Len(p) + Len(d)
      /\ \A k \in 1 .. Len(p) + Len(d) : (p \o d)[k] = IF k <= Len(p) THEN p[k] ELSE d[k - Len(p)]
  BY <1>1, ConcatIs
<1>14. Len(f \o d) = Len(f) + Len(d)
       /\ \A k \in 1 .. Len(f) + Len(d) : (f \o d)[k] = IF k <= Len(f) THEN f[k] ELSE d[k - Len(f)]
  BY ConcatIs
<1>6. \A k \in 1 .. Len(p) : f[x + k] = p[k]
  BY <1>2
<1>7. \A k \in 1 .. Len(p \o d) : (f \o d)[x + k] = (p \o d)[k]
  <2>. DEFINE lp == Len(p)
              ld == Len(d)
              lf == Len(f)
              fd == f \o d
              pd == p \o d
  <2>0. lp \in Nat /\ ld \in Nat /\ lf \in Nat /\ x \in Nat /\ lf = x + lp
    BY <1>4
  <2>a. \A k \in 1 .. lp + ld : pd[k] = IF k <= lp THEN p[k] ELSE d[k - lp]
    BY <1>5
  <2>b. \A k \in 1 .. lf + ld : fd[k] = IF k <= lf THEN f[k] ELSE d[k - lf]
    BY <1>14
  <2>c. \A k \in 1 .. lp : f[x + k] = p[k]
    BY <1>6
  <2>. HIDE DEF p, x, lp, ld, lf, fd, pd
  <2>1. ASSUME NEW k \in 1 .. lp + ld PROVE fd[x + k] = pd[k]
    <3>. DEFINE q == x + k
    <3>0. k \in Nat /\ k >= 1 /\ k <= lp + ld
      BY <2>0
    <3>1. q \in 1 .. lf + ld /\ k \in Nat /\ q \in Nat /\ q - lf = k - lp /\ (q <= lf <=> k <= lp)
      BY <2>0, <3>0
    <3>3. k <= lp => f[q] = p[k]
      BY <2>c, <2>0
    <3>. HIDE DEF q
    <3>2. fd[q] = IF q <= lf THEN f[q] ELSE d[q - lf]
      BY <2>b, <3>1
    <3>4. pd[k] = IF k <= lp THEN p[k] ELSE d[k - lp]
      BY <2>a
    <3>5. fd[q] = pd[k]
      BY <3>1, <3>2, <3>3, <3>4
    <3>. QED
      BY <3>5 DEF q
  <2>2. \A k \in 1 .. lp + ld : fd[x + k] = pd[k]
    BY <2>1
  <2>. QED
    BY <1>5, <2>2 DEF lp, ld, fd, pd
<1>8. TailOK(m, u)
  <2>1. u.size \in 0 .. m.size
    <3>. DEFINE l == Len(f)
                k == Len(d)
    <3>1. u.size = l + k /\ l + k <= m.size
      BY <1>2, <1>3 DEF FillOK
    <3>2. l \in Nat /\ k \in Nat /\ m.size \in Nat
      BY <1>4
    <3>. HIDE DEF l, k
    <3>. QED
      BY <3>1, <3>2
  <2>2. u.journaled \in 0 .. Len(u.plain)
    BY <1>1, <1>3, <1>4, <1>5
  <2>3. u.plain \in Seq(Bytes(m)) /\ Len(u.plain) <= m.chunk
    BY <1>3, <1>5
  <2>. QED
    BY <1>1, <1>3, <2>1, <2>2, <2>3 DEF TailOK
<1>9. u.size = Len(f \o d) /\ u.size = u.idx * m.chunk + Len(u.plain)
  <2>1. u.size = x + Len(p) + Len(d) /\ u.size = Len(f) + Len(d)
    BY <1>2, <1>3, <1>4
  <2>2. u.idx * m.chunk = x /\ Len(u.plain) = Len(p) + Len(d)
    BY <1>3, <1>5
  <2>. HIDE DEF p, x
  <2>. QED
    BY <1>4, <1>5, <1>14, <2>1, <2>2
<1>10. TailInv(m, u, f \o d, n)
  <2>1. u.idx * m.chunk <= n /\ u.open = TRUE
    BY <1>2, <1>3, <1>1, <1>8 DEF TailOK
  <2>2. \A k \in 1 .. Len(u.plain) : (f \o d)[u.idx * m.chunk + k] = u.plain[k]
    BY <1>3, <1>7
  <2>. QED
    BY <1>2, <1>8, <1>9, <2>1, <2>2 DEF TailInv
<1>11. SubSeq(p \o d, 1, t.journaled) = SubSeq(p, 1, t.journaled)
  <2>1. t.journaled \in Nat /\ t.journaled <= Len(p)
    BY <1>1, <1>4
  <2>. DEFINE j == t.journaled
  <2>. HIDE DEF p, x, j
  <2>2. j \in Nat /\ j <= Len(p)
    BY <2>1 DEF j
  <2>3. SubSeq(p \o d, 1, j) = SubSeq(p, 1, j)
    BY <1>4, <1>5, <2>2
  <2>. QED
    BY <2>3 DEF j
<1>12. ASSUME NEW v, JournalInv(m, v, t) PROVE JournalInv(m, v, u)
  BY <1>3, <1>11, <1>12 DEF JournalInv
<1>. QED
  BY <1>3, <1>5, <1>10, <1>12

\* The invariant of the store keeps when the file grows at its end.
LEMMA LongerIs ==
    ASSUME NEW m \in Modes, NEW f \in Seq(Bytes(m)), NEW d \in Seq(Bytes(m)), Len(f) + Len(d) <= m.size,
           NEW v, NEW st, NEW se, NEW fl, DurableInv(m, v, st, se, f, fl), NEW s, NEW n, StoreInv(m, v, se, s, f, n)
    PROVE  FileInv(m, f \o d) /\ DurableInv(m, v, st, se, f \o d, fl) /\ StoreInv(m, v, se, s, f \o d, n)
<1>1. Len(f) \in Nat /\ Len(d) \in Nat /\ f \o d \in Seq(Bytes(m)) /\ Len(f \o d) = Len(f) + Len(d)
      /\ \A k \in 1 .. Len(f) : (f \o d)[k] = f[k]
  OBVIOUS
<1>2. FileInv(m, f \o d)
  BY <1>1 DEF FileInv
<1>3. ASSUME NEW w, TextInv(m, w, f, fl) PROVE TextInv(m, w, f \o d, fl)
  <2>1. PICK g : Is(m, w, g) /\ IsPrefix(fl, g) /\ (AppendOnly(m) => IsPrefix(g, f))
    BY <1>3 DEF TextInv
  <2>2. g \in Seq(Bytes(m))
    BY <2>1 DEF Is
  <2>3. AppendOnly(m) => IsPrefix(g, f \o d)
    BY <2>1, <2>2, PrefixAppend
  <2>. QED
    BY <2>1, <2>3 DEF TextInv
<1>4. DurableInv(m, v, st, se, f \o d, fl)
  <2>1. fl \in Seq(Bytes(m)) /\ IsPrefix(fl, f)
    BY DEF DurableInv
  <2>2. IsPrefix(fl, f \o d)
    BY <2>1, PrefixAppend
  <2>. QED
    BY <1>3, <2>2 DEF DurableInv
<1>5. n \in 0 .. Len(f) /\ n \in Nat
  BY <1>1 DEF StoreInv
<1>6. ASSUME NEW w, Shows(m, s, w, f, n) PROVE Shows(m, s, w, f \o d, n)
  <2>1. \A p \in 1 .. n : (f \o d)[p] = f[p]
    BY <1>1, <1>5
  <2>2. ASSUME NEW i \in Nat PROVE HoldsTo(m, Under(s, w, i), f \o d, n, i)
    <3>1. HoldsTo(m, Under(s, w, i), f, n, i)
      BY <1>6 DEF Shows
    <3>. QED
      BY <1>5, <2>1, <3>1, HoldsAgree
  <2>. QED
    BY <1>6, <2>2 DEF Shows
<1>7. StoreInv(m, v, se, s, f \o d, n)
  <2>1. n \in 0 .. Len(f \o d)
    BY <1>1, <1>5
  <2>. QED
    BY <1>6, <2>1 DEF StoreInv
<1>. QED
  BY <1>2, <1>4, <1>7

LEMMA FillTailStep == ASSUME Inv, mode' = mode, FillTail PROVE Inv'
<1>. DEFINE c    == mode.chunk
            take == Min2(C - Len(tail.plain), Len(job.rest))
            data == SubSeq(job.rest, 1, take)
<1>1. /\ at = "fill" /\ tail' = [tail EXCEPT !.plain = @ \o data, !.size = @ + take] /\ file' = file \o data
      /\ IF Len(tail.plain) + take = c
         THEN at' = "seal" /\ job' = [job EXCEPT !.rest = SubSeq(@, take + 1, Len(@))]
         ELSE at' = "idle" /\ job' = NoJob
      /\ UNCHANGED <<disk, stable, seen, sess, floor>>
  BY DEF FillTail, C, Done, archive
<1>2. /\ mode \in Modes /\ mode.chunk \in Nat /\ mode.chunk > 0 /\ mode.size \in Nat
      /\ file \in Seq(Bytes(mode)) /\ Len(file) \in Nat /\ StoreSize = SizeOf(sess, seen) /\ StoreSize \in 0 .. Len(file)
      /\ TailInv(mode, tail, file, StoreSize) /\ TailOK(mode, tail)
      /\ StoreInv(mode, disk, seen, sess, file, StoreSize)
      /\ JournalInv(mode, disk, tail) /\ StepInv(mode, tail, at, job, file, floor)
      /\ DurableInv(mode, disk, stable, seen, file, floor)
  BY InvFacts
<1>3. /\ tail.open /\ Len(tail.plain) < c /\ job.kind = "append" /\ job = [kind |-> "append", rest |-> job.rest]
      /\ job.rest \in Seq(Bytes(mode)) /\ Len(file) + Len(job.rest) <= mode.size /\ Len(tail.plain) \in Nat
  BY <1>1, <1>2 DEF StepInv, AppendOK, TailOK
<1>4. /\ take \in Nat /\ take <= Len(job.rest) /\ Len(tail.plain) + take <= c /\ Len(job.rest) \in Nat
  BY <1>2, <1>3 DEF Min2, C
<1>. DEFINE left == SubSeq(job.rest, take + 1, Len(job.rest))
<1>5. data \in Seq(Bytes(mode)) /\ Len(data) = take /\ left \in Seq(Bytes(mode)) /\ Len(left) = Len(job.rest) - take
  <2>. DEFINE r == job.rest
  <2>1. r \in Seq(Bytes(mode)) /\ take \in Nat /\ take <= Len(r) /\ Len(r) \in Nat
    BY <1>3, <1>4
  <2>. HIDE DEF take, r
  <2>2. SubSeq(r, 1, take) \in Seq(Bytes(mode)) /\ Len(SubSeq(r, 1, take)) = take
    BY <2>1
  <2>3. SubSeq(r, take + 1, Len(r)) \in Seq(Bytes(mode)) /\ Len(SubSeq(r, take + 1, Len(r))) = Len(r) - take
    BY <2>1
  <2>. QED
    BY <2>2, <2>3 DEF r
<1>6. Len(tail.plain) + Len(data) <= mode.chunk /\ Len(file) + Len(data) <= mode.size
  BY <1>2, <1>3, <1>4, <1>5
<1>7. tail' = Filled(tail, data)
  BY <1>1, <1>5 DEF Filled
<1>. HIDE DEF data, left, take
<1>8. /\ TailInv(mode, tail', file \o data, StoreSize) /\ tail'.open /\ Len(tail'.plain) = Len(tail.plain) + Len(data)
      /\ JournalInv(mode, disk, tail')
  <2>1. FillOK(mode, file, StoreSize, tail, data)
    BY <1>2, <1>3, <1>5, <1>6 DEF FillOK
  <2>2. TailInv(mode, tail', file \o data, StoreSize) /\ tail'.open /\ Len(tail'.plain) = Len(tail.plain) + Len(data)
        /\ \A v : JournalInv(mode, v, tail) => JournalInv(mode, v, tail')
    BY <1>7, <2>1, FilledIs
  <2>. QED
    BY <1>2, <2>2
<1>9. /\ FileInv(mode, file \o data) /\ DurableInv(mode, disk, stable, seen, file \o data, floor)
      /\ StoreInv(mode, disk, seen, sess, file \o data, StoreSize)
  BY <1>2, <1>5, <1>6, LongerIs
<1>10. StepInv(mode, tail', at', job', file \o data, floor)
  <2>1. CASE Len(tail.plain) + take = c
    <3>1. at' = "seal" /\ job' = [kind |-> "append", rest |-> left]
      BY <1>1, <1>3, <2>1 DEF left
    <3>2. AppendOK(mode, job', file \o data)
      <4>1. Len(file \o data) = Len(file) + take
        BY <1>2, <1>5, ConcatIs
      <4>2. Len(file \o data) + Len(left) <= mode.size
        BY <1>2, <1>3, <1>4, <1>5, <4>1
      <4>. QED
        BY <1>5, <3>1, <4>2 DEF AppendOK
    <3>3. Len(tail'.plain) = mode.chunk /\ tail'.plain # <<>>
      BY <1>2, <1>5, <1>8, <2>1
    <3>. QED
      BY <1>8, <3>1, <3>2, <3>3 DEF StepInv
  <2>2. CASE Len(tail.plain) + take # c
    <3>1. at' = "idle" /\ job' = NoJob
      BY <1>1, <2>2
    <3>2. Len(tail'.plain) < mode.chunk
      BY <1>2, <1>3, <1>4, <1>5, <1>8, <2>2
    <3>. QED
      BY <3>1, <3>2 DEF StepInv
  <2>. QED
    BY <2>1, <2>2
<1>11. Ready(mode, disk', stable', seen', sess', tail', at', job', file', floor')
  BY <1>1, <1>2, <1>8, <1>9, <1>10 DEF Ready
<1>. QED
  BY <1>11, InvNext

LEMMA SeqIsFun == ASSUME NEW S, NEW s \in Seq(S) PROVE s = [j \in 1 .. Len(s) |-> s[j]]
  OBVIOUS

\* Sealing at the end of the index appends the block.
LEMMA SealedIs ==
    ASSUME mode \in Modes, NEW v, v \in Versions(mode), Len(v.blocks) \in Nat, Len(v.blocks) <= mode.size,
           NEW p, p \in Seq(Bytes(mode)), NEW i, i = Len(v.blocks), NEW n
    PROVE  /\ WithSealed(v, i, p, n).blocks = Append(v.blocks, p) /\ WithSealed(v, i, p, n).tail = <<>>
           /\ WithSealed(v, i, p, n).size = n
<1>. DEFINE d    == [j \in {i} |-> p]
            b    == v.blocks
            over == Overlay(b, NoKeep, d)
<1>1. mode.size \in Nat /\ NoKeep = mode.size + 1
  BY ModeIs DEF NoKeep, MaxSize
<1>2. b \in Seq(Seq(Bytes(mode))) /\ Len(b) \in Nat /\ i \in Nat /\ i = Len(b) /\ Len(b) <= mode.size
  BY DEF Versions
<1>3. DOMAIN d = {i} /\ d[i] = p /\ DOMAIN d \subseteq 0 .. i
  BY <1>2
<1>4. PICK k \in Nat : OverlayEnds(b, NoKeep, d, k) /\ over = Overlaid(mode, b, NoKeep, d, k)
  <2>1. NoKeep \in Nat
    BY <1>1
  <2>. HIDE DEF d, b, over
  <2>. QED
    BY <1>2, <1>3, <2>1, OverlayIs DEF over
<1>5. OverlaySize(b, NoKeep) = i
  BY <1>1, <1>2 DEF OverlaySize
<1>6. k = i + 1
  <2>1. k >= i /\ i < k /\ (k = i \/ k = i + 1)
    BY <1>3, <1>4, <1>5 DEF OverlayEnds
  <2>. QED
    BY <1>2, <2>1
<1>. HIDE DEF d, b, over
<1>7. over = [j \in 1 .. i + 1 |-> IF j <= i THEN b[j] ELSE p]
  <2>1. over = [j \in 1 .. i + 1 |-> IF j - 1 \in {i} THEN d[j - 1] ELSE IF j <= i THEN b[j] ELSE [l \in 1 .. mode.chunk |-> 0]]
    BY <1>3, <1>4, <1>5, <1>6 DEF Overlaid
  <2>2. ASSUME NEW j \in 1 .. i + 1
        PROVE (IF j - 1 \in {i} THEN d[j - 1] ELSE IF j <= i THEN b[j] ELSE [l \in 1 .. mode.chunk |-> 0])
               = IF j <= i THEN b[j] ELSE p
    <3>1. j \in Nat /\ j <= i + 1
      BY <1>2
    <3>2. CASE j <= i
      BY <1>2, <3>1, <3>2
    <3>3. CASE ~(j <= i)
      <4>1. j - 1 = i
        BY <1>2, <3>1, <3>3
      <4>. QED
        BY <1>3, <3>3, <4>1
    <3>. QED
      BY <3>2, <3>3
  <2>. QED
    BY <2>1, <2>2
<1>8. Append(b, p) = [j \in 1 .. i + 1 |-> IF j <= i THEN b[j] ELSE p]
  <2>1. Append(b, p) \in Seq(Seq(Bytes(mode))) /\ Len(Append(b, p)) = i + 1
        /\ \A j \in 1 .. i + 1 : Append(b, p)[j] = IF j <= i THEN b[j] ELSE p
    BY <1>2
  <2>2. Append(b, p) = [j \in 1 .. i + 1 |-> Append(b, p)[j]]
    <3>. DEFINE a == Append(b, p)
    <3>1. a \in Seq(Seq(Bytes(mode))) /\ Len(a) = i + 1
      BY <2>1
    <3>. HIDE DEF a
    <3>2. a = [j \in 1 .. i + 1 |-> a[j]]
      BY <3>1, SeqIsFun
    <3>. QED
      BY <3>2 DEF a
  <2>. QED
    BY <2>1, <2>2
<1>9. WithSealed(v, i, p, n) = [blocks |-> over, tail |-> <<>>, size |-> n]
  BY DEF WithSealed, over, b, d
<1>. QED
  BY <1>7, <1>8, <1>9 DEF b

\* A journaling commit of the tail publishes the whole file.
Published(w) ==
    /\ VersionOK(mode, w) /\ w.size = Len(file) /\ FileInv(mode, file)
    /\ DurableInv(mode, w, w, w, file, floor) /\ StoreInv(mode, w, w, sess, file, SizeOf(sess, w))

LEMMA LogBlocks ==
    ASSUME NEW m \in Modes, Logging(m), NEW v, VersionOK(m, v)
    PROVE  v \in Versions(m) /\ Len(v.blocks) \in Nat /\ Len(v.blocks) <= m.size /\ v.size \in 0 .. m.size
<1>1. v \in Versions(m) /\ v.size = Len(v.blocks) * m.chunk + Len(v.tail)
  BY DEF VersionOK
<1>2. Len(v.blocks) \in Nat /\ Len(v.tail) \in Nat /\ v.size \in 0 .. m.size
  BY <1>1 DEF Versions
<1>3. Len(v.blocks) * m.chunk \in Nat /\ Len(v.blocks) <= Len(v.blocks) * m.chunk
  BY <1>2, Starts, StartAfter
<1>. DEFINE x == Len(v.blocks) * m.chunk
<1>4. x \in Nat /\ Len(v.blocks) <= x /\ v.size = x + Len(v.tail)
  BY <1>1, <1>3
<1>. HIDE DEF x
<1>. QED
  BY <1>1, <1>2, <1>4, ModeIs

LEMMA PublishedIs ==
    ASSUME Inv, Logging(mode), tail.open, NEW w, w.size = tail.size,
           \/ w.blocks = Append(disk.blocks, tail.plain) /\ w.tail = <<>> /\ Len(tail.plain) = mode.chunk
           \/ w.blocks = disk.blocks /\ w.tail = tail.plain /\ Len(tail.plain) < mode.chunk,
           w = [blocks |-> w.blocks, tail |-> w.tail, size |-> w.size]
    PROVE  Published(w)
<1>1. /\ mode \in Modes /\ mode.chunk \in Nat /\ mode.chunk > 0 /\ mode.size \in Nat
      /\ file \in Seq(Bytes(mode)) /\ Len(file) \in Nat /\ Len(file) <= mode.size
      /\ StoreSize = SizeOf(sess, seen) /\ StoreSize \in 0 .. Len(file)
      /\ TailInv(mode, tail, file, StoreSize) /\ Shows(mode, sess, disk, file, StoreSize)
      /\ StoreInv(mode, disk, seen, sess, file, StoreSize)
      /\ JournalInv(mode, disk, tail) /\ DurableInv(mode, disk, stable, seen, file, floor)
  BY InvFacts
<1>2. sess.open = FALSE /\ seen = disk /\ SessionOK(mode, sess)
  BY <1>1 DEF StoreInv, SessionOK
<1>3. StoreSize = disk.size /\ SizeOf(sess, w) = w.size
  BY <1>1, <1>2 DEF SizeOf
<1>4. tail.idx = Len(disk.blocks) /\ VersionOK(mode, disk) /\ disk.size <= Len(file) /\ tail.size = Len(file)
  BY <1>1, <1>3 DEF JournalInv, DurableInv, TailInv
<1>5. VersionOK(mode, w) /\ Is(mode, w, file)
  <2>1. Shows(mode, sess, disk, file, disk.size) /\ TailInv(mode, tail, file, disk.size)
    BY <1>1, <1>3
  <2>. QED
    BY <1>1, <1>2, <1>4, <2>1, PublishIs
<1>6. sess = NoSess
  <2>1. sess = [open |-> sess.open, dirty |-> sess.dirty, size |-> sess.size, keep |-> sess.keep]
        /\ sess.dirty = <<>> /\ sess.size = 0 /\ sess.keep = mode.size + 1
    BY <1>2 DEF SessionOK
  <2>. QED
    BY <1>2, <2>1 DEF NoSess, NoKeep, MaxSize
<1>7. FileInv(mode, file) /\ StoreInv(mode, w, w, sess, file, w.size) /\ w.size = Len(file)
  BY <1>1, <1>5, <1>6, FreshIs
<1>8. DurableInv(mode, w, w, w, file, floor)
  <2>1. floor \in Seq(Bytes(mode)) /\ IsPrefix(floor, file)
    BY <1>1 DEF DurableInv
  <2>2. IsPrefix(file, file)
    BY <1>1, PrefixSelf
  <2>3. TextInv(mode, w, file, floor)
    BY <1>5, <2>1, <2>2 DEF TextInv
  <2>. QED
    BY <1>5, <2>1, <2>3 DEF DurableInv
<1>. QED
  BY <1>3, <1>5, <1>7, <1>8 DEF Published

\* Without a journal the tail becomes a block of the session.
LEMMA SealedSession ==
    ASSUME Inv, ~Logging(mode), tail.open, tail.plain # <<>>, NEW s, s = PutBlocks(sess, TailBlock(tail), tail.size)
    PROVE  StoreInv(mode, disk, seen, s, file, SizeOf(s, seen)) /\ SizeOf(s, seen) = Len(file)
<1>1. /\ mode \in Modes /\ file \in Seq(Bytes(mode)) /\ Len(file) \in Nat
      /\ StoreSize \in 0 .. Len(file) /\ TailInv(mode, tail, file, StoreSize)
      /\ Shows(mode, sess, seen, file, StoreSize) /\ Shows(mode, sess, disk, file, StoreSize)
      /\ StoreInv(mode, disk, seen, sess, file, StoreSize)
  BY InvFacts
<1>2. SessionOK(mode, sess) /\ tail.size = Len(file)
  BY <1>1 DEF StoreInv, TailInv
<1>3. PutOK(mode, sess, TailBlock(tail), tail.size) /\ Shows(mode, s, seen, file, Len(file))
  BY <1>1, <1>2, SealIs
<1>4. Shows(mode, s, disk, file, Len(file))
  BY <1>1, <1>2, SealIs
<1>5. SessionOK(mode, s) /\ s.open /\ s.size = Len(file)
  BY <1>1, <1>2, <1>3, PutIs
<1>6. SizeOf(s, seen) = Len(file) /\ Len(file) \in 0 .. Len(file)
  BY <1>1, <1>5 DEF SizeOf
<1>7. StoreInv(mode, disk, seen, s, file, Len(file))
  BY <1>3, <1>4, <1>5, <1>6 DEF StoreInv
<1>. QED
  BY <1>6, <1>7

LEMMA NoTailInv ==
    ASSUME NEW m \in Modes, NEW u, u = NoTail, NEW f PROVE TailInv(m, u, f, Len(f))
<1>1. m.chunk \in Nat /\ m.size \in Nat
  BY ModeIs
<1>2. u = [open |-> FALSE, idx |-> 0, plain |-> <<>>, size |-> 0, journaled |-> 0]
  BY DEF NoTail
<1>3. u = [open |-> u.open, idx |-> u.idx, plain |-> u.plain, size |-> u.size, journaled |-> u.journaled]
      /\ u.plain = <<>> /\ u.size = 0 /\ u.journaled = 0 /\ u.idx = 0 /\ u.open = FALSE
  BY <1>2
<1>4. <<>> \in Seq(Bytes(m)) /\ Len(<<>>) = 0
  OBVIOUS
<1>5. u.plain \in Seq(Bytes(m)) /\ Len(u.plain) = 0
  BY <1>3, <1>4
<1>6. u.size \in 0 .. m.size /\ u.journaled \in 0 .. Len(u.plain) /\ Len(u.plain) <= m.chunk /\ u.idx \in Nat
  BY <1>1, <1>3, <1>5
<1>7. TailOK(m, u)
  BY <1>3, <1>5, <1>6 DEF TailOK
<1>. QED
  BY <1>3, <1>7 DEF TailInv

\* Where the handler goes on once the store has the whole file.
LEMMA AfterSealIs ==
    ASSUME Inv, at = "seal", AfterSeal, NEW d,
           Logging(mode) => VersionOK(mode, d) /\ d.size = Len(file)
    PROVE  /\ TailInv(mode, tail', file, Len(file)) /\ JournalInv(mode, d, tail')
           /\ StepInv(mode, tail', at', job', file, floor)
<1>1. /\ mode \in Modes /\ mode.chunk \in Nat /\ mode.chunk > 0 /\ mode.size \in Nat
      /\ file \in Seq(Bytes(mode)) /\ Len(file) \in Nat /\ Len(file) <= mode.size
      /\ TailInv(mode, tail, file, StoreSize) /\ TailOK(mode, tail) /\ StepInv(mode, tail, at, job, file, floor)
  BY InvFacts
<1>2. /\ tail.open /\ ((AppendOK(mode, job, file) /\ Len(tail.plain) = mode.chunk) \/ ChangeOK(mode, job, file, floor))
      /\ tail.size = Len(file) /\ tail.size = tail.idx * mode.chunk + Len(tail.plain) /\ tail.idx \in Nat /\ mode.buffer
  BY <1>1 DEF StepInv, TailInv, TailOK
<1>3. ASSUME tail' = NoTail
      PROVE  TailInv(mode, tail', file, Len(file)) /\ JournalInv(mode, d, tail') /\ tail'.open = FALSE /\ Len(tail'.plain) < mode.chunk
  <2>. DEFINE u == tail'
  <2>1. u = NoTail
    BY <1>3
  <2>. HIDE DEF u
  <2>2. TailInv(mode, u, file, Len(file)) /\ u.open = FALSE /\ Len(u.plain) < mode.chunk
    BY <1>1, <2>1, NoTailIs, NoTailInv
  <2>. QED
    BY <2>2 DEF u, JournalInv
<1>4. CASE job.kind # "append"
  <2>1. tail' = NoTail /\ at' = "apply" /\ job' = job
    BY <1>4 DEF AfterSeal
  <2>2. ChangeOK(mode, job, file, floor)
    BY <1>2, <1>4 DEF AppendOK
  <2>3. StepInv(mode, tail', at', job', file, floor)
    BY <1>3, <2>1, <2>2 DEF StepInv
  <2>. QED
    BY <1>3, <2>1, <2>3
<1>5. CASE job.kind = "append" /\ job.rest = <<>>
  <2>1. tail' = NoTail /\ at' = "idle" /\ job' = NoJob
    BY <1>5 DEF AfterSeal, Done
  <2>2. StepInv(mode, tail', at', job', file, floor)
    BY <1>3, <2>1 DEF StepInv
  <2>. QED
    BY <1>3, <2>1, <2>2
<1>6. CASE job.kind = "append" /\ job.rest # <<>>
  <2>. DEFINE n == Len(file)
  <2>1. tail' = EmptyTailOf(mode, n) /\ at' = "fill" /\ job' = job
    BY <1>2, <1>6 DEF AfterSeal, EmptyTail, EmptyTailOf, C
  <2>2. AppendOK(mode, job, file) /\ Len(tail.plain) = mode.chunk
    BY <1>2, <1>6 DEF ChangeOK
  <2>3. n % mode.chunk = 0
    <3>. DEFINE q == tail.idx + 1
                x == tail.idx * mode.chunk
    <3>1. x \in Nat /\ q \in Nat /\ q * mode.chunk = x + mode.chunk /\ n = x + mode.chunk
      <4>1. x \in Nat /\ q * mode.chunk = x + mode.chunk
        BY <1>1, <1>2, Starts
      <4>2. n = x + mode.chunk
        BY <1>2, <2>2
      <4>3. tail.idx \in Nat
        BY <1>2
      <4>4. q \in Nat
        BY <4>3
      <4>. QED
        BY <4>1, <4>2, <4>4
    <3>2. q * mode.chunk <= n /\ n < q * mode.chunk + mode.chunk /\ n - q * mode.chunk = 0
      <4>. DEFINE y == q * mode.chunk
      <4>1. y = x + mode.chunk
        BY <3>1
      <4>. HIDE DEF x, y, n
      <4>2. y <= n /\ n < y + mode.chunk /\ n - y = 0
        BY <1>1, <3>1, <4>1
      <4>. QED
        BY <4>2 DEF y
    <3>. HIDE DEF q
    <3>. QED
      BY <1>1, <3>1, <3>2, DivEq
  <2>4. TailInv(mode, EmptyTailOf(mode, n), file, n) /\ Len(EmptyTailOf(mode, n).plain) < mode.chunk
    BY <1>1, <1>2, <2>3, EmptyTailIs
  <2>5. JournalInv(mode, d, EmptyTailOf(mode, n))
    <3>1. CASE Logging(mode)
      BY <1>1, <2>3, <3>1, OpenedJournal
    <3>2. CASE ~Logging(mode)
      BY <3>2 DEF JournalInv
    <3>. QED
      BY <3>1, <3>2
  <2>6. EmptyTailOf(mode, n).open = TRUE
    BY DEF EmptyTailOf
  <2>7. StepInv(mode, tail', at', job', file, floor)
    BY <2>1, <2>2, <2>4, <2>6 DEF StepInv
  <2>. QED
    BY <2>1, <2>4, <2>5, <2>7
<1>. QED
  BY <1>4, <1>5, <1>6

LEMMA SealTailStep == ASSUME Supported(Modes), Inv, mode' = mode, SealTail PROVE Inv'
<1>1. /\ mode \in Modes /\ mode.chunk \in Nat /\ mode.chunk > 0 /\ mode.size \in Nat
      /\ file \in Seq(Bytes(mode)) /\ Len(file) \in Nat /\ Len(file) <= mode.size
      /\ StoreSize = SizeOf(sess, seen) /\ StoreSize \in 0 .. Len(file)
      /\ TailInv(mode, tail, file, StoreSize) /\ TailOK(mode, tail) /\ StepInv(mode, tail, at, job, file, floor)
      /\ JournalInv(mode, disk, tail) /\ DurableInv(mode, disk, stable, seen, file, floor)
  BY InvFacts
<1>2. at = "seal" /\ UNCHANGED <<file, floor>>
  BY DEF SealTail
<1>3. /\ tail.open /\ tail.plain # <<>> /\ tail.size = Len(file) /\ mode.buffer /\ tail.plain \in Seq(Bytes(mode))
      /\ (AppendOK(mode, job, file) /\ Len(tail.plain) = mode.chunk) \/ ChangeOK(mode, job, file, floor)
  BY <1>1, <1>2 DEF StepInv, TailInv, TailOK
<1>4. FileInv(mode, file)
  BY <1>1 DEF FileInv
<1>5. CASE Logging(mode)
  <2>. DEFINE w == WithSealed(disk, tail.idx, tail.plain, tail.size)
  <2>1. disk' = w /\ stable' = w /\ seen' = w /\ AfterSeal /\ sess' = sess
    <3>1. "seal" \notin Faults
      BY <1>1, <1>5 DEF Supported, Logging, Faults
    <3>. QED
      BY <1>5, <3>1 DEF SealTail, Committed, TailJournal, Logging
  <2>2. tail.idx = Len(disk.blocks) /\ VersionOK(mode, disk)
    BY <1>1, <1>3, <1>5 DEF JournalInv, DurableInv
  <2>3. disk \in Versions(mode) /\ Len(disk.blocks) \in Nat /\ Len(disk.blocks) <= mode.size
    BY <1>1, <1>5, <2>2, LogBlocks
  <2>4. w.blocks = Append(disk.blocks, tail.plain) /\ w.tail = <<>> /\ w.size = tail.size
    BY <1>1, <1>3, <2>2, <2>3, SealedIs
  <2>5. w = [blocks |-> w.blocks, tail |-> w.tail, size |-> w.size]
    BY DEF WithSealed
  <2>6. Len(tail.plain) = mode.chunk
    BY <1>3, <1>5 DEF ChangeOK
  <2>. HIDE DEF w
  <2>7. Published(w)
    BY <1>3, <1>5, <2>4, <2>5, <2>6, PublishedIs
  <2>8. VersionOK(mode, w) /\ w.size = Len(file) /\ SizeOf(sess, w) = Len(file)
        /\ DurableInv(mode, w, w, w, file, floor) /\ StoreInv(mode, w, w, sess, file, SizeOf(sess, w))
    <3>1. sess.open = FALSE
      BY <1>5, InvFacts DEF StoreInv, SessionOK
    <3>. QED
      BY <2>7, <3>1 DEF Published, SizeOf
  <2>9. TailInv(mode, tail', file, Len(file)) /\ JournalInv(mode, w, tail') /\ StepInv(mode, tail', at', job', file, floor)
    BY <1>2, <2>1, <2>8, AfterSealIs
  <2>10. Ready(mode, disk', stable', seen', sess', tail', at', job', file', floor')
    BY <1>1, <1>2, <1>4, <2>1, <2>8, <2>9 DEF Ready
  <2>. QED
    BY <2>10, InvNext
<1>6. CASE ~Logging(mode)
  <2>. DEFINE s == PutBlocks(sess, TailBlock(tail), tail.size)
  <2>1. sess' = s /\ AfterSeal /\ UNCHANGED <<disk, stable, seen>>
    BY <1>3, <1>6 DEF SealTail, TailJournal, Logging, archive, TailBlock
  <2>. HIDE DEF s
  <2>2. StoreInv(mode, disk, seen, s, file, SizeOf(s, seen)) /\ SizeOf(s, seen) = Len(file)
    BY <1>3, <1>6, SealedSession DEF s
  <2>3. TailInv(mode, tail', file, Len(file)) /\ JournalInv(mode, disk, tail') /\ StepInv(mode, tail', at', job', file, floor)
    BY <1>2, <1>6, <2>1, AfterSealIs
  <2>4. Ready(mode, disk', stable', seen', sess', tail', at', job', file', floor')
    BY <1>1, <1>2, <1>4, <2>1, <2>2, <2>3 DEF Ready
  <2>. QED
    BY <2>4, InvNext
<1>. QED
  BY <1>5, <1>6

\* An empty open tail is aligned, and then the store has the whole file.
LEMMA EmptyIs ==
    ASSUME NEW m \in Modes, NEW f, NEW n \in 0 .. Len(f), Len(f) \in Nat, NEW t, TailInv(m, t, f, n)
    PROVE  /\ t.open /\ t.plain = <<>> => t.size % m.chunk = 0 /\ n = Len(f)
           /\ ~t.open => n = Len(f)
<1>1. ASSUME t.open, t.plain = <<>> PROVE t.size % m.chunk = 0 /\ n = Len(f)
  <2>. DEFINE x == t.idx * m.chunk
  <2>1. t.idx \in Nat /\ m.chunk \in Nat /\ m.chunk > 0 /\ x \in Nat
    BY ModeIs, Starts DEF TailInv, TailOK
  <2>2. t.size = Len(f) /\ t.size = x + Len(t.plain) /\ x <= n
    BY <1>1 DEF TailInv
  <2>3. Len(t.plain) = 0
    BY <1>1
  <2>4. x = Len(f) /\ n = Len(f) /\ t.size = x
    <3>. HIDE DEF x
    <3>. QED
      BY <2>1, <2>2, <2>3
  <2>5. x <= t.size /\ t.size < x + m.chunk /\ t.size - x = 0 /\ t.size \in Nat
    <3>. HIDE DEF x
    <3>. QED
      BY <2>1, <2>4
  <2>6. t.size % m.chunk = 0
    BY <2>1, <2>5, DivEq
  <2>. QED
    BY <2>4, <2>6
<1>. QED
  BY <1>1 DEF TailInv

\* A change begins with the open tail sealed, or with none.
LEMMA ChangeStarts ==
    ASSUME Inv, at = "idle", NEW j, NEW a, NEW t, a = (IF NeedsSeal THEN "seal" ELSE "apply"),
           t = (IF NeedsSeal THEN tail ELSE NoTail), ChangeOK(mode, j, file, <<>>)
    PROVE  /\ TailInv(mode, t, file, StoreSize) /\ JournalInv(mode, disk, t) /\ StepInv(mode, t, a, j, file, <<>>)
<1>1. /\ mode \in Modes /\ mode.chunk \in Nat /\ mode.chunk > 0 /\ mode.size \in Nat
      /\ file \in Seq(Bytes(mode)) /\ Len(file) \in Nat /\ StoreSize \in 0 .. Len(file)
      /\ TailInv(mode, tail, file, StoreSize) /\ TailOK(mode, tail) /\ StepInv(mode, tail, at, job, file, floor)
      /\ JournalInv(mode, disk, tail)
  BY InvFacts
<1>2. CASE NeedsSeal
  <2>1. tail.open /\ tail.plain # <<>>
    <3>1. tail.open /\ ~(tail.plain = <<>> /\ tail.size % mode.chunk = 0)
      BY <1>2 DEF NeedsSeal, TailIsEmpty, C
    <3>2. tail.plain = <<>> => tail.size % mode.chunk = 0
      BY <1>1, <3>1, EmptyIs
    <3>. QED
      BY <3>1, <3>2
  <2>2. a = "seal" /\ t = tail
    BY <1>2
  <2>. QED
    BY <1>1, <2>1, <2>2 DEF StepInv
<1>3. CASE ~NeedsSeal
  <2>1. a = "apply" /\ t = NoTail
    BY <1>3
  <2>2. StoreSize = Len(file)
    <3>1. ~tail.open \/ tail.plain = <<>>
      BY <1>3 DEF NeedsSeal, TailIsEmpty
    <3>. QED
      BY <1>1, <3>1, EmptyIs DEF TailOK
  <2>3. TailInv(mode, t, file, Len(file)) /\ t.open = FALSE
    BY <1>1, <2>1, NoTailInv, NoTailIs
  <2>4. JournalInv(mode, disk, t)
    BY <2>3 DEF JournalInv
  <2>5. StepInv(mode, t, a, j, file, <<>>)
    BY <2>1, <2>3 DEF StepInv
  <2>. QED
    BY <2>2, <2>3, <2>4, <2>5
<1>. QED
  BY <1>2, <1>3

\* A change that nothing was promised about any more.
LEMMA ForgetFloor ==
    ASSUME NEW m, NEW d, NEW st, NEW se, NEW f, NEW fl, DurableInv(m, d, st, se, f, fl), f \in Seq(Bytes(m))
    PROVE  DurableInv(m, d, st, se, f, <<>>)
<1>1. <<>> \in Seq(Bytes(m)) /\ IsPrefix(<<>>, f)
  BY PrefixSelf
<1>2. ASSUME NEW v, TextInv(m, v, f, fl) PROVE TextInv(m, v, f, <<>>)
  <2>1. PICK g : Is(m, v, g) /\ (AppendOnly(m) => IsPrefix(g, f))
    BY <1>2 DEF TextInv
  <2>2. IsPrefix(<<>>, g)
    BY <2>1, PrefixSelf DEF Is
  <2>. QED
    BY <2>1, <2>2 DEF TextInv
<1>. QED
  BY <1>1, <1>2 DEF DurableInv

\* Writes and truncations come with neither a tail journal nor a promise.
LEMMA StartChange ==
    ASSUME Inv, mode' = mode, at = "idle", UNCHANGED <<disk, stable, seen, sess, file>>, floor' = <<>>,
           at' = (IF NeedsSeal THEN "seal" ELSE "apply"), tail' = (IF NeedsSeal THEN tail ELSE NoTail),
           ChangeOK(mode, job', file, <<>>)
    PROVE  Inv'
<1>1. /\ mode \in Modes /\ file \in Seq(Bytes(mode)) /\ Len(file) <= mode.size /\ StoreSize = SizeOf(sess, seen)
      /\ StoreInv(mode, disk, seen, sess, file, StoreSize) /\ DurableInv(mode, disk, stable, seen, file, floor)
  BY InvFacts
<1>2. TailInv(mode, tail', file, StoreSize) /\ JournalInv(mode, disk, tail') /\ StepInv(mode, tail', at', job', file, <<>>)
  BY ChangeStarts
<1>3. DurableInv(mode, disk, stable, seen, file, <<>>)
  BY <1>1, ForgetFloor
<1>4. FileInv(mode, file)
  BY <1>1 DEF FileInv
<1>5. Ready(mode, disk', stable', seen', sess', tail', at', job', file', floor')
  BY <1>1, <1>2, <1>3, <1>4 DEF Ready
<1>. QED
  BY <1>5, InvNext

LEMMA NoLog ==
    ASSUME Supported(Modes), mode \in Modes, NEW op \in {"write", "sparse", "truncate", "grow"}, op \in Ops
    PROVE  ~Logging(mode) /\ ~AppendOnly(mode)
  BY DEF Supported, Logging, Ops, AppendOnly

LEMMA StartWriteStep ==
    ASSUME Supported(Modes), Inv, mode' = mode, NEW off \in 0 .. MaxSize, NEW data \in Data, StartWrite(off, data)
    PROVE  Inv'
<1>1. /\ mode \in Modes /\ mode.chunk \in Nat /\ mode.size \in Nat /\ FileSize = Len(file)
  BY InvFacts
<1>2. /\ at = "idle" /\ off + Len(data) <= mode.size
      /\ tail' = (IF NeedsSeal THEN tail ELSE NoTail) /\ at' = (IF NeedsSeal THEN "seal" ELSE "apply")
      /\ job' = [kind |-> "write", off |-> off, data |-> data] /\ floor' = <<>>
      /\ UNCHANGED <<disk, stable, seen, sess, file>>
  BY DEF StartWrite, MaxSize, archive
<1>3. ~SkipsShortBlock(off) /\ ~Logging(mode) /\ ~AppendOnly(mode)
  <2>1. (IF SkipsShortBlock(off) THEN "hole" ELSE IF off > FileSize THEN "sparse" ELSE "write") \in Ops
    BY DEF StartWrite
  <2>2. "hole" \notin Ops
    BY <1>1 DEF Supported, Ops
  <2>. QED
    BY <1>1, <2>1, <2>2, NoLog
<1>4. Len(file) % mode.chunk = 0 \/ off \div mode.chunk <= Len(file) \div mode.chunk
  <2>1. Len(file) % mode.chunk = 0 \/ ~(off \div mode.chunk > Len(file) \div mode.chunk)
    BY <1>1, <1>3 DEF SkipsShortBlock, C
  <2>2. off \div mode.chunk \in Nat /\ Len(file) \div mode.chunk \in Nat
    BY <1>1, DivIs, InvFacts DEF MaxSize
  <2>. QED
    BY <2>1, <2>2
<1>5. data \in Seq(Bytes(mode)) /\ data # <<>> /\ off \in Nat
  BY <1>1, DataIs DEF MaxSize
<1>6. ChangeOK(mode, job', file, <<>>)
  <2>1. job'.kind = "write" /\ job'.off = off /\ job'.data = data
    BY <1>2
  <2>. QED
    BY <1>2, <1>3, <1>4, <1>5, <2>1 DEF ChangeOK
<1>. QED
  BY <1>2, <1>6, StartChange

LEMMA StartTruncateStep ==
    ASSUME Supported(Modes), Inv, mode' = mode, NEW n \in 0 .. MaxSize, StartTruncate(n)
    PROVE  Inv'
<1>1. mode \in Modes /\ mode.size \in Nat
  BY InvFacts
<1>2. /\ at = "idle"
      /\ tail' = (IF NeedsSeal THEN tail ELSE NoTail) /\ at' = (IF NeedsSeal THEN "seal" ELSE "apply")
      /\ job' = [kind |-> "truncate", size |-> n] /\ floor' = <<>>
      /\ UNCHANGED <<disk, stable, seen, sess, file>>
  BY DEF StartTruncate, archive
<1>3. ~Logging(mode) /\ ~AppendOnly(mode)
  BY <1>1, NoLog DEF StartTruncate
<1>4. ChangeOK(mode, job', file, <<>>)
  <2>1. job'.kind = "truncate" /\ job'.size = n /\ n \in 0 .. mode.size
    BY <1>2 DEF MaxSize
  <2>. QED
    BY <1>2, <1>3, <2>1 DEF ChangeOK
<1>. QED
  BY <1>2, <1>4, StartChange

\* A change may make of the file what it wants: nothing was promised about it.
LEMMA ChangedText ==
    ASSUME NEW m, NEW d, NEW st, NEW se, NEW f, NEW g, DurableInv(m, d, st, se, f, <<>>), ~AppendOnly(m), g \in Seq(Bytes(m))
    PROVE  DurableInv(m, d, st, se, g, <<>>)
<1>1. IsPrefix(<<>>, g)
  BY PrefixSelf
<1>2. ASSUME NEW v, TextInv(m, v, f, <<>>) PROVE TextInv(m, v, g, <<>>)
  BY <1>2 DEF TextInv
<1>. QED
  BY <1>1, <1>2 DEF DurableInv

\* The state a change leaves.
ChangeDone(s, t, g) ==
    /\ g \in Seq(Bytes(mode)) /\ Len(g) <= mode.size
    /\ SessionOK(mode, s) /\ SizeOf(s, seen) = Len(g)
    /\ ~s.open => seen = disk
    /\ Shows(mode, s, seen, g, Len(g)) /\ Shows(mode, s, disk, g, Len(g))
    /\ TailInv(mode, t, g, Len(g)) /\ Len(t.plain) < mode.chunk

LEMMA ChangeEnds ==
    ASSUME Inv, mode' = mode, ~Logging(mode), ~AppendOnly(mode), floor = <<>>,
           UNCHANGED <<disk, stable, seen, floor>>, at' = "idle", job' = NoJob, ChangeDone(sess', tail', file')
    PROVE  Inv'
<1>. DEFINE s == sess'
            t == tail'
            g == file'
<1>1. mode \in Modes /\ DurableInv(mode, disk, stable, seen, file, <<>>)
  BY InvFacts
<1>2. ChangeDone(s, t, g)
  OBVIOUS
<1>. HIDE DEF s, t, g
<1>3. DurableInv(mode, disk, stable, seen, g, <<>>)
  BY <1>1, <1>2, ChangedText DEF ChangeDone
<1>4. FileInv(mode, g)
  BY <1>2 DEF FileInv, ChangeDone
<1>5. StoreInv(mode, disk, seen, s, g, SizeOf(s, seen))
  <2>1. Len(g) \in Nat
    BY <1>2 DEF ChangeDone
  <2>2. Len(g) \in 0 .. Len(g)
    BY <2>1
  <2>. QED
    BY <1>2, <2>2 DEF StoreInv, ChangeDone
<1>6. TailInv(mode, t, g, SizeOf(s, seen)) /\ JournalInv(mode, disk, t) /\ StepInv(mode, t, "idle", NoJob, g, <<>>)
  BY <1>2 DEF ChangeDone, JournalInv, StepInv
<1>7. Ready(mode, disk, stable, seen, s, t, "idle", NoJob, g, <<>>)
  BY <1>1, <1>3, <1>4, <1>5, <1>6 DEF Ready
<1>8. Ready(mode, disk', stable', seen', sess', tail', at', job', file', floor')
  BY <1>7 DEF s, t, g
<1>. QED
  BY <1>8, InvNext

\* A change finds no tail, so the store shows the file.
LEMMA ApplyFacts ==
    ASSUME Inv, at = "apply"
    PROVE  /\ tail.open = FALSE /\ tail = NoTail /\ StoreSize = Len(file)
           /\ ~Logging(mode) /\ ~AppendOnly(mode) /\ floor = <<>> /\ ChangeOK(mode, job, file, floor)
           /\ FileInv(mode, file)
<1>1. TailInv(mode, tail, file, StoreSize) /\ TailOK(mode, tail) /\ StepInv(mode, tail, at, job, file, floor)
  BY InvFacts
<1>2. ~tail.open /\ ChangeOK(mode, job, file, floor)
  BY <1>1 DEF StepInv
<1>. QED
  BY <1>1, <1>2 DEF TailInv, TailOK, ChangeOK, Inv

\* The tail that refill_tail_from_store takes from session s.
LEMMA RefilledIs ==
    ASSUME mode \in Modes, NEW g \in Seq(Bytes(mode)), Len(g) <= mode.size, NEW s, s.open, s.size = Len(g), Shows(mode, s, seen, g, Len(g))
    PROVE  TailInv(mode, RefilledTail(s), g, Len(g)) /\ Len(RefilledTail(s).plain) < mode.chunk
<1>. DEFINE n == Len(g)
            b == SessionBlock(s, n \div mode.chunk)
<1>1. n \in Nat /\ n <= mode.size
  OBVIOUS
<1>2. CASE ~TailBuffer \/ s.size % mode.chunk = 0
  <2>. DEFINE u == RefilledTail(s)
  <2>1. u = NoTail
    BY <1>2 DEF RefilledTail, C
  <2>. HIDE DEF u
  <2>2. TailInv(mode, u, g, Len(g)) /\ Len(u.plain) < mode.chunk
    BY <2>1, NoTailInv, NoTailIs
  <2>. QED
    BY <2>2 DEF u
<1>3. CASE TailBuffer /\ s.size % mode.chunk # 0
  <2>1. n \div mode.chunk \in Nat
    BY <1>1, DivIs
  <2>2. SessionBlock(s, n \div mode.chunk) = Under(s, seen, n \div mode.chunk)
    BY DEF SessionBlock, Under
  <2>3. HoldsTo(mode, b, g, n, n \div mode.chunk)
    BY <2>1, <2>2 DEF Shows
  <2>4. RefilledTail(s) = LoadedTailOf(mode, b, n)
    BY <1>3 DEF RefilledTail, LoadedTail, LoadedTailOf, C
  <2>5. mode.buffer
    BY <1>3 DEF TailBuffer
  <2>. HIDE DEF b
  <2>6. TailInv(mode, LoadedTailOf(mode, b, n), g, n) /\ Len(LoadedTailOf(mode, b, n).plain) < mode.chunk
    BY <1>1, <2>3, <2>5, LoadedTailIs
  <2>. QED
    BY <2>4, <2>6
<1>. QED
  BY <1>2, <1>3 DEF C

LEMMA ApplyWriteStep == ASSUME Inv, mode' = mode, ApplyWrite PROVE Inv'
<1>1. /\ mode \in Modes /\ mode.chunk \in Nat /\ mode.size \in Nat /\ file \in Seq(Bytes(mode)) /\ Len(file) \in Nat
      /\ Len(file) <= mode.size /\ StoreInv(mode, disk, seen, sess, file, StoreSize)
  BY InvFacts
<1>2. /\ at = "apply" /\ job.kind = "write" /\ at' = "idle" /\ job' = NoJob /\ UNCHANGED <<disk, stable, seen, floor>>
      /\ sess' = Rewritten(job.off, job.data) /\ tail' = RefilledTail(sess')
      /\ file' = [k \in 1 .. Max2(Len(file), job.off + Len(job.data)) |->
                       IF k > job.off /\ k <= job.off + Len(job.data) THEN job.data[k - job.off]
                       ELSE IF k <= Len(file) THEN file[k] ELSE 0]
  BY DEF ApplyWrite, Done, archive
<1>3. /\ StoreSize = Len(file) /\ ~Logging(mode) /\ ~AppendOnly(mode) /\ floor = <<>> /\ ChangeOK(mode, job, file, floor)
      /\ FileInv(mode, file)
  BY <1>2, ApplyFacts
<1>. DEFINE off  == job.off
            data == job.data
<1>4. /\ off \in Nat /\ data \in Seq(Bytes(mode)) /\ data # <<>> /\ off + Len(data) <= mode.size
      /\ Len(file) % mode.chunk = 0 \/ off \div mode.chunk <= Len(file) \div mode.chunk
  BY <1>2, <1>3 DEF ChangeOK
<1>5. file' = NewFile(file, off, data)
  BY <1>2 DEF NewFile, NewSize, EndOf, Max2
<1>6. sess' = Rewritten(off, data) /\ tail' = RefilledTail(Rewritten(off, data))
  BY <1>2
<1>. HIDE DEF off, data
<1>. DEFINE s == Rewritten(off, data)
            g == NewFile(file, off, data)
<1>7. WriteOK(mode, file, off, data) /\ EndOf(off, data) <= mode.size
  BY <1>1, <1>4 DEF WriteOK, EndOf
<1>8. SessionOK(mode, s) /\ s.open /\ s.size = NewSize(Len(file), off, data)
      /\ \A v \in {seen, disk} : Shows(mode, s, v, g, NewSize(Len(file), off, data))
  BY <1>1, <1>3, <1>4, <1>7, RewrittenIs
<1>9. g \in Seq(Bytes(mode)) /\ Len(g) = NewSize(Len(file), off, data) /\ Len(g) <= mode.size
  <2>1. g \in Seq(Bytes(mode)) /\ Len(g) = NewSize(Len(file), off, data)
    BY <1>1, <1>7, NewFileIs
  <2>2. NewSize(Len(file), off, data) <= mode.size
    BY <1>1, <1>7 DEF NewSize
  <2>. QED
    BY <2>1, <2>2
<1>. HIDE DEF s, g
<1>10. Shows(mode, s, seen, g, Len(g)) /\ Shows(mode, s, disk, g, Len(g)) /\ s.size = Len(g)
  BY <1>8, <1>9
<1>11. TailInv(mode, RefilledTail(s), g, Len(g)) /\ Len(RefilledTail(s).plain) < mode.chunk
  BY <1>1, <1>8, <1>9, <1>10, RefilledIs
<1>12. ChangeDone(s, RefilledTail(s), g)
  BY <1>8, <1>9, <1>10, <1>11 DEF ChangeDone, SizeOf
<1>13. ChangeDone(sess', tail', file')
  BY <1>5, <1>6, <1>12 DEF s, g
<1>. QED
  BY <1>2, <1>3, <1>13, ChangeEnds

LEMMA ApplyTruncateStep == ASSUME Inv, mode' = mode, ApplyTruncate PROVE Inv'
<1>1. /\ mode \in Modes /\ mode.chunk \in Nat /\ mode.size \in Nat /\ file \in Seq(Bytes(mode)) /\ Len(file) \in Nat
      /\ Len(file) <= mode.size /\ StoreInv(mode, disk, seen, sess, file, StoreSize)
  BY InvFacts
<1>2. /\ at = "apply" /\ job.kind = "truncate" /\ at' = "idle" /\ job' = NoJob /\ UNCHANGED <<disk, stable, seen, floor>>
      /\ sess' = (IF job.size < StoreSize THEN Cut(job.size) ELSE IF job.size > StoreSize THEN Grown(job.size) ELSE sess)
      /\ tail' = tail /\ file' = Resized(file, job.size)
  BY DEF ApplyTruncate, Done, archive
<1>3. /\ StoreSize = Len(file) /\ ~Logging(mode) /\ ~AppendOnly(mode) /\ floor = <<>> /\ ChangeOK(mode, job, file, floor)
      /\ FileInv(mode, file) /\ tail = NoTail
  BY <1>2, ApplyFacts
<1>. DEFINE n == job.size
            g == Resized(file, n)
            s == IF n < StoreSize THEN Cut(n) ELSE IF n > StoreSize THEN Grown(n) ELSE sess
<1>4. n \in 0 .. mode.size
  BY <1>2, <1>3 DEF ChangeOK
<1>. HIDE DEF n
<1>5. StoreHolds(n) /\ n \in Nat
  BY <1>1, <1>3, <1>4 DEF StoreHolds
<1>6. g \in Seq(Bytes(mode)) /\ Len(g) = n
  <2>1. 0 \in Bytes(mode)
    BY DEF Bytes
  <2>. QED
    BY <1>1, <1>5, <2>1, ResizedIs
<1>7. SessionOK(mode, s) /\ SizeOf(s, seen) = n /\ (~s.open => seen = disk)
      /\ Shows(mode, s, seen, g, n) /\ Shows(mode, s, disk, g, n)
  <2>1. CASE n # Len(file)
    <3>1. Changed(s, n)
      <4>1. CASE n < Len(file)
        BY <1>3, <1>5, <4>1, CutIs
      <4>2. CASE n > Len(file)
        <5>1. ~(n < Len(file))
          BY <1>1, <1>5, <4>2
        <5>. QED
          BY <1>3, <1>5, <4>2, <5>1, GrownIs
      <4>. QED
        BY <1>1, <1>5, <2>1, <4>1, <4>2
    <3>. QED
      BY <3>1 DEF Changed, SizeOf
  <2>2. CASE n = Len(file)
    <3>1. s = sess
      BY <1>1, <1>3, <2>2
    <3>2. g = file
      <4>1. \A k \in 1 .. n : g[k] = file[k]
        <5>1. 0 \in Bytes(mode)
          BY DEF Bytes
        <5>2. \A k \in 1 .. n : g[k] = IF k <= Len(file) THEN file[k] ELSE 0
          BY <1>1, <1>5, <5>1, ResizedIs
        <5>. QED
          BY <1>1, <2>2, <5>2
      <4>. HIDE DEF g
      <4>. QED
        BY <1>1, <1>6, <2>2, <4>1
    <3>3. SessionOK(mode, sess) /\ (~sess.open => seen = disk) /\ Shows(mode, sess, seen, file, StoreSize)
          /\ Shows(mode, sess, disk, file, StoreSize)
      BY <1>1 DEF StoreInv
    <3>4. SizeOf(sess, seen) = StoreSize
      BY InvFacts
    <3>. QED
      BY <1>3, <2>2, <3>1, <3>2, <3>3, <3>4
  <2>. QED
    BY <2>1, <2>2
<1>. HIDE DEF s, g
<1>8. TailInv(mode, tail, g, Len(g)) /\ Len(tail.plain) < mode.chunk
  BY <1>1, <1>3, NoTailInv, NoTailIs
<1>9. ChangeDone(s, tail, g)
  BY <1>4, <1>6, <1>7, <1>8 DEF ChangeDone
<1>10. ChangeDone(sess', tail', file')
  BY <1>2, <1>9 DEF s, g, n
<1>. QED
  BY <1>2, <1>3, <1>10, ChangeEnds

LEMMA StartSyncStep ==
    ASSUME Inv, mode' = mode, NEW kind \in {"fsync", "release", "forget"}, StartSync(kind) PROVE Inv'
<1>1. /\ at = "idle" /\ at' = "journal" /\ job' = [kind |-> kind] /\ tail' = tail
      /\ UNCHANGED <<disk, stable, seen, sess, file, floor>>
  BY DEF StartSync, archive
<1>2. TailInv(mode, tail, file, StoreSize) /\ JournalInv(mode, disk, tail) /\ StepInv(mode, tail, at, job, file, floor)
  BY InvFacts
<1>3. StepInv(mode, tail', at', job', file, floor)
  BY <1>1, <1>2 DEF StepInv, Syncs
<1>. QED
  BY <1>1, <1>2, <1>3, TailOnly

\* A commit that publishes nothing, of a store without a session.
LEMMA DurableFails ==
    ASSUME NEW m, NEW d, NEW st, NEW se, NEW f, NEW fl, DurableInv(m, d, st, se, f, fl), NEW st2 \in {st, d}, NEW se2 \in {se, d}
    PROVE  DurableInv(m, d, st2, se2, f, fl)
  BY DEF DurableInv

\* What is appended to the journal makes it the whole tail.
LEMMA AppendedIs ==
    ASSUME NEW S, NEW p \in Seq(S), NEW j \in 0 .. Len(p)
    PROVE  SubSeq(p, 1, j) \o SubSeq(p, j + 1, Len(p)) = p
<1>. DEFINE a == SubSeq(p, 1, j)
            b == SubSeq(p, j + 1, Len(p))
            l == Len(p)
<1>1. j \in Nat /\ l \in Nat /\ j <= l
  OBVIOUS
<1>2. a \in Seq(S) /\ Len(a) = j /\ \A k \in 1 .. j : a[k] = p[k]
  BY <1>1
<1>3. b \in Seq(S) /\ Len(b) = l - j /\ \A k \in 1 .. l - j : b[k] = p[j + k]
  <2>1. b \in Seq(S) /\ Len(b) = l - j
    BY <1>1
  <2>2. ASSUME NEW k \in 1 .. l - j PROVE b[k] = p[j + k]
    <3>1. k \in Nat /\ k >= 1 /\ j + 1 + k - 1 = j + k
      BY <1>1
    <3>2. b[k] = p[j + 1 + k - 1]
      BY <1>1
    <3>. QED
      BY <3>1, <3>2
  <2>3. \A k \in 1 .. l - j : b[k] = p[j + k]
    BY <2>2
  <2>. QED
    BY <2>1, <2>3
<1>. HIDE DEF a, b, l
<1>4. a \o b \in Seq(S) /\ Len(a \o b) = l /\ \A k \in 1 .. l : (a \o b)[k] = p[k]
  <2>1. a \o b \in Seq(S) /\ Len(a \o b) = Len(a) + Len(b)
        /\ \A k \in 1 .. Len(a) + Len(b) : (a \o b)[k] = IF k <= Len(a) THEN a[k] ELSE b[k - Len(a)]
    BY <1>2, <1>3, ConcatIs
  <2>2. Len(a) + Len(b) = l
    BY <1>1, <1>2, <1>3
  <2>3. ASSUME NEW k \in 1 .. l PROVE (a \o b)[k] = p[k]
    <3>1. k \in Nat /\ k >= 1 /\ k <= l
      BY <1>1
    <3>2. CASE k <= j
      BY <1>1, <1>2, <2>1, <2>2, <3>1, <3>2
    <3>3. CASE ~(k <= j)
      <4>. DEFINE q == k - j
      <4>1. q \in 1 .. l - j /\ j + q = k
        BY <1>1, <3>1, <3>3
      <4>2. (a \o b)[k] = b[q]
        BY <1>2, <2>1, <2>2, <3>3
      <4>. HIDE DEF q
      <4>3. b[q] = p[j + q]
        BY <1>3, <4>1
      <4>. QED
        BY <4>1, <4>2, <4>3
    <3>. QED
      BY <3>2, <3>3
  <2>. QED
    BY <2>1, <2>2, <2>3
<1>5. Len(p) = l /\ p = [k \in 1 .. l |-> p[k]]
  BY SeqIsFun DEF l
<1>. DEFINE c == a \o b
<1>6. c \in Seq(S) /\ Len(c) = l /\ \A k \in 1 .. l : c[k] = p[k]
  BY <1>4
<1>. HIDE DEF c
<1>7. c = [k \in 1 .. l |-> c[k]]
  BY <1>6, SeqIsFun
<1>8. c = p
  BY <1>5, <1>6, <1>7
<1>. QED
  BY <1>8 DEF a, b, c, l

Journaled(t) == [t EXCEPT !.journaled = Len(t.plain)]

\* The tail once its journal has all of it.
LEMMA JournaledIs ==
    ASSUME NEW m \in Modes, NEW f \in Seq(Bytes(m)), NEW n \in 0 .. Len(f), NEW t, TailInv(m, t, f, n), t.open,
           NEW u, u = Journaled(t)
    PROVE  /\ TailInv(m, u, f, Len(f)) /\ u.open /\ u.plain = t.plain /\ u.journaled = Len(u.plain)
           /\ \A v : v.tail = t.plain /\ t.idx = Len(v.blocks) => JournalInv(m, v, u)
<1>1. /\ t = [open |-> t.open, idx |-> t.idx, plain |-> t.plain, size |-> t.size, journaled |-> t.journaled]
      /\ t.plain \in Seq(Bytes(m)) /\ t.size \in 0 .. m.size /\ t.idx \in Nat /\ Len(t.plain) <= m.chunk /\ Len(t.plain) \in Nat
      /\ t.open \in BOOLEAN
  BY DEF TailInv, TailOK
<1>2. /\ m.buffer /\ t.size = Len(f) /\ t.size = t.idx * m.chunk + Len(t.plain) /\ t.idx * m.chunk <= n
      /\ \A k \in 1 .. Len(t.plain) : f[t.idx * m.chunk + k] = t.plain[k]
  BY DEF TailInv
<1>3. /\ u.open = t.open /\ u.idx = t.idx /\ u.plain = t.plain /\ u.size = t.size /\ u.journaled = Len(t.plain)
      /\ u = [open |-> u.open, idx |-> u.idx, plain |-> u.plain, size |-> u.size, journaled |-> u.journaled]
  BY <1>1 DEF Journaled
<1>4. TailOK(m, u)
  <2>1. u.journaled \in 0 .. Len(u.plain)
    BY <1>1, <1>3
  <2>. QED
    BY <1>1, <1>3, <2>1 DEF TailOK
<1>5. t.idx * m.chunk <= Len(f)
  <2>. DEFINE x == t.idx * m.chunk
  <2>1. x \in Nat /\ x <= n
    BY <1>1, <1>2, Starts
  <2>. HIDE DEF x
  <2>2. x <= Len(f)
    BY <2>1
  <2>. QED
    BY <2>2 DEF x
<1>6. TailInv(m, u, f, Len(f))
  BY <1>2, <1>3, <1>4, <1>5 DEF TailInv
<1>7. SubSeq(t.plain, 1, Len(t.plain)) = t.plain
  <2>. DEFINE p == t.plain
  <2>1. p \in Seq(Bytes(m))
    BY <1>1
  <2>. HIDE DEF p
  <2>2. SubSeq(p, 1, Len(p)) = p
    BY <2>1
  <2>. QED
    BY <2>2 DEF p
<1>8. ASSUME NEW v, v.tail = t.plain, t.idx = Len(v.blocks) PROVE JournalInv(m, v, u)
  BY <1>3, <1>7, <1>8 DEF JournalInv
<1>. QED
  BY <1>3, <1>6, <1>8

\* The only commits that fail where a journal is kept publish nothing.
LEMMA FailedLog ==
    ASSUME Supported(Modes), Inv, Logging(mode), NEW v, CommitFailed(v)
    PROVE  disk' = disk /\ stable' \in {stable, disk} /\ seen' = disk
<1>1. mode \in Modes /\ seen = disk
  <2>1. StoreInv(mode, disk, seen, sess, file, StoreSize) /\ mode \in Modes
    BY InvFacts
  <2>. QED
    BY <2>1 DEF StoreInv
<1>2. "after" \notin Faults
  BY <1>1 DEF Supported, Logging, Faults
<1>3. disk' = disk /\ stable' \in {stable, disk}
  BY <1>2 DEF CommitFailed
<1>4. seen' \in {disk', seen}
  BY DEF CommitFailed
<1>. QED
  BY <1>1, <1>3, <1>4

\* The journaling commit: the tail stays open, with all of it journaled.
LEMMA JournalCommitted ==
    ASSUME Inv, mode' = mode, at = "journal", Logging(mode), tail.open, NEW w, w = WithAppended(disk, Unjournaled, tail.size),
           disk' = w, stable' = w, seen' = w, tail' = Journaled(tail), at' = "commit", job' = job,
           UNCHANGED <<sess, file, floor>>
    PROVE  Inv'
<1>1. /\ mode \in Modes /\ mode.chunk \in Nat /\ file \in Seq(Bytes(mode)) /\ Len(file) \in Nat /\ StoreSize \in 0 .. Len(file)
      /\ TailInv(mode, tail, file, StoreSize) /\ TailOK(mode, tail) /\ StepInv(mode, tail, at, job, file, floor)
      /\ JournalInv(mode, disk, tail) /\ DurableInv(mode, disk, stable, seen, file, floor)
      /\ StoreInv(mode, disk, seen, sess, file, StoreSize)
  BY InvFacts
<1>2. /\ Len(tail.plain) < mode.chunk /\ job \in Syncs /\ tail.plain \in Seq(Bytes(mode)) /\ tail.journaled \in 0 .. Len(tail.plain)
      /\ tail.idx = Len(disk.blocks) /\ disk.tail = SubSeq(tail.plain, 1, tail.journaled)
  BY <1>1 DEF StepInv, TailOK, JournalInv
<1>3. w.blocks = disk.blocks /\ w.tail = tail.plain /\ w.size = tail.size
      /\ w = [blocks |-> w.blocks, tail |-> w.tail, size |-> w.size]
  <2>1. disk \in Versions(mode)
    BY <1>1 DEF DurableInv, VersionOK
  <2>2. disk = [blocks |-> disk.blocks, tail |-> disk.tail, size |-> disk.size]
    BY <2>1 DEF Versions
  <2>3. SubSeq(tail.plain, 1, tail.journaled) \o SubSeq(tail.plain, tail.journaled + 1, Len(tail.plain)) = tail.plain
    BY <1>2, AppendedIs
  <2>4. disk.tail \o Unjournaled = tail.plain
    BY <1>2, <2>3 DEF Unjournaled
  <2>5. w = [blocks |-> disk.blocks, tail |-> disk.tail \o Unjournaled, size |-> tail.size]
    BY <2>2 DEF WithAppended
  <2>. QED
    BY <2>4, <2>5
<1>4. Published(w)
  BY <1>2, <1>3, PublishedIs
<1>5. sess.open = FALSE
  BY <1>1 DEF StoreInv, SessionOK
<1>6. FileInv(mode, file) /\ DurableInv(mode, w, w, w, file, floor) /\ StoreInv(mode, w, w, sess, file, SizeOf(sess, w))
      /\ SizeOf(sess, w) = Len(file)
  BY <1>4, <1>5 DEF Published, SizeOf
<1>. DEFINE u == tail'
            n == StoreSize
<1>7. u = Journaled(tail) /\ n \in 0 .. Len(file) /\ TailInv(mode, tail, file, n)
  BY <1>1
<1>. HIDE DEF u, n
<1>8. TailInv(mode, u, file, Len(file)) /\ u.open /\ u.plain = tail.plain /\ u.journaled = Len(u.plain)
      /\ JournalInv(mode, w, u)
  BY <1>1, <1>2, <1>3, <1>7, JournaledIs
<1>9. StepInv(mode, u, "commit", job, file, floor)
  BY <1>2, <1>8 DEF StepInv
<1>10. Ready(mode, disk', stable', seen', sess', tail', at', job', file', floor')
  BY <1>1, <1>6, <1>8, <1>9 DEF Ready, u
<1>. QED
  BY <1>10, InvNext

LEMMA JournalTailStep == ASSUME Supported(Modes), Inv, mode' = mode, JournalTail PROVE Inv'
<1>1. /\ mode \in Modes /\ mode.chunk \in Nat /\ file \in Seq(Bytes(mode)) /\ Len(file) \in Nat /\ StoreSize \in 0 .. Len(file)
      /\ TailInv(mode, tail, file, StoreSize) /\ TailOK(mode, tail) /\ StepInv(mode, tail, at, job, file, floor)
      /\ JournalInv(mode, disk, tail) /\ DurableInv(mode, disk, stable, seen, file, floor)
      /\ StoreInv(mode, disk, seen, sess, file, StoreSize) /\ StoreSize = SizeOf(sess, seen) /\ FileInv(mode, file)
  BY InvFacts DEF Inv
<1>2. at = "journal" /\ UNCHANGED <<file, floor>>
  BY DEF JournalTail
<1>3. Len(tail.plain) < mode.chunk /\ job \in Syncs /\ tail.open \in BOOLEAN
  BY <1>1, <1>2 DEF StepInv, TailOK
<1>4. CASE ~tail.open \/ TailIsEmpty
  <2>1. tail' = NoTail /\ at' = "commit" /\ UNCHANGED <<disk, stable, seen, sess, job>>
    BY <1>4 DEF JournalTail, archive
  <2>2. StoreSize = Len(file)
    BY <1>1, <1>4, EmptyIs DEF TailIsEmpty
  <2>. DEFINE u == tail'
  <2>3. u = NoTail
    BY <2>1
  <2>. HIDE DEF u
  <2>4. TailInv(mode, u, file, Len(file)) /\ u.open = FALSE /\ Len(u.plain) < mode.chunk
    BY <1>1, <2>3, NoTailInv, NoTailIs
  <2>5. JournalInv(mode, disk, u) /\ StepInv(mode, u, "commit", job, file, floor)
    BY <1>3, <2>4 DEF JournalInv, StepInv
  <2>. QED
    BY <1>2, <2>1, <2>2, <2>4, <2>5, TailOnly DEF u
<1>5. CASE tail.open /\ ~TailIsEmpty /\ ~TailJournal
  <2>. DEFINE s == PutBlocks(sess, TailBlock(tail), tail.size)
              u == tail'
  <2>1. sess' = s /\ u = NoTail /\ at' = "commit" /\ UNCHANGED <<disk, stable, seen, job>>
    BY <1>5 DEF JournalTail, archive, TailBlock
  <2>2. tail.plain # <<>>
    BY <1>1, <1>5, EmptyIs DEF TailIsEmpty, C
  <2>3. ~Logging(mode)
    BY <1>5 DEF Logging, TailJournal
  <2>. HIDE DEF s, u
  <2>4. StoreInv(mode, disk, seen, s, file, SizeOf(s, seen)) /\ SizeOf(s, seen) = Len(file)
    BY <1>5, <2>2, <2>3, SealedSession DEF s
  <2>5. TailInv(mode, u, file, Len(file)) /\ u.open = FALSE /\ Len(u.plain) < mode.chunk
    BY <1>1, <2>1, NoTailInv, NoTailIs
  <2>6. JournalInv(mode, disk, u) /\ StepInv(mode, u, "commit", job, file, floor)
    BY <1>3, <2>5 DEF JournalInv, StepInv
  <2>7. Ready(mode, disk', stable', seen', sess', tail', at', job', file', floor')
    BY <1>1, <1>2, <2>1, <2>4, <2>5, <2>6 DEF Ready, u
  <2>. QED
    BY <2>7, InvNext
<1>6. ASSUME tail.open, ~TailIsEmpty, TailJournal PROVE Logging(mode)
  BY <1>1, <1>6 DEF TailInv, Logging, TailJournal
<1>7. CASE tail.open /\ ~TailIsEmpty /\ TailJournal /\ tail.journaled = Len(tail.plain)
  <2>1. at' = "commit" /\ UNCHANGED <<disk, stable, seen, sess, tail, job>>
    BY <1>7 DEF JournalTail, archive
  <2>2. StepInv(mode, tail', at', job', file, floor)
    BY <1>3, <1>6, <1>7, <2>1 DEF StepInv
  <2>. QED
    BY <1>1, <1>2, <2>1, <2>2, TailOnly
<1>8. CASE tail.open /\ ~TailIsEmpty /\ TailJournal /\ tail.journaled # Len(tail.plain)
  <2>. DEFINE w == WithAppended(disk, Unjournaled, tail.size)
  <2>1. /\ \/ Committed(w) /\ tail' = [tail EXCEPT !.journaled = Len(tail.plain)] /\ at' = "commit" /\ UNCHANGED job
           \/ /\ CommitFailed(w) /\ UNCHANGED tail
              /\ IF job.kind = "release" THEN at' = "commit" /\ UNCHANGED job ELSE Done
        /\ UNCHANGED sess
    BY <1>8 DEF JournalTail
  <2>. HIDE DEF w
  <2>2. CASE Committed(w) /\ tail' = [tail EXCEPT !.journaled = Len(tail.plain)] /\ at' = "commit" /\ UNCHANGED job
    <3>1. disk' = w /\ stable' = w /\ seen' = w /\ tail' = Journaled(tail) /\ at' = "commit" /\ job' = job
      BY <2>2 DEF Committed, Journaled
    <3>. QED
      BY <1>2, <1>6, <1>8, <2>1, <3>1, JournalCommitted DEF w
  <2>3. CASE CommitFailed(w) /\ UNCHANGED tail /\ (IF job.kind = "release" THEN at' = "commit" /\ UNCHANGED job ELSE Done)
    <3>1. disk' = disk /\ stable' \in {stable, disk} /\ seen' = disk /\ Logging(mode)
      BY <1>6, <1>8, <2>3, FailedLog
    <3>2. seen = disk
      BY <1>1, <3>1 DEF StoreInv
    <3>3. DurableInv(mode, disk, stable', disk, file, floor)
      BY <1>1, <3>1, DurableFails
    <3>4. StepInv(mode, tail, at', job', file, floor)
      <4>1. CASE job.kind = "release"
        <5>1. at' = "commit" /\ job' = job
          BY <2>3, <4>1
        <5>. QED
          BY <1>3, <3>1, <4>1, <5>1 DEF StepInv
      <4>2. CASE job.kind # "release"
        <5>1. at' = "idle" /\ job' = NoJob
          BY <2>3, <4>2 DEF Done
        <5>. QED
          BY <1>3, <5>1 DEF StepInv
      <4>. QED
        BY <4>1, <4>2
    <3>5. Ready(mode, disk', stable', seen', sess', tail', at', job', file', floor')
      BY <1>1, <1>2, <2>1, <2>3, <3>1, <3>2, <3>3, <3>4 DEF Ready
    <3>. QED
      BY <3>5, InvNext
  <2>. QED
    BY <2>1, <2>2, <2>3
<1>. QED
  BY <1>3, <1>4, <1>5, <1>7, <1>8

\* The state a commit leaves: no session but the one that failed, and no tail but one it journaled.
LEMMA CommitFacts ==
    ASSUME Inv, at = "commit"
    PROVE  /\ job \in Syncs /\ Len(tail.plain) < mode.chunk /\ tail.open \in BOOLEAN
           /\ tail.open => Logging(mode) /\ (job.kind = "release" \/ tail.journaled = Len(tail.plain))
           /\ sess.open \in BOOLEAN
           /\ sess.open => ~Logging(mode) /\ tail.open = FALSE /\ tail = NoTail /\ sess.size = Len(file)
           /\ ~sess.open => sess = NoSess /\ seen = disk /\ StoreSize = disk.size
<1>1. /\ StoreInv(mode, disk, seen, sess, file, StoreSize) /\ TailInv(mode, tail, file, StoreSize) /\ TailOK(mode, tail)
      /\ StepInv(mode, tail, at, job, file, floor) /\ StoreSize = SizeOf(sess, seen)
  BY InvFacts
<1>2. /\ job \in Syncs /\ Len(tail.plain) < mode.chunk /\ tail.open \in BOOLEAN
      /\ tail.open => Logging(mode) /\ (job.kind = "release" \/ tail.journaled = Len(tail.plain))
  BY <1>1 DEF StepInv, TailOK
<1>3. SessionOK(mode, sess) /\ sess.open \in BOOLEAN
  BY <1>1 DEF StoreInv, SessionOK
<1>4. ASSUME sess.open PROVE ~Logging(mode) /\ tail.open = FALSE /\ tail = NoTail /\ sess.size = Len(file)
  <2>1. ~Logging(mode) /\ tail.open = FALSE
    BY <1>1, <1>2, <1>4 DEF StoreInv
  <2>. QED
    BY <1>1, <1>4, <2>1 DEF TailInv, TailOK, SizeOf
<1>5. ASSUME ~sess.open PROVE sess = NoSess /\ seen = disk /\ StoreSize = disk.size
  <2>1. sess.open = FALSE /\ seen = disk
    BY <1>1, <1>3, <1>5 DEF StoreInv
  <2>2. sess = [open |-> sess.open, dirty |-> sess.dirty, size |-> sess.size, keep |-> sess.keep]
        /\ sess.dirty = <<>> /\ sess.size = 0 /\ sess.keep = mode.size + 1
    BY <1>3, <1>5 DEF SessionOK
  <2>3. sess = NoSess
    BY <2>1, <2>2 DEF NoSess, NoKeep, MaxSize
  <2>. QED
    BY <1>1, <2>1, <2>3 DEF SizeOf
<1>. QED
  BY <1>2, <1>3, <1>4, <1>5

\* Any commit ends the handler.
LEMMA CommitEnds ==
    ASSUME Inv, at = "commit", mode' = mode, Done, file' = file,
           DurableInv(mode, disk', stable', seen', file, floor'),
           StoreInv(mode, disk', seen', sess', file, SizeOf(sess', seen')),
           TailInv(mode, tail', file, SizeOf(sess', seen')), JournalInv(mode, disk', tail'), Len(tail'.plain) < mode.chunk
    PROVE  Inv'
<1>1. mode \in Modes /\ FileInv(mode, file)
  BY DEF Inv
<1>2. StepInv(mode, tail', at', job', file, floor')
  BY DEF Done, StepInv
<1>3. Ready(mode, disk', stable', seen', sess', tail', at', job', file', floor')
  BY <1>1, <1>2 DEF Ready
<1>. QED
  BY <1>3, InvNext

\* What the session holds is the file, wherever it is read over.
LEMMA SessionCommit ==
    ASSUME Inv, at = "commit", sess.open, NEW w, w = WithSession(disk, sess)
    PROVE  VersionOK(mode, w) /\ Is(mode, w, file) /\ Shows(mode, sess, w, file, Len(file))
<1>1. /\ mode \in Modes /\ file \in Seq(Bytes(mode)) /\ StoreInv(mode, disk, seen, sess, file, StoreSize)
      /\ DurableInv(mode, disk, stable, seen, file, floor) /\ StoreSize = SizeOf(sess, seen)
  BY InvFacts
<1>2. ~Logging(mode) /\ sess.size = Len(file)
  BY CommitFacts
<1>3. SessionOK(mode, sess) /\ VersionOK(mode, disk) /\ Shows(mode, sess, disk, file, Len(file))
  BY <1>1, <1>2 DEF StoreInv, DurableInv, SizeOf
<1>4. \A i \in Nat : Holds(mode, Under(sess, disk, i), file, i)
  BY <1>3 DEF Shows, HoldsTo, Holds
<1>5. /\ VersionOK(mode, w) /\ Is(mode, w, file)
      /\ \A i \in Nat : Holds(mode, Under(sess, w, i), file, i)
  BY <1>1, <1>2, <1>3, <1>4, CommitIs
<1>6. Shows(mode, sess, w, file, Len(file))
  <2>1. \A i \in Nat : HoldsTo(mode, Under(sess, w, i), file, Len(file), i)
    BY <1>5 DEF HoldsTo, Holds
  <2>. QED
    BY <1>2, <2>1 DEF Shows
<1>. QED
  BY <1>5, <1>6

\* A version with the whole file, nothing over it and the promises kept.
LEMMA WholeText ==
    ASSUME mode \in Modes, NEW w, VersionOK(mode, w), Is(mode, w, file), NEW fl \in {floor, file},
           file \in Seq(Bytes(mode)), floor \in Seq(Bytes(mode)), IsPrefix(floor, file)
    PROVE  DurableInv(mode, w, w, w, file, fl)
<1>1. IsPrefix(file, file) /\ fl \in Seq(Bytes(mode)) /\ IsPrefix(fl, file)
  BY PrefixSelf
<1>2. TextInv(mode, w, file, fl)
  BY <1>1 DEF TextInv
<1>. QED
  BY <1>1, <1>2 DEF DurableInv

LEMMA CommitSessionStep == ASSUME Inv, mode' = mode, CommitStore, sess.open PROVE Inv'
<1>. DEFINE w == WithSession(disk, sess)
<1>1. /\ at = "commit" /\ Done /\ file' = file
      /\ \/ /\ Committed(w) /\ sess' = NoSess
            /\ \/ CommitOk
               \/ UNCHANGED <<tail, floor>>
         \/ CommitFailed(w) /\ UNCHANGED <<sess, tail, floor>>
  BY DEF CommitStore
<1>2. /\ mode \in Modes /\ file \in Seq(Bytes(mode)) /\ Len(file) \in Nat /\ StoreInv(mode, disk, seen, sess, file, StoreSize)
      /\ DurableInv(mode, disk, stable, seen, file, floor) /\ StoreSize = SizeOf(sess, seen)
      /\ TailInv(mode, tail, file, StoreSize)
  BY InvFacts
<1>3. Len(tail.plain) < mode.chunk /\ ~Logging(mode) /\ tail.open = FALSE /\ tail = NoTail /\ sess.size = Len(file)
  BY <1>1, CommitFacts
<1>. HIDE DEF w
<1>4. VersionOK(mode, w) /\ Is(mode, w, file) /\ Shows(mode, sess, w, file, Len(file))
  BY <1>1, SessionCommit DEF w
<1>5. \A d, t : ~Logging(mode) => JournalInv(mode, d, t)
  BY DEF JournalInv
<1>6. CASE Committed(w) /\ sess' = NoSess /\ (CommitOk \/ UNCHANGED <<tail, floor>>)
  <2>1. disk' = w /\ stable' = w /\ seen' = w /\ floor' \in {floor, file} /\ tail' = NoTail
    BY <1>3, <1>6 DEF Committed, CommitOk
  <2>. DEFINE u == tail'
              s == sess'
              fl == floor'
  <2>2. u = NoTail /\ s = NoSess /\ fl \in {floor, file}
    BY <1>6, <2>1
  <2>. HIDE DEF u, s, fl
  <2>3. StoreInv(mode, w, w, s, file, w.size) /\ TailInv(mode, u, file, w.size) /\ Len(u.plain) < mode.chunk
    BY <1>2, <1>4, <2>2, FreshIs, NoTailIs
  <2>4. SizeOf(s, w) = w.size
    BY <2>2 DEF SizeOf, NoSess
  <2>5. DurableInv(mode, w, w, w, file, fl)
    <3>1. floor \in Seq(Bytes(mode)) /\ IsPrefix(floor, file)
      BY <1>2 DEF DurableInv
    <3>. QED
      BY <1>2, <1>4, <2>2, <3>1, WholeText
  <2>6. JournalInv(mode, w, u)
    BY <1>3, <1>5
  <2>. QED
    BY <1>1, <2>1, <2>3, <2>4, <2>5, <2>6, CommitEnds DEF u, s, fl
<1>7. CASE CommitFailed(w) /\ UNCHANGED <<sess, tail, floor>>
  <2>1. disk' \in {disk, w} /\ stable' \in {stable, disk} /\ seen' \in {seen, disk'} /\ sess' = sess /\ tail' = tail /\ floor' = floor
    BY <1>7 DEF CommitFailed
  <2>2. \A v \in {disk, seen, w} : VersionOK(mode, v) /\ Shows(mode, sess, v, file, Len(file))
    BY <1>2, <1>3, <1>4 DEF DurableInv, StoreInv, SizeOf
  <2>3. DurableInv(mode, disk', stable', seen', file, floor)
    <3>1. floor \in Seq(Bytes(mode)) /\ IsPrefix(floor, file) /\ TextInv(mode, disk, file, floor) /\ TextInv(mode, stable, file, floor)
          /\ VersionOK(mode, stable)
      BY <1>2 DEF DurableInv
    <3>2. TextInv(mode, w, file, floor)
      <4>1. IsPrefix(file, file)
        BY <1>2, PrefixSelf
      <4>. QED
        BY <1>4, <3>1, <4>1 DEF TextInv
    <3>. QED
      BY <2>1, <2>2, <3>1, <3>2 DEF DurableInv
  <2>4. SizeOf(sess, seen') = Len(file)
    BY <1>3 DEF SizeOf
  <2>5. StoreInv(mode, disk', seen', sess, file, Len(file))
    <3>1. Len(file) \in 0 .. Len(file) /\ SessionOK(mode, sess)
      BY <1>2 DEF StoreInv
    <3>. QED
      BY <1>3, <2>1, <2>2, <3>1 DEF StoreInv
  <2>6. TailInv(mode, tail, file, Len(file))
    BY <1>2, <1>3, NoTailInv
  <2>7. JournalInv(mode, disk', tail)
    BY <1>3, <1>5
  <2>. QED
    BY <1>1, <1>3, <2>1, <2>3, <2>4, <2>5, <2>6, <2>7, CommitEnds
<1>. QED
  BY <1>1, <1>6, <1>7

\* With the journal complete, the archive alone has the whole file.
LEMMA WholeDisk ==
    ASSUME Inv, at = "commit", ~sess.open, ~tail.open \/ tail.journaled = Len(tail.plain)
    PROVE  disk.size = Len(file) /\ Is(mode, disk, file)
<1>1. /\ mode \in Modes /\ mode.chunk \in Nat /\ file \in Seq(Bytes(mode)) /\ Len(file) <= mode.size
      /\ DurableInv(mode, disk, stable, seen, file, floor) /\ TailInv(mode, tail, file, StoreSize) /\ TailOK(mode, tail)
      /\ JournalInv(mode, disk, tail) /\ Shows(mode, sess, disk, file, StoreSize)
  BY InvFacts
<1>2. StoreSize = disk.size /\ tail.open \in BOOLEAN /\ (tail.open => Logging(mode)) /\ sess = NoSess
  BY CommitFacts
<1>3. disk.size = Len(file)
  <2>1. CASE ~tail.open
    BY <1>1, <1>2, <2>1 DEF TailInv
  <2>2. CASE tail.open
    <3>1. tail.idx = Len(disk.blocks) /\ disk.tail = SubSeq(tail.plain, 1, tail.journaled) /\ tail.plain \in Seq(Bytes(mode))
      BY <1>1, <1>2, <2>2 DEF JournalInv, TailOK
    <3>2. disk.tail = tail.plain
      <4>. DEFINE p == tail.plain
      <4>1. p \in Seq(Bytes(mode)) /\ disk.tail = SubSeq(p, 1, Len(p))
        BY <2>2, <3>1
      <4>. HIDE DEF p
      <4>2. disk.tail = p
        BY <4>1
      <4>. QED
        BY <4>2 DEF p
    <3>3. disk.size = Len(disk.blocks) * mode.chunk + Len(disk.tail)
      BY <1>1, <1>2, <2>2 DEF DurableInv, VersionOK
    <3>4. Len(file) = tail.idx * mode.chunk + Len(tail.plain)
      BY <1>1, <2>2 DEF TailInv
    <3>. QED
      BY <3>1, <3>2, <3>3, <3>4
  <2>. QED
    BY <2>1, <2>2
<1>4. ASSUME NEW i \in Nat PROVE Holds(mode, ArchiveBlock(disk, i), file, i)
  <2>1. HoldsTo(mode, Under(sess, disk, i), file, Len(file), i)
    BY <1>1, <1>2, <1>3 DEF Shows
  <2>2. Under(sess, disk, i) = ArchiveBlock(disk, i)
    BY DEF Under
  <2>. QED
    BY <2>1, <2>2 DEF HoldsTo, Holds
<1>5. Is(mode, disk, file)
  BY <1>1, <1>3, <1>4 DEF Is, Served
<1>. QED
  BY <1>3, <1>5

LEMMA CommitPlainStep == ASSUME Inv, mode' = mode, CommitStore, ~sess.open PROVE Inv'
<1>1. /\ at = "commit" /\ Done /\ UNCHANGED <<file, disk, sess>>
      /\ \/ /\ stable' = disk /\ CommitOk
            /\ seen' = IF job.kind = "fsync" THEN seen ELSE disk
         \/ /\ UNCHANGED <<stable, tail, floor>>
            /\ seen' = IF job.kind = "release" THEN disk ELSE seen
  BY DEF CommitStore
<1>2. /\ mode \in Modes /\ file \in Seq(Bytes(mode)) /\ StoreInv(mode, disk, seen, sess, file, StoreSize)
      /\ DurableInv(mode, disk, stable, seen, file, floor) /\ StoreSize = SizeOf(sess, seen)
      /\ TailInv(mode, tail, file, StoreSize) /\ JournalInv(mode, disk, tail)
  BY InvFacts
<1>3. /\ job \in Syncs /\ Len(tail.plain) < mode.chunk /\ seen = disk /\ StoreSize = disk.size
      /\ tail.open => job.kind = "release" \/ tail.journaled = Len(tail.plain)
  BY <1>1, CommitFacts
<1>4. seen' = disk
  BY <1>1, <1>3
<1>5. StoreInv(mode, disk', seen', sess', file, SizeOf(sess', seen')) /\ SizeOf(sess', seen') = StoreSize
  BY <1>1, <1>2, <1>3, <1>4
<1>6. CASE stable' = disk /\ CommitOk
  <2>1. floor' = (IF job.kind = "fsync" THEN file ELSE floor) /\ tail' = (IF job.kind = "forget" THEN NoTail ELSE tail)
    BY <1>6 DEF CommitOk
  <2>2. VersionOK(mode, disk) /\ floor \in Seq(Bytes(mode)) /\ IsPrefix(floor, file)
    BY <1>2 DEF DurableInv
  <2>3. job.kind # "release" => disk.size = Len(file) /\ Is(mode, disk, file)
    BY <1>1, <1>3, WholeDisk
  <2>4. DurableInv(mode, disk, disk, disk, file, floor')
    <3>1. CASE job.kind = "fsync"
      BY <1>2, <2>1, <2>2, <2>3, <3>1, WholeText
    <3>2. CASE job.kind # "fsync"
      BY <1>2, <2>1, <3>2, DurableFails
    <3>. QED
      BY <3>1, <3>2
  <2>5. CASE job.kind = "forget"
    <3>. DEFINE u == tail'
    <3>1. u = NoTail /\ StoreSize = Len(file)
      BY <1>3, <2>1, <2>3, <2>5
    <3>. HIDE DEF u
    <3>2. TailInv(mode, u, file, StoreSize) /\ u.open = FALSE /\ Len(u.plain) < mode.chunk
      BY <1>2, <3>1, NoTailInv, NoTailIs
    <3>3. JournalInv(mode, disk, u)
      BY <3>2 DEF JournalInv
    <3>. QED
      BY <1>1, <1>4, <1>5, <1>6, <2>4, <3>2, <3>3, CommitEnds DEF u
  <2>6. CASE job.kind # "forget"
    <3>1. tail' = tail
      BY <2>1, <2>6
    <3>. QED
      BY <1>1, <1>2, <1>3, <1>4, <1>5, <1>6, <2>4, <3>1, CommitEnds
  <2>. QED
    BY <2>5, <2>6
<1>7. CASE UNCHANGED <<stable, tail, floor>>
  <2>1. DurableInv(mode, disk, stable, disk, file, floor)
    BY <1>2, <1>3
  <2>. QED
    BY <1>1, <1>2, <1>3, <1>4, <1>5, <1>7, <2>1, CommitEnds
<1>. QED
  BY <1>1, <1>6, <1>7

\* A fresh mount of what a crash left.
LEMMA CrashStep == ASSUME Inv, mode' = mode, Crash PROVE Inv'
<1>1. PICK v \in {disk, stable} : disk' = v /\ stable' = v /\ seen' = v /\ file' = Mounted(v)
  BY DEF Crash
<1>2. sess' = NoSess /\ tail' = NoTail /\ at' = "idle" /\ job' = NoJob /\ floor' = floor
  BY DEF Crash, Done
<1>3. mode \in Modes /\ DurableInv(mode, disk, stable, seen, file, floor)
  BY InvFacts
<1>4. VersionOK(mode, v) /\ TextInv(mode, v, file, floor) /\ floor \in Seq(Bytes(mode))
  BY <1>3 DEF DurableInv
<1>. DEFINE g == Mounted(v)
            u == tail'
            s == sess'
<1>5. Is(mode, v, g) /\ \A f : Is(mode, v, f) => f = g
  BY <1>3, <1>4, TextIs
<1>6. u = NoTail /\ s = NoSess
  BY <1>2
<1>. HIDE DEF g, u, s
<1>7. IsPrefix(floor, g)
  BY <1>4, <1>5 DEF TextInv
<1>8. /\ FileInv(mode, g) /\ StoreInv(mode, v, v, s, g, v.size) /\ TailInv(mode, u, g, v.size)
      /\ u.open = FALSE /\ Len(u.plain) < mode.chunk /\ SizeOf(s, v) = v.size
  BY <1>3, <1>4, <1>5, <1>6, FreshIs, NoTailIs DEF SizeOf, NoSess
<1>9. DurableInv(mode, v, v, v, g, floor)
  <2>1. g \in Seq(Bytes(mode))
    BY <1>5 DEF Is
  <2>2. IsPrefix(g, g)
    BY <2>1, PrefixSelf
  <2>3. TextInv(mode, v, g, floor)
    BY <1>5, <1>7, <2>2 DEF TextInv
  <2>. QED
    BY <1>4, <1>7, <2>3 DEF DurableInv
<1>10. JournalInv(mode, v, u) /\ StepInv(mode, u, "idle", NoJob, g, floor)
  BY <1>8 DEF JournalInv, StepInv
<1>11. Ready(mode, v, v, v, s, u, "idle", NoJob, g, floor)
  BY <1>3, <1>8, <1>9, <1>10 DEF Ready
<1>12. Ready(mode, disk', stable', seen', sess', tail', at', job', file', floor')
  BY <1>1, <1>2, <1>11 DEF g, u, s
<1>. QED
  BY <1>12, InvNext

LEMMA NextInv == ASSUME Supported(Modes), Inv, Next PROVE Inv'
<1>1. mode' = mode
  BY DEF Next
<1>2. \/ \E data \in Data : StartAppend(data)
      \/ \E off \in 0 .. MaxSize, data \in Data : StartWrite(off, data)
      \/ \E n \in 0 .. MaxSize : StartTruncate(n)
      \/ \E kind \in {"fsync", "release", "forget"} : StartSync(kind)
      \/ FillTail \/ SealTail \/ ApplyWrite \/ ApplyTruncate \/ JournalTail \/ CommitStore \/ Crash
  BY DEF Next
<1>3. CASE \E data \in Data : StartAppend(data)
  BY <1>1, <1>3, StartAppendStep
<1>4. CASE \E off \in 0 .. MaxSize, data \in Data : StartWrite(off, data)
  <2>1. PICK off \in 0 .. MaxSize, data \in Data : StartWrite(off, data)
    BY <1>4
  <2>. QED
    BY <1>1, <2>1, StartWriteStep
<1>5. CASE \E n \in 0 .. MaxSize : StartTruncate(n)
  BY <1>1, <1>5, StartTruncateStep
<1>6. CASE \E kind \in {"fsync", "release", "forget"} : StartSync(kind)
  BY <1>1, <1>6, StartSyncStep
<1>7. CASE FillTail
  BY <1>1, <1>7, FillTailStep
<1>8. CASE SealTail
  BY <1>1, <1>8, SealTailStep
<1>9. CASE ApplyWrite
  BY <1>1, <1>9, ApplyWriteStep
<1>10. CASE ApplyTruncate
  BY <1>1, <1>10, ApplyTruncateStep
<1>11. CASE JournalTail
  BY <1>1, <1>11, JournalTailStep
<1>12. CASE CommitStore
  BY <1>1, <1>12, CommitSessionStep, CommitPlainStep
<1>13. CASE Crash
  BY <1>1, <1>13, CrashStep
<1>. QED
  BY <1>2, <1>3, <1>4, <1>5, <1>6, <1>7, <1>8, <1>9, <1>10, <1>11, <1>12, <1>13

LEMMA Invariant == Supported(Modes) /\ Spec => []Inv
<1>. SUFFICES ASSUME Supported(Modes) PROVE Spec => []Inv
  OBVIOUS
<1>1. Init => Inv
  BY InitInv
<1>2. Inv /\ [Next]_vars => Inv'
  <2>. SUFFICES ASSUME Inv, [Next]_vars PROVE Inv'
    OBVIOUS
  <2>1. CASE Next
    BY <2>1, NextInv
  <2>2. CASE UNCHANGED vars
    <3>1. /\ mode' = mode /\ disk' = disk /\ stable' = stable /\ seen' = seen /\ sess' = sess /\ tail' = tail
          /\ at' = at /\ job' = job /\ file' = file /\ floor' = floor
      BY <2>2 DEF vars
    <3>2. Ready(mode, disk', stable', seen', sess', tail', at', job', file', floor')
      BY <3>1, InvIs
    <3>. QED
      BY <3>1, <3>2, InvNext
  <2>. QED
    BY <2>1, <2>2
<1>. QED
  BY <1>1, <1>2, PTL DEF Spec

-----------------------------------------------------------------------------
(* The theorems                                                             *)

LEMMA InvTypes == Inv => TypeOK
<1>. SUFFICES ASSUME Inv PROVE TypeOK
  OBVIOUS
<1>1. /\ mode \in Modes /\ mode.chunk \in Nat /\ mode.size \in Nat /\ file \in Seq(Bytes(mode))
      /\ DurableInv(mode, disk, stable, seen, file, floor) /\ StoreInv(mode, disk, seen, sess, file, StoreSize)
      /\ TailOK(mode, tail) /\ StepInv(mode, tail, at, job, file, floor)
  BY InvFacts
<1>2. ByteSeq = Seq(Bytes(mode)) /\ Version = Versions(mode)
  BY DEF ByteSeq, Bytes, Version, Versions, MaxSize
<1>3. disk \in Version /\ stable \in Version /\ seen \in Version /\ floor \in ByteSeq
  BY <1>1, <1>2 DEF DurableInv, VersionOK
<1>4. sess.size \in 0 .. MaxSize /\ sess.keep \in 0 .. NoKeep
  BY <1>1 DEF StoreInv, SessionOK, MaxSize, NoKeep
<1>5. tail.size \in 0 .. MaxSize /\ tail.journaled \in 0 .. Len(tail.plain) /\ Len(tail.plain) <= C
  BY <1>1 DEF TailOK, MaxSize, C
<1>6. at \in {"idle", "fill", "seal", "apply", "journal", "commit"}
  BY <1>1 DEF StepInv
<1>. QED
  BY <1>1, <1>2, <1>3, <1>4, <1>5, <1>6 DEF TypeOK

\* The tail, the session and the archive together always read as the file.
LEMMA ContentIs == Inv => Content = file
<1>. SUFFICES ASSUME Inv PROVE Content = file
  OBVIOUS
<1>1. /\ mode \in Modes /\ file \in Seq(Bytes(mode)) /\ Len(file) <= mode.size /\ FileSize = Len(file)
      /\ StoreSize \in 0 .. Len(file) /\ Shows(mode, sess, seen, file, StoreSize) /\ TailInv(mode, tail, file, StoreSize)
  BY InvFacts
<1>2. \A i \in Nat : HoldsTo(mode, IF tail.open /\ i = tail.idx THEN tail.plain ELSE Under(sess, seen, i), file, Len(file), i)
  BY <1>1, OverIs
<1>3. \A i : StoreBlock(i) = Under(sess, seen, i)
  BY DEF StoreBlock, SessionBlock, Under
<1>. DEFINE b == [i \in Indices |-> IF tail.open /\ i = tail.idx THEN tail.plain ELSE StoreBlock(i)]
            t == IF tail.open THEN tail.idx ELSE -1
<1>4. Indices \subseteq Nat
  BY DEF Indices
<1>5. \A i \in Indices : Holds(mode, b[i], file, i)
  <2>1. ASSUME NEW i \in Indices PROVE Holds(mode, b[i], file, i)
    <3>1. HoldsTo(mode, IF tail.open /\ i = tail.idx THEN tail.plain ELSE StoreBlock(i), file, Len(file), i)
      BY <1>2, <1>3, <1>4
    <3>. QED
      BY <3>1 DEF HoldsTo, Holds
  <2>. QED
    BY <2>1
<1>6. Content = ReadAll(Len(file), b, t)
  BY <1>1 DEF Content
<1>. HIDE DEF b, t
<1>7. ReadAll(Len(file), b, t) = file
  BY <1>1, <1>5, ReadIs
<1>. QED
  BY <1>6, <1>7

\* What a mount of a version serves is the text the invariant says it has.
LEMMA MountedText ==
    ASSUME mode \in Modes, NEW v, VersionOK(mode, v), NEW f, NEW fl, TextInv(mode, v, f, fl)
    PROVE  IsPrefix(fl, Mounted(v)) /\ (AppendOnly(mode) => IsPrefix(Mounted(v), f))
<1>1. PICK g : Is(mode, v, g) /\ IsPrefix(fl, g) /\ (AppendOnly(mode) => IsPrefix(g, f))
  BY DEF TextInv
<1>2. Mounted(v) = g
  BY <1>1, MountedIs
<1>. QED
  BY <1>1, <1>2

\* Whatever the calls, their lengths and the failures, the sizes, blocks and
\* indices of tail, session and archive stay within the file's limits.
THEOREM TypeCorrect == Supported(Modes) /\ Spec => []TypeOK
  BY Invariant, InvTypes, PTL

\* Read-your-writes: whatever was appended, overwritten, truncated, synced or
\* failed to commit, read_range over the tail buffer, the session and the
\* archive gives every byte of the POSIX content, and EIO nowhere.
THEOREM ReadsWhatWasWritten == Supported(Modes) /\ Spec => []ReadBack
<1>1. Inv => ReadBack
  BY ContentIs DEF ReadBack
<1>. QED
  BY <1>1, Invariant, PTL

\* What a successful fsync covered is, until something changes it, a prefix of
\* what a mount serves after a crash at any step of any later call.
THEOREM SyncedIsDurable == Supported(Modes) /\ Spec => []FsyncDurable
<1>1. Inv => FsyncDurable
  <2>. SUFFICES ASSUME Inv PROVE FsyncDurable
    OBVIOUS
  <2>1. mode \in Modes /\ DurableInv(mode, disk, stable, seen, file, floor)
    BY InvFacts
  <2>2. IsPrefix(floor, Mounted(stable)) /\ IsPrefix(floor, Mounted(disk))
    BY <2>1, MountedText DEF DurableInv
  <2>. QED
    BY <2>2 DEF FsyncDurable
<1>. QED
  BY <1>1, Invariant, PTL

\* Of a file that is only appended to, a crash serves a prefix: it neither
\* repeats nor reorders nor makes up bytes, however often commits failed and
\* were tried again.  On a store with a tail journal that is said of commits that
\* fail before publication only: Supported leaves out the others, which the code
\* does repeat (MCRetried in MCOpenTail).
THEOREM CrashServesPrefix == Supported(Modes) /\ Spec => []NothingInvented
<1>1. Inv => NothingInvented
  <2>. SUFFICES ASSUME Inv, Ops \cap {"write", "sparse", "hole", "truncate", "grow"} = {}
                PROVE  IsPrefix(Mounted(stable), file) /\ IsPrefix(Mounted(disk), file)
    BY DEF NothingInvented
  <2>1. mode \in Modes /\ DurableInv(mode, disk, stable, seen, file, floor)
    BY InvFacts
  <2>2. AppendOnly(mode)
    BY DEF AppendOnly, Ops
  <2>. QED
    BY <2>1, <2>2, MountedText DEF DurableInv
<1>. QED
  BY <1>1, Invariant, PTL

\* Between calls the journal on disk is exactly the part of the tail counted as
\* journaled, in the block the tail stands for: the next fsync appends the rest.
THEOREM JournalIsTail == Supported(Modes) /\ Spec => []JournalMatchesTail
<1>1. Inv => JournalMatchesTail
  <2>. SUFFICES ASSUME Inv, tail.open, TailJournal
                PROVE  tail.idx = Len(disk.blocks) /\ disk.tail = SubSeq(tail.plain, 1, tail.journaled)
    BY DEF JournalMatchesTail
  <2>1. TailInv(mode, tail, file, StoreSize) /\ JournalInv(mode, disk, tail)
    BY InvFacts
  <2>2. Logging(mode)
    BY <2>1 DEF TailInv, Logging, TailJournal
  <2>. QED
    BY <2>1, <2>2 DEF JournalInv
<1>. QED
  BY <1>1, Invariant, PTL
=============================================================================
