----------------------------- MODULE Passthrough -----------------------------
(***************************************************************************)
(* The passthrough file system (passthrough.rs): every request is forwarded *)
(* to a backing directory.  Its only state is the table of inode numbers,   *)
(* by_ino and by_path, which the kernel refers to, and the open handles.    *)
(*                                                                          *)
(* A handler resolves a number to a path under the table's lock, makes its  *)
(* system call without it, and takes it again to enter what it found; its   *)
(* reply reaches the kernel later.  The kernel is modelled by what it       *)
(* guarantees: it names only numbers it knows, and holds a directory's lock *)
(* during a request on it, which lookups and listings share, and the lock   *)
(* of a file while its attributes are set or its name removed or changed.   *)
(***************************************************************************)
EXTENDS Integers, Sequences, FiniteSets

CONSTANTS
    Names,
    Threads,
    Depth,        \* of the tree
    MaxIno,       \* numbers given out; the root has 1
    MaxLookups,   \* the kernel's lookups of one number
    Objects,      \* what the tree can hold: files and directories, each made once
    None,
    Workloads     \* records of: ops, the requests made; renames, onto
                  \* "fresh" names, which no number has, or onto "any"; and
                  \* whether attributes are set of removed files as well

ASSUME DepthAssumption == Depth \in Nat
ASSUME ThreadsAssumption == IsFiniteSet(Threads)
ASSUME NoneAssumption == None \notin Nat

Root == 1
Inos == Root .. MaxIno
Paths == UNION {[1 .. n -> Names] : n \in 0 .. Depth}

VARIABLES
    load,      \* the workload
    backing,   \* path -> the object there
    dirs,      \* the objects that are directories
    by_ino,    \* number -> path and lookup_count
    by_path,   \* path -> number
    next_ino,
    handles,   \* the objects open, one for each open handle
    req,       \* each thread's request
    known,     \* the kernel: number -> lookups it was told of and has not forgotten
    named      \* ghost: number -> the object last reported under it

tree  == <<backing, dirs>>
table == <<by_ino, by_path, next_ino>>
vars  == <<load, tree, table, handles, req, known, named>>

Idle == [op |-> "none", pc |-> "idle"]

With(f, x, v)  == [y \in DOMAIN f \cup {x} |-> IF y = x THEN v ELSE f[y]]
Without(f, xs) == [y \in DOMAIN f \ xs |-> f[y]]
IsUnder(p, d)  == Len(p) >= Len(d) /\ SubSeq(p, 1, Len(d)) = d
Children(d)    == {n \in Names : Append(d, n) \in DOMAIN backing}
IsDir(p)       == p = <<>> \/ (p \in DOMAIN backing /\ backing[p] \in dirs)
Made           == {backing[p] : p \in DOMAIN backing} \cup dirs
                  \cup {named[i] : i \in Inos} \cup handles
                  \cup {req[t].obj : t \in {u \in Threads : req[u] # Idle}}

-----------------------------------------------------------------------------
(* InodeTable                                                               *)

TableOf(inos, paths, next) == [by_ino |-> inos, by_path |-> paths, next |-> next]
SetTable(t) == by_ino' = t.by_ino /\ by_path' = t.by_path /\ next_ino' = t.next

InitTable == TableOf([i \in {Root} |-> [path |-> <<>>, count |-> 1]], [p \in {<<>>} |-> Root], Root + 1)

Counted(i, n) == [by_ino EXCEPT ![i].count = @ + n]

\* A number for an entry of a directory: the one its path has, or a new one.
LookupUncounted(p) ==  \* mutant: a number given again is not counted
    IF p \in DOMAIN by_path
    THEN TableOf(by_ino, by_path, next_ino)
    ELSE TableOf(With(by_ino, next_ino, [path |-> p, count |-> 1]),
                 With(by_path, p, next_ino), next_ino + 1)
LookupAlwaysNew(p) ==  \* mutant: no path keeps its number
    TableOf(With(by_ino, next_ino, [path |-> p, count |-> 1]),
            With(by_path, p, next_ino), next_ino + 1)
LookupOrInsert(p) ==
    IF p \in DOMAIN by_path
    THEN TableOf(IF by_path[p] \in DOMAIN by_ino THEN Counted(by_path[p], 1) ELSE by_ino,
                 by_path, next_ino)
    ELSE TableOf(With(by_ino, next_ino, [path |-> p, count |-> 1]),
                 With(by_path, p, next_ino), next_ino + 1)

\* forget: the count goes down, and the number goes with it.
ForgetKeepsPath(i, n) ==  \* mutant
    IF by_ino[i].count > n THEN TableOf(Counted(i, -n), by_path, next_ino)
    ELSE TableOf(Without(by_ino, {i}), by_path, next_ino)
ForgetNumber(i, n) ==
    IF by_ino[i].count > n THEN TableOf(Counted(i, -n), by_path, next_ino)
    ELSE TableOf(Without(by_ino, {i}), Without(by_path, {by_ino[i].path}), next_ino)

\* rename_path: the renamed entry only, not what is under it.
RenamePath(old, new) ==
    IF old \notin DOMAIN by_path THEN TableOf(by_ino, by_path, next_ino)
    ELSE LET i == by_path[old]
         IN TableOf(IF i \in DOMAIN by_ino THEN [by_ino EXCEPT ![i].path = new] ELSE by_ino,
                    With(Without(by_path, {old}), new, i), next_ino)

-----------------------------------------------------------------------------
(* Requests                                                                 *)

Child(t) == Append(req[t].path, req[t].name)

\* The kernel's lock on a directory.
Exclusive == {"create", "mkdir", "unlink", "rmdir", "rename"}
ByNumber  == {"open", "setattr"}
Holds(t, d) == req[t] # Idle /\ req[t].op \notin ByNumber /\ d \in {req[t].ino, req[t].to}
KernelLock(t, op, ds) ==
    \A u \in Threads \ {t}, d \in ds :
        Holds(u, d) => op \notin Exclusive /\ req[u].op \notin Exclusive

\* Its lock on a file while attributes of it are set or its name goes, and on a
\* directory that is removed.
Unnames(op) == op \in {"unlink", "rmdir", "rename"}
FileLock(t, op, p, ds) ==
    \A u \in Threads \ {t} : req[u] # Idle =>
        /\ op = "setattr" /\ Unnames(req[u].op) => Child(u) # p
        /\ Unnames(op) /\ req[u].op = "setattr" => req[u].path # p
        /\ op \notin ByNumber /\ req[u].op = "rmdir" => Child(u) \notin ds
        /\ op = "rmdir" /\ req[u].op \notin ByNumber => p \notin {req[u].path, req[u].topath}

InTree(o) == \E p \in DOMAIN backing : backing[p] = o

\* Bounds: the numbers a request can use up are left, and no name of its
\* directory has been looked up too often.
Needs(op) == CASE op \in {"lookup", "create", "mkdir"} -> 1
               [] op = "readdir" -> Cardinality(Names)
               [] OTHER -> 0
InBounds(t, op, i) ==
    /\ \A u \in Threads \ {t} : next_ino + Needs(op) + Needs(req[u].op) <= MaxIno + 1
    /\ Needs(op) > 0 =>
          \A n \in Names : LET p == Append(by_ino[i].path, n)
                          IN p \in DOMAIN by_path => by_ino[by_path[p]].count < MaxLookups

Knows(i) == i \in Inos /\ known[i] > 0

\* A request arrives and its directory is resolved: abs_path.
Arrive(t, op, i, n, j, m) ==
    /\ req[t] = Idle
    /\ op \in load.ops
    /\ i \in DOMAIN by_ino /\ InBounds(t, op, i)
    /\ Knows(i) /\ Knows(j)
    /\ op \notin ByNumber => /\ KernelLock(t, op, {i, j})
                             /\ \A k \in {i, j} \ {Root} : named[k] \in dirs
    /\ {i, j} \subseteq DOMAIN by_ino
    /\ FileLock(t, op, IF op = "setattr" THEN by_ino[i].path ELSE Append(by_ino[i].path, n),
                {by_ino[i].path, by_ino[j].path})
    /\ req' = [req EXCEPT ![t] =
                 [op |-> op, pc |-> "call", ino |-> i, name |-> n, to |-> j, toname |-> m,
                  path |-> by_ino[i].path, topath |-> by_ino[j].path,
                  obj |-> None, todo |-> {}, num |-> None]]
    /\ UNCHANGED <<load, tree, table, handles, known, named>>

Request(t) ==
    \E i \in DOMAIN by_ino :
        \/ Arrive(t, "open", i, None, i, None)
        \/ /\ i # Root /\ (InTree(named[i]) \/ load.removed)
           /\ Arrive(t, "setattr", i, None, i, None)
        \/ /\ Len(by_ino[i].path) < Depth
           /\ \/ Arrive(t, "readdir", i, None, i, None)
              \/ \E op \in {"lookup", "create", "mkdir", "unlink", "rmdir"}, n \in Names :
                    Arrive(t, op, i, n, i, n)
              \/ \E n, m \in Names, j \in DOMAIN by_ino :
                    /\ Len(by_ino[j].path) < Depth
                    /\ load.renames = "fresh" =>
                          /\ ~IsDir(Append(by_ino[i].path, n))
                          /\ Append(by_ino[j].path, m) \notin DOMAIN by_path
                    /\ Arrive(t, "rename", i, n, j, m)

Calling(t, op) == req[t].op = op /\ req[t].pc = "call"
End(t)         == req' = [req EXCEPT ![t] = Idle]
Found(t, o)    == req' = [req EXCEPT ![t].pc = "enter", ![t].obj = o]

\* lookup: symlink_metadata of the child.
Lookup(t) ==
    /\ Calling(t, "lookup")
    /\ IF Child(t) \in DOMAIN backing THEN Found(t, backing[Child(t)]) ELSE End(t)
    /\ UNCHANGED <<load, tree, table, handles, known, named>>

\* create_dir, and the open of create; an existing file is opened by create.
Make(t, op, isDir) ==
    /\ Calling(t, op)
    /\ \/ /\ Child(t) \notin DOMAIN backing /\ IsDir(req[t].path)
          /\ \E o \in Objects \ Made :
                /\ backing' = With(backing, Child(t), o)
                /\ dirs' = IF isDir THEN dirs \cup {o} ELSE dirs
                /\ Found(t, o)
       \/ /\ Child(t) \in DOMAIN backing \/ ~IsDir(req[t].path)
          /\ IF op = "create" /\ Child(t) \in DOMAIN backing /\ ~IsDir(Child(t))
             THEN Found(t, backing[Child(t)]) ELSE End(t)
          /\ UNCHANGED tree
    /\ UNCHANGED <<load, table, handles, known, named>>

Create(t) == Make(t, "create", FALSE)
Mkdir(t)  == Make(t, "mkdir", TRUE)

\* remove_file and remove_dir; the table is left alone.
Remove(t, op) ==
    /\ Calling(t, op)
    /\ LET p == Child(t)
           ok == /\ p \in DOMAIN backing
                 /\ IF op = "unlink" THEN ~IsDir(p) ELSE IsDir(p) /\ Children(p) = {}
       IN /\ backing' = IF ok THEN Without(backing, {p}) ELSE backing
          /\ dirs' = IF ok THEN dirs \ {backing[p]} ELSE dirs
    /\ End(t)
    /\ UNCHANGED <<load, table, handles, known, named>>

\* rename(2): what is under the entry moves along.
Moved(old, new) ==
    LET from(p) == old \o SubSeq(p, Len(new) + 1, Len(p))
        kept == {p \in DOMAIN backing : ~IsUnder(p, old) /\ ~IsUnder(p, new)}
        gone == {p \in Paths : IsUnder(p, new) /\ from(p) \in DOMAIN backing}
    IN [p \in kept \cup gone |-> IF p \in gone THEN backing[from(p)] ELSE backing[p]]

RenameMove(t) ==
    /\ Calling(t, "rename")
    /\ LET old == Child(t)
           new == Append(req[t].topath, req[t].toname)
       IN IF /\ old \in DOMAIN backing /\ IsDir(req[t].topath) /\ ~IsUnder(new, old)
             /\ new \in DOMAIN backing => IsDir(old) = IsDir(new) /\ Children(new) = {}
             /\ \A p \in DOMAIN backing : IsUnder(p, old) => Len(p) - Len(old) + Len(new) <= Depth
          THEN backing' = Moved(old, new) /\ req' = [req EXCEPT ![t].pc = "enter"]
          ELSE UNCHANGED backing /\ End(t)
    /\ UNCHANGED <<load, dirs, table, handles, known, named>>

\* open, by the path the number had when the request arrived.
Open(t) ==
    /\ Calling(t, "open")
    /\ handles' = IF req[t].path \in DOMAIN backing THEN handles \cup {backing[req[t].path]}
                  ELSE handles
    /\ End(t)
    /\ UNCHANGED <<load, tree, table, known, named>>

\* setattr: chown, chmod and the truncation, those asked for, each by the path
\* the number had when the request arrived; a failure ends it.
Setattr(t) ==
    /\ Calling(t, "setattr")
    /\ \/ req[t].path \in DOMAIN backing /\ req' = [req EXCEPT ![t].obj = backing[req[t].path]]
       \/ End(t)
    /\ UNCHANGED <<load, tree, table, handles, known, named>>

Release(o) ==
    /\ o \in handles
    /\ handles' = handles \ {o}
    /\ UNCHANGED <<load, tree, table, req, known, named>>

\* readdir: the names, and then a number for each, which the kernel is not
\* told to count.
ReadDir(t) ==
    /\ Calling(t, "readdir")
    /\ IF IsDir(req[t].path)
       THEN req' = [req EXCEPT ![t].pc = "list", ![t].todo = Children(req[t].path)]
       ELSE End(t)
    /\ UNCHANGED <<load, tree, table, handles, known, named>>

\* The table's lock once more.  The path is made from the directory's number
\* again, not from what the request resolved.
EnterName(i, n) == Append(by_ino[i].path, n)

List(t) ==
    /\ req[t].pc = "list"
    /\ IF req[t].todo = {} \/ req[t].ino \notin DOMAIN by_ino THEN End(t) /\ UNCHANGED table
       ELSE \E n \in req[t].todo :
              /\ SetTable(LookupOrInsert(EnterName(req[t].ino, n)))
              /\ req' = [req EXCEPT ![t].todo = @ \ {n}]
    /\ UNCHANGED <<load, tree, handles, known, named>>

\* A directory the kernel no longer knows: ENOENT or EIO.
Enter(t) ==
    /\ req[t].pc = "enter" /\ req[t].op # "rename"
    /\ IF req[t].ino \notin DOMAIN by_ino THEN End(t) /\ UNCHANGED <<table, handles>>
       ELSE LET p == EnterName(req[t].ino, req[t].name)
            IN /\ SetTable(LookupOrInsert(p))
               /\ req' = [req EXCEPT ![t].pc = "reply", ![t].num = by_path'[p]]
               /\ handles' = IF req[t].op = "create" THEN handles \cup {req[t].obj} ELSE handles
    /\ UNCHANGED <<load, tree, known, named>>

RenameEnter(t) ==
    /\ req[t].pc = "enter" /\ req[t].op = "rename"
    /\ IF {req[t].ino, req[t].to} \subseteq DOMAIN by_ino
       THEN SetTable(RenamePath(EnterName(req[t].ino, req[t].name), EnterName(req[t].to, req[t].toname)))
       ELSE UNCHANGED table
    /\ End(t)
    /\ UNCHANGED <<load, tree, handles, known, named>>

-----------------------------------------------------------------------------
(* The kernel                                                               *)

\* The entry reply arrives.
Reply(t) ==
    /\ req[t].pc = "reply"
    /\ known' = [known EXCEPT ![req[t].num] = @ + 1]
    /\ named' = [named EXCEPT ![req[t].num] = req[t].obj]
    /\ End(t)
    /\ UNCHANGED <<load, tree, table, handles>>

Uses(t, i) == req[t] # Idle /\ i \in {req[t].ino, req[t].to}

\* forget: lookups of a number no request of the kernel's is using are taken
\* back, all or one; a directory's only after those of what is in it.
Forget(i) ==
    /\ i # Root /\ known[i] > 0
    /\ \A t \in Threads : ~Uses(t, i)
    /\ \A j \in Inos : known[j] > 0 /\ j # i /\ {i, j} \subseteq DOMAIN by_ino =>
                          ~IsUnder(by_ino[j].path, by_ino[i].path)
    /\ \E n \in {1, known[i]} :
          /\ known' = [known EXCEPT ![i] = @ - n]
          /\ IF i \in DOMAIN by_ino THEN SetTable(ForgetNumber(i, n)) ELSE UNCHANGED table
          /\ named' = IF n = known[i] THEN [named EXCEPT ![i] = None] ELSE named
    /\ UNCHANGED <<load, tree, handles, req>>

-----------------------------------------------------------------------------

Init ==
    /\ load \in Workloads
    /\ backing = <<>> /\ dirs = {}
    /\ by_ino = InitTable.by_ino /\ by_path = InitTable.by_path /\ next_ino = InitTable.next
    /\ handles = {}
    /\ req = [t \in Threads |-> Idle]
    /\ known = [i \in Inos |-> IF i = Root THEN 1 ELSE 0]
    /\ named = [i \in Inos |-> None]

Next ==
    \/ \E t \in Threads :
          \/ Request(t) \/ Lookup(t) \/ Create(t) \/ Mkdir(t)
          \/ Remove(t, "unlink") \/ Remove(t, "rmdir") \/ RenameMove(t) \/ Open(t) \/ Setattr(t)
          \/ ReadDir(t) \/ List(t) \/ Enter(t) \/ RenameEnter(t) \/ Reply(t)
    \/ \E o \in Objects : Release(o)
    \/ \E i \in Inos : Forget(i)

Spec == Init /\ [][Next]_vars

-----------------------------------------------------------------------------

\* The types, and that a path in by_path leads to a number of that path.
TypeOK ==
    /\ DOMAIN by_ino \subseteq Inos /\ DOMAIN by_path \subseteq Paths
    /\ \A i \in DOMAIN by_ino : by_ino[i].path \in Paths /\ by_ino[i].count \in 1 .. MaxLookups + 2
    /\ \A p \in DOMAIN by_path : by_path[p] \in DOMAIN by_ino /\ by_ino[by_path[p]].path = p
    /\ next_ino \in 2 .. MaxIno + 1
    /\ DOMAIN backing \subseteq Paths /\ dirs \cup handles \subseteq Objects
    /\ \A p \in DOMAIN backing : IsDir(SubSeq(p, 1, Len(p) - 1))
    /\ load.renames \in {"fresh", "any"}

\* A number the kernel knows stays in the table, whatever lookups of its name
\* are on their way when it is forgotten: it is counted at least as often as
\* the kernel and the replies not yet delivered count it.
KernelKnown ==
    \A i \in Inos \ {Root} :
        LET replies == Cardinality({t \in Threads : req[t] # Idle /\ req[t].num = i})
        IN known[i] + replies > 0 =>
              i \in DOMAIN by_ino /\ by_ino[i].count >= known[i] + replies

\* A number stands for the object the kernel was given it for while that object
\* is in the tree, and is the only one that does: its path leads to the object,
\* and a lookup of that path to the number; a rename changes one after the other.
\* What sets attributes of a number changes that object and no other.
NumberServes ==
    /\ \A i \in Inos \ {Root} :
        /\ InTree(named[i])
        /\ \A t \in Threads : req[t].op = "rename" => req[t].pc # "enter"
        => LET p == by_ino[i].path
           IN /\ p \in DOMAIN backing /\ backing[p] = named[i]
              /\ p \in DOMAIN by_path /\ by_path[p] = i
    /\ \A t \in Threads : req[t].op = "setattr" => req[t].obj \in {None, named[req[t].ino]}
=============================================================================
