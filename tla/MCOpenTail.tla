---------------------------- MODULE MCOpenTail ----------------------------
(* Small instances of OpenTail for TLC.                                     *)
EXTENDS OpenTail

New == {[blocks |-> <<>>, tail |-> <<>>, size |-> 0]}

\* As ingest leaves a file of one and a half chunks: the last block is
\* short and sits in the index.
Ingested == {[blocks |-> <<<<1, 1>>, <<1>>>>, tail |-> <<>>, size |-> 3]}

\* The same with less than one chunk.
Short == {[blocks |-> <<<<1>>>>, tail |-> <<>>, size |-> 1]}

\* A session log in the shadow store: appends and the tail journal.
Log == [chunk |-> 3, buffer |-> TRUE, journal |-> TRUE, files |-> New, bytes |-> {1, 2}, size |-> 8, write |-> 4,
           ops |-> {"append", "fsync", "release", "forget", "crash"}, faults |-> {"before"}]

\* Everything a file system offers, over a store without a journal: with the
\* tail buffer and without it.
Posix == {"append", "write", "sparse", "truncate", "grow", "fsync", "release", "forget", "crash"}
Mixed == [chunk |-> 2, buffer |-> TRUE, journal |-> FALSE, files |-> Ingested, bytes |-> {1}, size |-> 5, write |-> 2,
          ops |-> Posix, faults |-> {"before"}]
Rmw == [chunk |-> 2, buffer |-> FALSE, journal |-> FALSE, files |-> Ingested, bytes |-> {1}, size |-> 3, write |-> 2,
        ops |-> Posix \ {"release", "forget", "grow"}, faults |-> {"before", "after", "late"}]

MCModes == {Log, Mixed, Rmw}
ASSUME ModesSupported == Supported(MCModes)

\* Mounts that are not supported: a short last block in the index, an overwrite
\* that waits when the tail is journaled, a journal published by an fsync that
\* failed, a write past a short last block.
MCReopened == {[chunk |-> 3, buffer |-> TRUE, journal |-> TRUE, files |-> Short, bytes |-> {1, 2}, size |-> 5, write |-> 2,
                ops |-> {"append", "fsync", "crash"}, faults |-> {}]}
MCContract == {[chunk |-> 2, buffer |-> TRUE, journal |-> TRUE, files |-> New, bytes |-> {1, 2}, size |-> 4, write |-> 2,
                ops |-> {"append", "write", "fsync"}, faults |-> {}]}
MCRetried == {[chunk |-> 3, buffer |-> TRUE, journal |-> TRUE, files |-> New, bytes |-> {1, 2}, size |-> 4, write |-> 2,
               ops |-> {"append", "fsync"}, faults |-> {"after"}]}
MCHole == {[chunk |-> 2, buffer |-> FALSE, journal |-> FALSE, files |-> New, bytes |-> {1, 2}, size |-> 4, write |-> 2,
            ops |-> {"write", "hole"}, faults |-> {}]}
=============================================================================
