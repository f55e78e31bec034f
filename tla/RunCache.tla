------------------------------ MODULE RunCache ------------------------------
(***************************************************************************)
(* The dashboard's parse cache (internal/dashboard/runcache.go) over one   *)
(* run file that pi rewrites, with the loader that fronts it (readRun of   *)
(* state.go).  The poller and the detail requests share the cache, and a   *)
(* read is several system calls: the stat that makes the key, the lookup   *)
(* under the lock, the parse outside it, the store under it again.         *)
(*                                                                         *)
(* The contents of the run file are versions 1, 2, ...  A write truncates  *)
(* the file first, so a read may find it torn; pi may keep the version it  *)
(* is about to replace as .bak.  The stat key (mtime, size) is taken to    *)
(* differ between any two writes: it is the pair <<version, state>>.       *)
(***************************************************************************)
EXTENDS Naturals

CONSTANTS
  Readers,  \* goroutines that read run files: the poller's tick, detail requests
  MaxVer    \* bound: versions of the run file

ASSUME RunCacheAssumption == MaxVer \in Nat \ {0}

VARIABLES
  written,  \* the last version pi began to write
  state,    \* the file: "absent", "torn" or "whole"
  bak,      \* the version in .bak, 0 when there is none
  entry,    \* the cache's entry for this path
  rd        \* the readers' locals

diskVars  == <<written, state, bak>>
cacheVars == <<written, state, bak, entry, rd>>

Key     == (0..MaxVer) \X {"torn", "whole"}
Entry   == [key : Key, ver : 1..MaxVer]
NoEntry == [key |-> <<0, "torn">>, ver |-> 0]

ReadPc == {"idle", "stat", "drop", "lookup", "parse", "parseBak", "store",
           "recover", "recoverBak", "done"}
Idle   == [pc |-> "idle", key |-> NoEntry.key, ver |-> 0]

CacheTypeOK ==
  /\ written \in 0..MaxVer
  /\ state \in {"absent", "torn", "whole"}
  /\ bak \in 0..MaxVer
  /\ entry \in Entry \cup {NoEntry}
  /\ rd \in [Readers -> [pc : ReadPc, key : Key, ver : 0..MaxVer]]

CacheInit ==
  /\ written = 0 /\ state = "absent" /\ bak = 0
  /\ entry = NoEntry
  /\ rd = [r \in Readers |-> Idle]

\* os.Stat of the primary file: what the cache compares.
StatKey == <<written, state>>

(***************************************************************************)
(* pi, and whoever removes the directory.                                  *)
(***************************************************************************)
BeginWrite ==
  /\ written < MaxVer
  /\ written' = written + 1 /\ state' = "torn"
  /\ bak' \in IF state = "whole" THEN {bak, written} ELSE {bak}
  /\ UNCHANGED <<entry, rd>>

EndWrite ==
  /\ state = "torn"
  /\ state' = "whole"
  /\ UNCHANGED <<written, bak, entry, rd>>

\* The run file is removed, with its .bak or without it.
RemoveFile ==
  /\ state # "absent"
  /\ state' = "absent" /\ bak' \in {0, bak}
  /\ UNCHANGED <<written, entry, rd>>

(***************************************************************************)
(* decodeRunFile of the primary and of .bak; 0 stands for an error.        *)
(***************************************************************************)
Primary == IF state = "whole" THEN written ELSE 0

\* ReadRun, when nothing happens between its two reads.
Readable == IF Primary # 0 THEN Primary ELSE bak

(***************************************************************************)
(* readRun for reader r.  The caller sees the version in rd[r].ver, 0 for  *)
(* no run, when rd[r].pc = "done".                                         *)
(***************************************************************************)
\* The call; without a run id it returns at once.
CallRead(r, hasRunId) ==
  rd' = [rd EXCEPT ![r] = [Idle EXCEPT !.pc = IF hasRunId THEN "stat" ELSE "done"]]

ReadStat(r) ==
  /\ rd[r].pc = "stat"
  /\ rd' = [rd EXCEPT ![r] = IF state = "absent"
                             THEN [@ EXCEPT !.pc = "drop"]
                             ELSE [@ EXCEPT !.pc = "lookup", !.key = StatKey]]
  /\ UNCHANGED <<diskVars, entry>>

\* The file is gone: the entry is dropped and the read fails.
ReadDrop(r) ==
  /\ rd[r].pc = "drop"
  /\ entry' = NoEntry
  /\ rd' = [rd EXCEPT ![r].pc = "recover"]
  /\ UNCHANGED diskVars

\* sweepLocked: entries unused for the TTL may go, the one looked up included.
Swept == {entry, NoEntry}

Hit_Bug(e, key) == e # NoEntry

Hit(e, key) == e # NoEntry /\ e.key = key

ReadLookup(r) ==
  /\ rd[r].pc = "lookup"
  /\ \E e \in Swept :
       /\ entry' = e
       /\ rd' = [rd EXCEPT ![r] =
            IF Hit(e, @.key)
            THEN [@ EXCEPT !.pc = "done", !.ver = e.ver]
            ELSE [@ EXCEPT !.pc = "parse"]]
  /\ UNCHANGED diskVars

\* defaultParse is ReadRun: the primary first, then .bak.
ReadParse(r) ==
  /\ rd[r].pc = "parse"
  /\ rd' = [rd EXCEPT ![r] = IF Primary # 0
                             THEN [@ EXCEPT !.pc = "store", !.ver = Primary]
                             ELSE [@ EXCEPT !.pc = "parseBak"]]
  /\ UNCHANGED <<diskVars, entry>>

ReadParseBak(r) ==
  /\ rd[r].pc = "parseBak"
  /\ rd' = [rd EXCEPT ![r] = IF bak # 0
                             THEN [@ EXCEPT !.pc = "store", !.ver = bak]
                             ELSE [@ EXCEPT !.pc = "recover"]]
  /\ UNCHANGED <<diskVars, entry>>

ReadStore_Bug(r) ==
  /\ rd[r].pc = "store"
  /\ entry' = [key |-> IF state = "absent" THEN rd[r].key ELSE StatKey, ver |-> rd[r].ver]
  /\ rd' = [rd EXCEPT ![r].pc = "done"]
  /\ UNCHANGED diskVars

\* What was parsed is stored under the key of the earlier stat.
ReadStore(r) ==
  /\ rd[r].pc = "store"
  /\ entry' = [key |-> rd[r].key, ver |-> rd[r].ver]
  /\ rd' = [rd EXCEPT ![r].pc = "done"]
  /\ UNCHANGED diskVars

\* The read failed: readRun calls ReadRun, and caches nothing.
ReadRecover(r) ==
  /\ rd[r].pc = "recover"
  /\ rd' = [rd EXCEPT ![r] = IF Primary # 0
                             THEN [@ EXCEPT !.pc = "done", !.ver = Primary]
                             ELSE [@ EXCEPT !.pc = "recoverBak"]]
  /\ UNCHANGED <<diskVars, entry>>

ReadRecoverBak(r) ==
  /\ rd[r].pc = "recoverBak"
  /\ rd' = [rd EXCEPT ![r] = [@ EXCEPT !.pc = "done", !.ver = bak]]
  /\ UNCHANGED <<diskVars, entry>>

ReadStep(r) ==
  \/ ReadStat(r) \/ ReadDrop(r) \/ ReadLookup(r) \/ ReadParse(r) \/ ReadParseBak(r)
  \/ ReadStore(r) \/ ReadRecover(r) \/ ReadRecoverBak(r)

(***************************************************************************)
(* Properties                                                              *)
(***************************************************************************)

\* A hit never serves an older run than the file holds: an entry whose key is
\* the file's own key is the file's content, although it was parsed after the
\* stat, possibly from .bak, while pi and other readers went on.
CacheCoherent ==
  state = "whole" /\ entry # NoEntry /\ entry.key = StatKey => entry.ver = written

\* The key of a whole file never comes back once the file is torn or removed: the
\* next write has a greater version.
Past(key) ==
  /\ key[1] <= written
  /\ key[2] = "whole" /\ key[1] = written => state # "torn"

\* The inductive strengthening of CacheCoherent: what a reader is about to store
\* under the file's own key is the file's content; one that found the primary
\* unreadable holds a key that will not match again.
KeysCoherent ==
  /\ CacheCoherent /\ Past(entry.key)
  /\ state # "absent" => written # 0
  /\ \A r \in Readers :
       /\ Past(rd[r].key)
       /\ rd[r].pc = "store" => rd[r].ver # 0
       /\ state = "whole" /\ rd[r].key = StatKey =>
            /\ rd[r].pc = "store" => rd[r].ver = written
            /\ rd[r].pc # "parseBak"

=============================================================================
