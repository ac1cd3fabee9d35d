---------------------------- MODULE TableCacheFile -----------------------------
(***************************************************************************)
(* The disk cache of the fixed-base table, shared by processes:            *)
(* load_precompute_cache_locked(), save_precompute_cache_locked() and the  *)
(* part of ensure_built_locked() that calls them                           *)
(* (src/cpu/src/precompute.cpp).  g_mutex leaves one of these running at a *)
(* time in a process, so a process is one actor here.                      *)
(*                                                                         *)
(* A file is a sequence of cells, each standing for the header (the first) *)
(* or a run of points, and a cell is the shape (window width, GLV) of the  *)
(* table it was written from.  Directory entries name inodes, so a reader  *)
(* keeps the file it opened when the name goes to another.                 *)
(***************************************************************************)
EXTENDS Integers, Sequences

CONSTANTS
  Procs,        (* processes that use one cache path                       *)
  Shapes,       (* table shapes                                            *)
  Shape,        (* Shape[p]: the shape p is configured for                 *)
  Size,         (* Size[s]: cells of a complete file of shape s            *)
  MinSize,      (* MinSize[s]: cells that min_size amounts to              *)
  Pids,         (* process ids, reused after a process has ended           *)
  Inodes, None,
  Hole,         (* a cell nobody wrote                                     *)
  Ours,         (* cache_path_is_ours()                                    *)
  MaxStarts     (* bound: process starts, all together                     *)

ASSUME CacheAssumption ==
  /\ Shape \in [Procs -> Shapes]
  /\ Size \in [Shapes -> Nat \ {0}] /\ MinSize \in [Shapes -> Nat]
  /\ None \notin Inodes \cup Pids /\ Hole \notin Shapes
  /\ "final" \notin Pids
  /\ Ours \in BOOLEAN /\ MaxStarts \in Nat

(* The cache path, and path.tmp.<pid> for every pid.                       *)
Names == {"final"} \cup Pids

(* The first n cells of a file of shape s, and the file.                   *)
Prefix(s, n) == [k \in 1..n |-> s]
Whole(s) == Prefix(s, Size[s])

VARIABLES
  dir,          (* dir[name]: inode or None                                *)
  data,         (* data[i]: the cells of inode i                           *)
  pc,           (* where each process is                                   *)
  pid,          (* getpid()                                                *)
  fd,           (* the inode the stream is open on                         *)
  buf,          (* the cells read so far                                   *)
  pos,          (* cells written so far                                    *)
  table,        (* the cells of the published context, <<>> if none        *)
  cleanup,      (* cleanup[p]: the path is registered for removal on exit  *)
  starts        (* process starts so far, bounded by MaxStarts             *)

vars == <<dir, data, pc, pid, fd, buf, pos, table, cleanup, starts>>

Loading == {"header", "size", "points"}
Saving  == {"write", "close", "rename"}

(* The disk may hold a file of any shape, complete or cut short (by a full *)
(* disk, or a version that did not write through a temporary file).        *)
Init ==
  /\ \E i \in Inodes : \E s \in Shapes : \E n \in 0..Size[s] :
       /\ dir \in {[x \in Names |-> None], [x \in Names |-> IF x = "final" THEN i ELSE None]}
       /\ data = [j \in Inodes |-> IF j = i THEN Prefix(s, n) ELSE <<>>]
  /\ pc = [p \in Procs |-> "down"]
  /\ pid = [p \in Procs |-> None] /\ fd = [p \in Procs |-> None]
  /\ buf = [p \in Procs |-> <<>>] /\ pos = [p \in Procs |-> 0]
  /\ table = [p \in Procs |-> <<>>]
  /\ cleanup = [p \in Procs |-> FALSE]
  /\ starts = 0

Goto(p, to) == pc' = [pc EXCEPT ![p] = to]

-----------------------------------------------------------------------------
(* Processes                                                               *)

(* Broken variant: the pid of another process.                             *)
StartAnyPid(p) ==
  /\ pc[p] = "down" /\ starts < MaxStarts
  /\ starts' = starts + 1
  /\ \E n \in Pids : pid' = [pid EXCEPT ![p] = n]
  /\ Goto(p, "load")
  /\ UNCHANGED <<dir, data, fd, buf, pos, table, cleanup>>

Start(p) ==
  /\ pc[p] = "down" /\ starts < MaxStarts
  /\ starts' = starts + 1
  /\ \E n \in Pids \ {pid[q] : q \in Procs} : pid' = [pid EXCEPT ![p] = n]
  /\ Goto(p, "load")
  /\ UNCHANGED <<dir, data, fd, buf, pos, table, cleanup>>

(* What the system takes back when a process ends.                         *)
Gone(p) ==
  /\ Goto(p, "down")
  /\ pid' = [pid EXCEPT ![p] = None]
  /\ fd' = [fd EXCEPT ![p] = None]
  /\ buf' = [buf EXCEPT ![p] = <<>>]
  /\ pos' = [pos EXCEPT ![p] = 0]
  /\ table' = [table EXCEPT ![p] = <<>>]
  /\ cleanup' = [cleanup EXCEPT ![p] = FALSE]

(* A crash, a kill, or an exception out of the build.                      *)
Crash(p) ==
  /\ pc[p] # "down"
  /\ Gone(p)
  /\ UNCHANGED <<dir, data, starts>>

(* exit(): atexit removes a file in the temporary directory.               *)
Exit(p) ==
  /\ pc[p] = "ready"
  /\ Gone(p)
  /\ dir' = IF cleanup[p] THEN [dir EXCEPT !["final"] = None] ELSE dir
  /\ UNCHANGED <<data, starts>>

-----------------------------------------------------------------------------
(* load_precompute_cache_locked()                                          *)

LoadOpen(p) ==
  /\ pc[p] = "load"
  /\ fd' = [fd EXCEPT ![p] = dir["final"]]
  /\ Goto(p, IF dir["final"] = None THEN "build" ELSE "header")
  /\ UNCHANGED <<dir, data, pid, buf, pos, table, cleanup, starts>>

(* Every early return closes the stream and leaves the build to be done.   *)
GiveUp(p) ==
  /\ fd' = [fd EXCEPT ![p] = None]
  /\ buf' = [buf EXCEPT ![p] = <<>>]
  /\ Goto(p, "build")

(* validate_cache_header_for_config()                                      *)
LoadHeader(p) ==
  /\ pc[p] = "header"
  /\ LET file == data[fd[p]] IN
     IF Len(file) >= 1 /\ file[1] = Shape[p]
       THEN /\ buf' = [buf EXCEPT ![p] = <<file[1]>>]
            /\ Goto(p, "size")
            /\ UNCHANGED fd
       ELSE GiveUp(p)
  /\ UNCHANGED <<dir, data, pid, pos, table, cleanup, starts>>

(* A lower bound: a point at infinity takes a byte, any other 65.          *)
LoadSize(p) ==
  /\ pc[p] = "size"
  /\ IF Len(data[fd[p]]) >= MinSize[Shape[p]]
       THEN Goto(p, "points") /\ UNCHANGED <<fd, buf>>
       ELSE GiveUp(p)
  /\ UNCHANGED <<dir, data, pid, pos, table, cleanup, starts>>

(* The stream is exhausted before the tables are full.                     *)
LoadTruncated(p) ==
  /\ pc[p] = "points" /\ Len(buf[p]) < Size[Shape[p]]
  /\ Len(data[fd[p]]) <= Len(buf[p])
  /\ GiveUp(p)
  /\ UNCHANGED <<dir, data, pid, pos, table, cleanup, starts>>

LoadPoint(p) ==
  /\ pc[p] = "points" /\ Len(buf[p]) < Size[Shape[p]]
  /\ Len(data[fd[p]]) > Len(buf[p])
  /\ buf' = [buf EXCEPT ![p] = Append(@, data[fd[p]][Len(@) + 1])]
  /\ UNCHANGED <<dir, data, pc, pid, fd, pos, table, cleanup, starts>>

(* Broken variant: what could be read is published.                        *)
LoadDoneShort(p) ==
  /\ pc[p] = "points" /\ Len(data[fd[p]]) <= Len(buf[p])
  /\ table' = [table EXCEPT ![p] = buf[p]]
  /\ fd' = [fd EXCEPT ![p] = None]
  /\ Goto(p, "ready")
  /\ UNCHANGED <<dir, data, pid, buf, pos, cleanup, starts>>

LoadDone(p) ==
  /\ pc[p] = "points" /\ Len(buf[p]) = Size[Shape[p]]
  /\ table' = [table EXCEPT ![p] = buf[p]]
  /\ fd' = [fd EXCEPT ![p] = None]
  /\ Goto(p, "ready")
  /\ UNCHANGED <<dir, data, pid, buf, pos, cleanup, starts>>

-----------------------------------------------------------------------------
(* ensure_built_locked(): no cache file could be loaded                    *)

(* Broken variant: a file that does not load is tried again.               *)
BuildRetriesLoad(p) ==
  /\ pc[p] = "build"
  /\ Goto(p, IF dir["final"] = None THEN "save" ELSE "load")
  /\ table' = [table EXCEPT ![p] = IF dir["final"] = None THEN Whole(Shape[p]) ELSE <<>>]
  /\ UNCHANGED <<dir, data, pid, fd, buf, pos, cleanup, starts>>

Build(p) ==
  /\ pc[p] = "build"
  /\ table' = [table EXCEPT ![p] = Whole(Shape[p])]
  /\ Goto(p, "save")
  /\ UNCHANGED <<dir, data, pid, fd, buf, pos, cleanup, starts>>

-----------------------------------------------------------------------------
(* save_precompute_cache_locked()                                          *)

Unreferenced == {i \in Inodes : (\A x \in Names : dir[x] # i) /\ (\A p \in Procs : fd[p] # i)}

(* Opening for writing truncates the file the name has, or makes one.      *)
OpenAs(p, name) ==
  \E i \in (IF dir[name] # None THEN {dir[name]} ELSE Unreferenced) :
     /\ dir' = [dir EXCEPT ![name] = i]
     /\ data' = [data EXCEPT ![i] = <<>>]
     /\ fd' = [fd EXCEPT ![p] = i]

(* Broken variant: the cache file is written in place.                     *)
SaveOpenInPlace(p) ==
  /\ pc[p] = "save"
  /\ OpenAs(p, "final")
  /\ pos' = [pos EXCEPT ![p] = 0]
  /\ Goto(p, "write")
  /\ UNCHANGED <<pid, buf, table, cleanup, starts>>

SaveOpen(p) ==
  /\ pc[p] = "save"
  /\ OpenAs(p, pid[p])
  /\ pos' = [pos EXCEPT ![p] = 0]
  /\ Goto(p, "write")
  /\ UNCHANGED <<pid, buf, table, cleanup, starts>>

SaveOpenFails(p) ==
  /\ pc[p] = "save"
  /\ Goto(p, "ready")
  /\ UNCHANGED <<dir, data, pid, fd, buf, pos, table, cleanup, starts>>

(* A file after a write of one cell behind its first n.                    *)
WriteAt(file, n, cell) ==
  [k \in 1..(IF Len(file) > n THEN Len(file) ELSE n + 1) |->
     IF k = n + 1 THEN cell ELSE IF k <= Len(file) THEN file[k] ELSE Hole]

SaveWrite(p) ==
  /\ pc[p] = "write" /\ pos[p] < Size[Shape[p]]
  /\ pos' = [pos EXCEPT ![p] = @ + 1]
  /\ data' = [data EXCEPT ![fd[p]] = WriteAt(@, pos[p], table[p][pos[p] + 1])]
  /\ UNCHANGED <<dir, pc, pid, fd, buf, table, cleanup, starts>>

SaveWritten(p) ==
  /\ pc[p] = "write" /\ pos[p] = Size[Shape[p]]
  /\ Goto(p, "close")
  /\ UNCHANGED <<dir, data, pid, fd, buf, pos, table, cleanup, starts>>

(* Broken variants: after a failed write the temporary file is renamed all *)
(* the same, or is left behind.                                            *)
SaveErrorIgnored(p) ==
  /\ pc[p] \in {"write", "close"}
  /\ fd' = [fd EXCEPT ![p] = None]
  /\ Goto(p, "rename")
  /\ UNCHANGED <<dir, data, pid, buf, pos, table, cleanup, starts>>

SaveErrorLitters(p) ==
  /\ pc[p] \in {"write", "close"}
  /\ fd' = [fd EXCEPT ![p] = None]
  /\ Goto(p, "ready")
  /\ UNCHANGED <<dir, data, pid, buf, pos, table, cleanup, starts>>

(* A write or the close fails (the disk is full): the temporary file goes. *)
SaveError(p) ==
  /\ pc[p] \in {"write", "close"}
  /\ dir' = [dir EXCEPT ![pid[p]] = None]
  /\ fd' = [fd EXCEPT ![p] = None]
  /\ Goto(p, "ready")
  /\ UNCHANGED <<data, pid, buf, pos, table, cleanup, starts>>

SaveClose(p) ==
  /\ pc[p] = "close"
  /\ fd' = [fd EXCEPT ![p] = None]
  /\ Goto(p, "rename")
  /\ UNCHANGED <<dir, data, pid, buf, pos, table, cleanup, starts>>

SaveRename(p) ==
  /\ pc[p] = "rename" /\ dir[pid[p]] # None
  /\ dir' = [dir EXCEPT !["final"] = dir[pid[p]], ![pid[p]] = None]
  /\ cleanup' = [cleanup EXCEPT ![p] = Ours]
  /\ Goto(p, "ready")
  /\ UNCHANGED <<data, pid, fd, buf, pos, table, starts>>

(* rename() refuses: the temporary file goes.                              *)
SaveRenameFails(p) ==
  /\ pc[p] = "rename"
  /\ dir' = [dir EXCEPT ![pid[p]] = None]
  /\ Goto(p, "ready")
  /\ UNCHANGED <<data, pid, fd, buf, pos, table, cleanup, starts>>

-----------------------------------------------------------------------------
Load(p) == \/ LoadOpen(p) \/ LoadHeader(p) \/ LoadSize(p) \/ LoadTruncated(p)
           \/ LoadPoint(p) \/ LoadDone(p)
Save(p) == \/ SaveOpen(p) \/ SaveOpenFails(p) \/ SaveWrite(p) \/ SaveWritten(p)
           \/ SaveError(p) \/ SaveClose(p) \/ SaveRename(p) \/ SaveRenameFails(p)

EnsureBuilt(p) == Load(p) \/ Build(p) \/ Save(p)

Next == \E p \in Procs : Start(p) \/ Crash(p) \/ Exit(p) \/ EnsureBuilt(p)

Spec == Init /\ [][Next]_vars

(* A process that runs makes progress.  Nothing has to start, end or crash. *)
FairSpec == Spec /\ \A p \in Procs : WF_vars(EnsureBuilt(p))

-----------------------------------------------------------------------------
Cells == Shapes \cup {Hole}

(* Every variable keeps its type, and live processes have pids of their    *)
(* own.                                                                    *)
TypeOK ==
  /\ dir \in [Names -> Inodes \cup {None}]
  /\ data \in [Inodes -> Seq(Cells)]
  /\ pc \in [Procs -> Loading \cup Saving \cup {"down", "load", "build", "save", "ready"}]
  /\ pid \in [Procs -> Pids \cup {None}]
  /\ fd \in [Procs -> Inodes \cup {None}]
  /\ buf \in [Procs -> Seq(Cells)] /\ table \in [Procs -> Seq(Cells)]
  /\ pos \in [Procs -> Nat]
  /\ cleanup \in [Procs -> BOOLEAN] /\ starts \in 0..MaxStarts
  /\ \A p, q \in Procs : p # q /\ pid[p] = pid[q] => pid[p] = None

(* A process computes with the whole table of its own configuration,       *)
(* whatever the file held and whoever replaced it meanwhile.               *)
LoadedWhole == \A p \in Procs : pc[p] = "ready" => table[p] = Whole(Shape[p])

(* The name of the cache only ever goes to a complete file ("readers see   *)
(* either the old complete file or the new complete file").                *)
PublishesWhole == [][dir["final"]' # dir["final"] /\ dir["final"]' # None =>
                       \E s \in Shapes : data'[dir'["final"]] = Whole(s)]_vars

(* The file a process is reading does not change under it.                 *)
ReadersUndisturbed == [][\A p \in Procs : pc[p] \in Loading =>
                           data'[fd[p]] = data[fd[p]]]_vars

(* Only a process that crashed leaves a temporary file behind: one that    *)
(* has written and is done, well or badly, has none.                       *)
NoLitter == \A p \in Procs : pc[p] = "ready" /\ pos[p] > 0 => dir[pid[p]] = None

(* ensure_built_locked() always comes to an end, whatever the file holds.  *)
GetsTable == \A p \in Procs : pc[p] = "load" ~> pc[p] \in {"ready", "down"}
-----------------------------------------------------------------------------
(* The inductive invariant.  A live process has a pid; an inode has at     *)
(* most one name; a file being written is its writer's temporary file and  *)
(* holds what was written so far; a file being read has no temporary name  *)
(* and, like the cache file, is one writer's file, perhaps cut short.      *)
LiveInv == \A p \in Procs :
  /\ pid[p] = None <=> pc[p] = "down"
  /\ pc[p] \in {"down", "load", "header", "size", "points", "build", "save"} => pos[p] = 0

NamesInv == \A x, y \in Names : dir[x] # None /\ dir[x] = dir[y] => x = y

Writer(p) ==
  /\ pc[p] \in {"write", "close"} =>
       /\ fd[p] # None /\ dir[pid[p]] = fd[p]
       /\ pos[p] <= Size[Shape[p]]
       /\ data[fd[p]] = Prefix(Shape[p], pos[p])
  /\ pc[p] = "close" => pos[p] = Size[Shape[p]]
  /\ pc[p] = "rename" => /\ dir[pid[p]] # None
                         /\ data[dir[pid[p]]] = Whole(Shape[p])

WriteInv == \A p \in Procs : Writer(p)

CutShort(file) == \E s \in Shapes : \E n \in 0..Size[s] : file = Prefix(s, n)

FileInv == dir["final"] # None => CutShort(data[dir["final"]])

ReadInv == \A p \in Procs : pc[p] \in Loading =>
  /\ fd[p] # None
  /\ \A x \in Pids : dir[x] # fd[p]
  /\ CutShort(data[fd[p]])
  /\ pc[p] # "header" => /\ data[fd[p]] = Prefix(Shape[p], Len(data[fd[p]]))
                         /\ Len(buf[p]) <= Size[Shape[p]]
                         /\ buf[p] = Prefix(Shape[p], Len(buf[p]))

TableInv == \A p \in Procs :
  pc[p] \in Saving \cup {"save", "ready"} => table[p] = Whole(Shape[p])

IInv == TypeOK /\ LiveInv /\ NamesInv /\ WriteInv /\ FileInv /\ ReadInv /\ TableInv /\ NoLitter
================================================================================
