------------------------- MODULE TableCacheFile_proofs -------------------------
(***************************************************************************)
(* Proofs about TableCacheFile, for any number of processes, pids, table   *)
(* shapes and file sizes: IInv is inductive (one lemma per action), and    *)
(* the safety properties follow from it.                                   *)
(***************************************************************************)
EXTENDS TableCacheFile, SequenceTheorems, TLAPS

USE CacheAssumption DEF Names, Loading, Saving

(* What a prefix of a file is.                                             *)
LEMMA PrefixFacts ==
  ASSUME NEW s \in Shapes, NEW n \in Nat
  PROVE  /\ Prefix(s, n) \in Seq(Cells) /\ Len(Prefix(s, n)) = n
         /\ \A k \in 1..n : Prefix(s, n)[k] = s
BY DEF Prefix, Cells

(* A prefix of one cell.                                                   *)
LEMMA OneCell ==
  ASSUME NEW s \in Shapes
  PROVE  <<s>> = Prefix(s, 1)
<1>1. Len(<<s>>) = 1 /\ <<s>>[1] = s /\ <<s>> \in Seq(Shapes)
  OBVIOUS
<1> QED
  BY <1>1 DEF Prefix

(* A prefix grows by appending.                                            *)
LEMMA PrefixAppend ==
  ASSUME NEW s \in Shapes, NEW n \in Nat
  PROVE  Append(Prefix(s, n), s) = Prefix(s, n + 1)
<1> DEFINE f == Prefix(s, n)
           g == Append(f, s)
<1>1. f \in Seq(Cells) /\ Len(f) = n /\ \A k \in 1..n : f[k] = s
  BY PrefixFacts
<1>2. s \in Cells
  BY DEF Cells
<1> HIDE DEF f
<1>3. g \in Seq(Cells) /\ Len(g) = n + 1 /\ g[n + 1] = s /\ \A k \in 1..n : g[k] = f[k]
  BY <1>1, <1>2, AppendProperties
<1>4. /\ Prefix(s, n + 1) \in Seq(Cells) /\ Len(Prefix(s, n + 1)) = n + 1
      /\ \A k \in 1..(n + 1) : Prefix(s, n + 1)[k] = s
  <2>1. n + 1 \in Nat
    OBVIOUS
  <2> QED
    BY <2>1, PrefixFacts
<1>5. \A k \in 1..(n + 1) : k = n + 1 \/ k \in 1..n
  OBVIOUS
<1>6. \A k \in 1..(n + 1) : g[k] = Prefix(s, n + 1)[k]
  BY <1>1, <1>3, <1>4, <1>5
<1> HIDE DEF g
<1>7. g = Prefix(s, n + 1)
  BY <1>3, <1>4, <1>6, SeqEqual
<1> QED
  BY <1>7 DEF f, g

(* A prefix grows by writing behind its end.                               *)
LEMMA PrefixWrite ==
  ASSUME NEW s \in Shapes, NEW n \in Nat
  PROVE  WriteAt(Prefix(s, n), n, s) = Prefix(s, n + 1)
<1> DEFINE f == Prefix(s, n)
<1>1. Len(f) = n /\ \A k \in 1..n : f[k] = s
  BY PrefixFacts
<1> HIDE DEF f
<1>2. WriteAt(f, n, s) = [k \in 1..(n + 1) |-> s]
  BY <1>1 DEF WriteAt
<1> QED
  BY <1>2 DEF Prefix, f

(* A live process has a pid, and the temporary name is not the cache's.    *)
LEMMA LivePid ==
  ASSUME IInv, NEW p \in Procs, pc[p] # "down"
  PROVE  pid[p] \in Pids /\ pid[p] \in Names /\ pid[p] # "final"
<1>1. pid[p] \in Pids \cup {None} /\ pid[p] # None
  BY DEF IInv, TypeOK, LiveInv
<1> QED
  BY <1>1

(* IInv is kept by the start of a process.                                  *)
LEMMA StartStep ==
  ASSUME IInv, NEW p \in Procs, Start(p)
  PROVE  IInv'
<1> USE DEF Start, Goto
<1>1. TypeOK'
  BY DEF IInv, TypeOK
<1>2. LiveInv'
  BY DEF IInv, TypeOK, LiveInv
<1>3. NamesInv'
  BY DEF IInv, TypeOK, NamesInv
<1>4. WriteInv'
  BY DEF IInv, TypeOK, LiveInv, NamesInv, WriteInv, Writer
<1>5. FileInv'
  BY DEF IInv, TypeOK, FileInv, NamesInv
<1>6. ReadInv'
  BY DEF IInv, TypeOK, ReadInv, LiveInv, NamesInv
<1>7. TableInv'
  BY DEF IInv, TypeOK, TableInv
<1>8. NoLitter'
  BY DEF IInv, TypeOK, LiveInv, NoLitter
<1> QED
  BY <1>1, <1>2, <1>3, <1>4, <1>5, <1>6, <1>7, <1>8 DEF IInv

(* IInv is kept by a crash.                                                 *)
LEMMA CrashStep ==
  ASSUME IInv, NEW p \in Procs, Crash(p)
  PROVE  IInv'
<1> USE DEF Crash, Gone, Goto
<1>1. TypeOK'
  BY DEF IInv, TypeOK
<1>2. LiveInv'
  BY DEF IInv, TypeOK, LiveInv
<1>3. NamesInv'
  BY DEF IInv, TypeOK, NamesInv
<1>4. WriteInv'
  BY DEF IInv, TypeOK, LiveInv, NamesInv, WriteInv, Writer
<1>5. FileInv'
  BY DEF IInv, TypeOK, FileInv, NamesInv
<1>6. ReadInv'
  BY DEF IInv, TypeOK, ReadInv, LiveInv, NamesInv
<1>7. TableInv'
  BY DEF IInv, TypeOK, TableInv
<1>8. NoLitter'
  BY DEF IInv, TypeOK, LiveInv, NoLitter
<1> QED
  BY <1>1, <1>2, <1>3, <1>4, <1>5, <1>6, <1>7, <1>8 DEF IInv

(* IInv is kept by an orderly exit.                                         *)
LEMMA ExitStep ==
  ASSUME IInv, NEW p \in Procs, Exit(p)
  PROVE  IInv'
<1> USE DEF Exit, Gone, Goto
<1>1. TypeOK'
  BY DEF IInv, TypeOK
<1>2. LiveInv'
  BY DEF IInv, TypeOK, LiveInv
<1>3. NamesInv'
  BY DEF IInv, TypeOK, NamesInv
<1>4. WriteInv'
  BY DEF IInv, TypeOK, LiveInv, NamesInv, WriteInv, Writer
<1>5. FileInv'
  BY DEF IInv, TypeOK, FileInv, NamesInv
<1>6. ReadInv'
  BY DEF IInv, TypeOK, ReadInv, LiveInv, NamesInv
<1>7. TableInv'
  BY DEF IInv, TypeOK, TableInv
<1>8. NoLitter'
  BY DEF IInv, TypeOK, LiveInv, NoLitter
<1> QED
  BY <1>1, <1>2, <1>3, <1>4, <1>5, <1>6, <1>7, <1>8 DEF IInv

(* IInv is kept by opening the cache file.                                  *)
LEMMA LoadOpenStep ==
  ASSUME IInv, NEW p \in Procs, LoadOpen(p)
  PROVE  IInv'
<1> USE DEF LoadOpen, Goto
<1>1. TypeOK'
  BY DEF IInv, TypeOK
<1>2. LiveInv'
  BY DEF IInv, TypeOK, LiveInv
<1>3. NamesInv'
  BY DEF IInv, TypeOK, NamesInv
<1>4. WriteInv'
  BY DEF IInv, TypeOK, LiveInv, NamesInv, WriteInv, Writer
<1>5. FileInv'
  BY DEF IInv, TypeOK, FileInv, NamesInv
<1>6. ReadInv'
  <2>1. dir["final"] # None => /\ \A x \in Pids : dir[x] # dir["final"]
                             /\ CutShort(data[dir["final"]])
    BY DEF IInv, TypeOK, NamesInv, FileInv
  <2> QED
    BY <2>1 DEF IInv, TypeOK, ReadInv
<1>7. TableInv'
  BY DEF IInv, TypeOK, TableInv
<1>8. NoLitter'
  BY DEF IInv, TypeOK, LiveInv, NoLitter
<1> QED
  BY <1>1, <1>2, <1>3, <1>4, <1>5, <1>6, <1>7, <1>8 DEF IInv

(* IInv is kept by reading the header.                                      *)
LEMMA LoadHeaderStep ==
  ASSUME IInv, NEW p \in Procs, LoadHeader(p)
  PROVE  IInv'
<1> USE DEF LoadHeader, GiveUp, Goto
<1>a. fd[p] \in Inodes /\ data[fd[p]] \in Seq(Cells) /\ buf[p] \in Seq(Cells)
  BY DEF IInv, ReadInv, TypeOK
<1>b. \/ /\ Len(data[fd[p]]) >= 1 /\ data[fd[p]][1] = Shape[p]
         /\ buf' = [buf EXCEPT ![p] = <<Shape[p]>>]
         /\ pc' = [pc EXCEPT ![p] = "size"] /\ UNCHANGED fd
      \/ /\ buf' = [buf EXCEPT ![p] = <<>>]
         /\ pc' = [pc EXCEPT ![p] = "build"] /\ fd' = [fd EXCEPT ![p] = None]
  OBVIOUS
<1>c. pc[p] = "header" /\ UNCHANGED <<dir, data, pid, pos, table, cleanup, starts>>
  OBVIOUS
<1> HIDE DEF LoadHeader
<1>1. TypeOK'
  <2>1. <<Shape[p]>> \in Seq(Cells) /\ <<>> \in Seq(Cells)
    BY DEF Cells
  <2>2. buf' \in [Procs -> Seq(Cells)]
    BY <1>b, <2>1 DEF IInv, TypeOK
  <2>3. fd' \in [Procs -> Inodes \cup {None}]
    BY <1>b DEF IInv, TypeOK
  <2>4. \E l \in {"size", "build"} : pc' = [pc EXCEPT ![p] = l]
    BY <1>b
  <2> QED
    BY <1>c, <2>2, <2>3, <2>4 DEF IInv, TypeOK
<1>2. LiveInv'
  BY <1>b, <1>c DEF IInv, TypeOK, LiveInv
<1>3. NamesInv'
  BY <1>b, <1>c DEF IInv, NamesInv
<1>4. WriteInv'
  BY <1>b, <1>c DEF IInv, TypeOK, WriteInv, Writer
<1>5. FileInv'
  BY <1>b, <1>c DEF IInv, FileInv
<1>6. ReadInv'
  <2>1. CASE buf' = [buf EXCEPT ![p] = <<Shape[p]>>] /\ pc' = [pc EXCEPT ![p] = "size"] /\ UNCHANGED fd
             /\ Len(data[fd[p]]) >= 1 /\ data[fd[p]][1] = Shape[p]
    <3>1. PICK s \in Shapes : \E n \in 0..Size[s] : data[fd[p]] = Prefix(s, n)
      BY <1>c DEF IInv, ReadInv, CutShort
    <3>2. PICK n \in 0..Size[s] : data[fd[p]] = Prefix(s, n)
      BY <3>1
    <3>3. n \in Nat
      OBVIOUS
    <3>4. Len(data[fd[p]]) = n /\ \A k \in 1..n : data[fd[p]][k] = s
      BY <3>2, <3>3, PrefixFacts
    <3>5. s = Shape[p]
      BY <2>1, <3>3, <3>4
    <3>6. data[fd[p]] = Prefix(Shape[p], Len(data[fd[p]]))
      BY <3>2, <3>4, <3>5
    <3>7. Shape[p] \in Shapes /\ 1 <= Size[Shape[p]]
      OBVIOUS
    <3>8. <<Shape[p]>> = Prefix(Shape[p], 1) /\ Len(<<Shape[p]>>) = 1
      BY <3>7, OneCell
    <3>9. buf'[p] = Prefix(Shape[p], Len(buf'[p])) /\ Len(buf'[p]) <= Size[Shape[p]]
      BY <2>1, <3>7, <3>8 DEF IInv, TypeOK
    <3>10. \A q \in Procs : q # p => buf'[q] = buf[q] /\ pc'[q] = pc[q]
      BY <2>1 DEF IInv, TypeOK
    <3>11. UNCHANGED <<dir, data, fd>>
      BY <1>c, <2>1
    <3> QED
      BY <1>c, <3>6, <3>9, <3>10, <3>11 DEF IInv, ReadInv
  <2>2. CASE pc' = [pc EXCEPT ![p] = "build"] /\ fd' = [fd EXCEPT ![p] = None]
             /\ buf' = [buf EXCEPT ![p] = <<>>]
    <3>1. /\ pc'[p] = "build"
          /\ \A q \in Procs : q # p => buf'[q] = buf[q] /\ pc'[q] = pc[q] /\ fd'[q] = fd[q]
      BY <2>2 DEF IInv, TypeOK
    <3> QED
      BY <1>c, <3>1 DEF IInv, ReadInv
  <2> QED
    BY <1>b, <2>1, <2>2
<1>7. TableInv'
  BY <1>b, <1>c DEF IInv, TypeOK, TableInv
<1>8. NoLitter'
  BY <1>b, <1>c DEF IInv, TypeOK, NoLitter
<1> QED
  BY <1>1, <1>2, <1>3, <1>4, <1>5, <1>6, <1>7, <1>8 DEF IInv

(* IInv is kept by the size check.                                          *)
LEMMA LoadSizeStep ==
  ASSUME IInv, NEW p \in Procs, LoadSize(p)
  PROVE  IInv'
<1> USE DEF LoadSize, GiveUp, Goto
<1>a. fd[p] \in Inodes /\ data[fd[p]] \in Seq(Cells) /\ buf[p] \in Seq(Cells)
  BY DEF IInv, ReadInv, TypeOK
<1>b. \/ pc' = [pc EXCEPT ![p] = "points"] /\ UNCHANGED <<fd, buf>>
      \/ /\ buf' = [buf EXCEPT ![p] = <<>>]
         /\ pc' = [pc EXCEPT ![p] = "build"] /\ fd' = [fd EXCEPT ![p] = None]
  OBVIOUS
<1>c. pc[p] = "size" /\ UNCHANGED <<dir, data, pid, pos, table, cleanup, starts>>
  OBVIOUS
<1> HIDE DEF LoadSize
<1>1. TypeOK'
  <2>1. <<>> \in Seq(Cells)
    OBVIOUS
  <2>2. buf' \in [Procs -> Seq(Cells)]
    BY <1>b, <2>1 DEF IInv, TypeOK
  <2>3. fd' \in [Procs -> Inodes \cup {None}]
    BY <1>b DEF IInv, TypeOK
  <2>4. \E l \in {"points", "build"} : pc' = [pc EXCEPT ![p] = l]
    BY <1>b
  <2> QED
    BY <1>c, <2>2, <2>3, <2>4 DEF IInv, TypeOK
<1>2. LiveInv'
  BY <1>b, <1>c DEF IInv, TypeOK, LiveInv
<1>3. NamesInv'
  BY <1>b, <1>c DEF IInv, NamesInv
<1>4. WriteInv'
  BY <1>b, <1>c DEF IInv, TypeOK, WriteInv, Writer
<1>5. FileInv'
  BY <1>b, <1>c DEF IInv, FileInv
<1>6. ReadInv'
  <2>1. CASE pc' = [pc EXCEPT ![p] = "points"] /\ UNCHANGED <<fd, buf>>
    <3>1. \A q \in Procs : q # p => pc'[q] = pc[q]
      BY <2>1 DEF IInv, TypeOK
    <3> QED
      BY <1>c, <2>1, <3>1 DEF IInv, ReadInv
  <2>2. CASE pc' = [pc EXCEPT ![p] = "build"] /\ fd' = [fd EXCEPT ![p] = None]
             /\ buf' = [buf EXCEPT ![p] = <<>>]
    <3>1. /\ pc'[p] = "build"
          /\ \A q \in Procs : q # p => buf'[q] = buf[q] /\ pc'[q] = pc[q] /\ fd'[q] = fd[q]
      BY <2>2 DEF IInv, TypeOK
    <3> QED
      BY <1>c, <3>1 DEF IInv, ReadInv
  <2> QED
    BY <1>b, <2>1, <2>2
<1>7. TableInv'
  BY <1>b, <1>c DEF IInv, TypeOK, TableInv
<1>8. NoLitter'
  BY <1>b, <1>c DEF IInv, TypeOK, NoLitter
<1> QED
  BY <1>1, <1>2, <1>3, <1>4, <1>5, <1>6, <1>7, <1>8 DEF IInv

(* IInv is kept by the end of a truncated file.                             *)
LEMMA LoadTruncatedStep ==
  ASSUME IInv, NEW p \in Procs, LoadTruncated(p)
  PROVE  IInv'
<1> USE DEF LoadTruncated, GiveUp, Goto
<1>1. TypeOK'
  BY DEF IInv, TypeOK
<1>2. LiveInv'
  BY DEF IInv, TypeOK, LiveInv
<1>3. NamesInv'
  BY DEF IInv, TypeOK, NamesInv
<1>4. WriteInv'
  BY DEF IInv, TypeOK, LiveInv, NamesInv, WriteInv, Writer
<1>5. FileInv'
  BY DEF IInv, TypeOK, FileInv, NamesInv
<1>6. ReadInv'
  BY DEF IInv, TypeOK, ReadInv, LiveInv, NamesInv
<1>7. TableInv'
  BY DEF IInv, TypeOK, TableInv
<1>8. NoLitter'
  BY DEF IInv, TypeOK, LiveInv, NoLitter
<1> QED
  BY <1>1, <1>2, <1>3, <1>4, <1>5, <1>6, <1>7, <1>8 DEF IInv

(* IInv is kept by reading points.                                          *)
LEMMA LoadPointStep ==
  ASSUME IInv, NEW p \in Procs, LoadPoint(p)
  PROVE  IInv'
<1> USE DEF LoadPoint, Goto
<1>a. fd[p] \in Inodes /\ data[fd[p]] \in Seq(Cells) /\ buf[p] \in Seq(Cells)
  BY DEF IInv, ReadInv, TypeOK
<1>1. TypeOK'
  <2>1. data[fd[p]][Len(buf[p]) + 1] \in Cells
    BY <1>a
  <2>2. Append(buf[p], data[fd[p]][Len(buf[p]) + 1]) \in Seq(Cells)
    BY <1>a, <2>1
  <2> QED
    BY <2>2 DEF IInv, TypeOK
<1>2. LiveInv'
  BY DEF IInv, TypeOK, LiveInv
<1>3. NamesInv'
  BY DEF IInv, TypeOK, NamesInv
<1>4. WriteInv'
  BY DEF IInv, TypeOK, LiveInv, NamesInv, WriteInv, Writer
<1>5. FileInv'
  BY DEF IInv, TypeOK, FileInv, NamesInv
<1>6. ReadInv'
  <2> DEFINE n == Len(buf[p])
             s == Shape[p]
  <2>1. n \in Nat /\ n < Size[s] /\ buf[p] = Prefix(s, n) /\ s \in Shapes
    BY <1>a DEF IInv, ReadInv
  <2>2. data[fd[p]] = Prefix(s, Len(data[fd[p]])) /\ n + 1 \in 1..Len(data[fd[p]])
    BY <1>a DEF IInv, ReadInv
  <2>3. data[fd[p]][n + 1] = s
    <3>1. Len(data[fd[p]]) \in Nat
      BY <1>a
    <3>2. \A k \in 1..Len(data[fd[p]]) : Prefix(s, Len(data[fd[p]]))[k] = s
      BY <2>1, <3>1, PrefixFacts
    <3> HIDE DEF n, s
    <3> QED
      BY <2>2, <3>2
  <2>4. buf' = [buf EXCEPT ![p] = Prefix(s, n + 1)]
    BY <2>1, <2>3, PrefixAppend
  <2>5. Len(Prefix(s, n + 1)) = n + 1 /\ n + 1 <= Size[s]
    <3>1. n + 1 \in Nat /\ Size[s] \in Nat
      BY <2>1
    <3> HIDE DEF n, s
    <3>2. Len(Prefix(s, n + 1)) = n + 1
      BY <2>1, <3>1, PrefixFacts
    <3>3. n + 1 <= Size[s]
      BY <2>1, <3>1
    <3> QED
      BY <3>2, <3>3
  <2>6. /\ buf'[p] = Prefix(s, Len(buf'[p])) /\ Len(buf'[p]) <= Size[s]
        /\ \A q \in Procs : q # p => buf'[q] = buf[q]
        /\ UNCHANGED <<dir, data, fd, pc>>
    BY <2>4, <2>5 DEF IInv, TypeOK
  <2> HIDE DEF LoadPoint, Goto
  <2> QED
    BY <2>6 DEF IInv, ReadInv
<1>7. TableInv'
  BY DEF IInv, TypeOK, TableInv
<1>8. NoLitter'
  BY DEF IInv, TypeOK, LiveInv, NoLitter
<1> QED
  BY <1>1, <1>2, <1>3, <1>4, <1>5, <1>6, <1>7, <1>8 DEF IInv

(* IInv is kept by publishing what was read.                                *)
LEMMA LoadDoneStep ==
  ASSUME IInv, NEW p \in Procs, LoadDone(p)
  PROVE  IInv'
<1> USE DEF LoadDone, Goto
<1>1. TypeOK'
  BY DEF IInv, TypeOK
<1>2. LiveInv'
  BY DEF IInv, TypeOK, LiveInv
<1>3. NamesInv'
  BY DEF IInv, TypeOK, NamesInv
<1>4. WriteInv'
  BY DEF IInv, TypeOK, LiveInv, NamesInv, WriteInv, Writer
<1>5. FileInv'
  BY DEF IInv, TypeOK, FileInv, NamesInv
<1>6. ReadInv'
  BY DEF IInv, TypeOK, ReadInv, LiveInv, NamesInv
<1>7. TableInv'
  <2>1. buf[p] = Whole(Shape[p])
    BY DEF IInv, ReadInv, Whole
  <2> QED
    BY <2>1 DEF IInv, TypeOK, TableInv
<1>8. NoLitter'
  BY DEF IInv, TypeOK, LiveInv, NoLitter
<1> QED
  BY <1>1, <1>2, <1>3, <1>4, <1>5, <1>6, <1>7, <1>8 DEF IInv

(* IInv is kept by building the table.                                      *)
LEMMA BuildStep ==
  ASSUME IInv, NEW p \in Procs, Build(p)
  PROVE  IInv'
<1> USE DEF Build, Goto
<1>1. TypeOK'
  <2>1. Whole(Shape[p]) \in Seq(Cells)
    BY PrefixFacts DEF Whole
  <2> QED
    BY <2>1 DEF IInv, TypeOK
<1>2. LiveInv'
  BY DEF IInv, TypeOK, LiveInv
<1>3. NamesInv'
  BY DEF IInv, TypeOK, NamesInv
<1>4. WriteInv'
  BY DEF IInv, TypeOK, LiveInv, NamesInv, WriteInv, Writer
<1>5. FileInv'
  BY DEF IInv, TypeOK, FileInv, NamesInv
<1>6. ReadInv'
  BY DEF IInv, TypeOK, ReadInv, LiveInv, NamesInv
<1>7. TableInv'
  BY DEF IInv, TypeOK, TableInv
<1>8. NoLitter'
  BY DEF IInv, TypeOK, LiveInv, NoLitter
<1> QED
  BY <1>1, <1>2, <1>3, <1>4, <1>5, <1>6, <1>7, <1>8 DEF IInv

(* IInv is kept by opening the temporary file.                              *)
LEMMA SaveOpenStep ==
  ASSUME IInv, NEW p \in Procs, SaveOpen(p)
  PROVE  IInv'
<1> USE DEF SaveOpen, OpenAs, Goto
<1>a. PICK i \in (IF dir[pid[p]] # None THEN {dir[pid[p]]} ELSE Unreferenced) :
        /\ dir' = [dir EXCEPT ![pid[p]] = i]
        /\ data' = [data EXCEPT ![i] = <<>>]
        /\ fd' = [fd EXCEPT ![p] = i]
  BY DEF OpenAs
<1>b. /\ pid[p] \in Pids /\ pid[p] \in Names /\ pid[p] # "final"
      /\ i \in Inodes /\ \A x \in Names : x # pid[p] => dir[x] # i
  <2>1. pid[p] \in Pids /\ pid[p] \in Names /\ pid[p] # "final"
    BY LivePid
  <2>2. dir[pid[p]] \in Inodes \cup {None}
    BY <2>1 DEF IInv, TypeOK
  <2>3. CASE dir[pid[p]] # None
    BY <1>a, <2>1, <2>2, <2>3 DEF IInv, NamesInv
  <2>4. CASE dir[pid[p]] = None
    BY <1>a, <2>1, <2>2, <2>4 DEF Unreferenced
  <2> QED
    BY <2>1, <2>3, <2>4
<1>c. \A q \in Procs : q # p => pid[q] # pid[p]
  BY <1>b DEF IInv, TypeOK
<1>d. /\ dir'[pid[p]] = i /\ \A x \in Names : x # pid[p] => dir'[x] = dir[x]
      /\ data'[i] = <<>> /\ \A j \in Inodes : j # i => data'[j] = data[j]
      /\ fd'[p] = i /\ \A q \in Procs : q # p => fd'[q] = fd[q] /\ pc'[q] = pc[q] /\ pos'[q] = pos[q]
      /\ pos'[p] = 0 /\ pc'[p] = "write" /\ pc[p] = "save"
      /\ UNCHANGED <<pid, buf, table>>
  BY <1>a, <1>b DEF IInv, TypeOK
<1>e. i # None
  BY <1>b
<1>1. TypeOK'
  <2>1. <<>> \in Seq(Cells)
    OBVIOUS
  <2>2. data' \in [Inodes -> Seq(Cells)]
    BY <1>a, <1>b, <2>1 DEF IInv, TypeOK
  <2>3. dir' \in [Names -> Inodes \cup {None}] /\ fd' \in [Procs -> Inodes \cup {None}]
    BY <1>a, <1>b DEF IInv, TypeOK
  <2> QED
    BY <2>2, <2>3 DEF IInv, TypeOK
<1>2. LiveInv'
  BY <1>d DEF IInv, LiveInv
<1>3. NamesInv'
  BY <1>b, <1>d DEF IInv, NamesInv
<1>4. WriteInv'
  <2>1. Prefix(Shape[p], 0) = <<>> /\ 0 <= Size[Shape[p]]
    BY DEF Prefix
  <2>2. ASSUME NEW q \in Procs, q # p, pc[q] \in {"write", "close", "rename"}
        PROVE  dir[pid[q]] \in Inodes /\ dir[pid[q]] # i /\ dir'[pid[q]] = dir[pid[q]]
    <3>1. pid[q] \in Names /\ pid[q] # pid[p]
      BY <2>2, <1>c DEF IInv, TypeOK, LiveInv
    <3>2. dir[pid[q]] # None
      BY <2>2 DEF IInv, WriteInv, Writer
    <3> QED
      BY <3>1, <3>2, <1>b, <1>d DEF IInv, TypeOK
  <2>3. ASSUME NEW q \in Procs, q # p PROVE Writer(q)'
    BY <2>2, <2>3, <1>d DEF IInv, WriteInv, Writer
  <2>4. Writer(p)'
    BY <2>1, <1>d, <1>e DEF Writer
  <2> QED
    BY <2>3, <2>4 DEF WriteInv
<1>5. FileInv'
  BY <1>b, <1>d DEF IInv, TypeOK, FileInv
<1>6. ReadInv'
  <2>1. ASSUME NEW q \in Procs, pc'[q] \in Loading
        PROVE  /\ q # p /\ pc[q] \in Loading /\ fd[q] \in Inodes /\ fd[q] # i
               /\ fd'[q] = fd[q] /\ data'[fd[q]] = data[fd[q]]
    <3>1. q # p /\ pc[q] \in Loading
      BY <2>1, <1>d
    <3>2. fd[q] \in Inodes /\ \A x \in Pids : dir[x] # fd[q]
      BY <3>1 DEF IInv, ReadInv, TypeOK
    <3>3. fd[q] # i
      BY <3>2, <1>a, <1>b DEF Unreferenced
    <3> QED
      BY <3>1, <3>2, <3>3, <1>d
  <2>2. ASSUME NEW q \in Procs, pc'[q] \in Loading
        PROVE  \A x \in Pids : dir'[x] # fd'[q]
    BY <2>1, <2>2, <1>d DEF IInv, ReadInv
  <2>3. ASSUME NEW q \in Procs, pc'[q] \in Loading
        PROVE  pc'[q] = pc[q] /\ buf'[q] = buf[q]
    BY <2>1, <2>3, <1>d
  <2> HIDE DEF SaveOpen, OpenAs, Goto
  <2> QED
    BY <2>1, <2>2, <2>3 DEF IInv, ReadInv
<1>7. TableInv'
  BY <1>d DEF IInv, TableInv
<1>8. NoLitter'
  BY <1>c, <1>d, <1>b DEF IInv, TypeOK, LiveInv, NoLitter
<1> QED
  BY <1>1, <1>2, <1>3, <1>4, <1>5, <1>6, <1>7, <1>8 DEF IInv

(* IInv is kept by failing to open it.                                      *)
LEMMA SaveOpenFailsStep ==
  ASSUME IInv, NEW p \in Procs, SaveOpenFails(p)
  PROVE  IInv'
<1> USE DEF SaveOpenFails, Goto
<1>1. TypeOK'
  BY DEF IInv, TypeOK
<1>2. LiveInv'
  BY DEF IInv, TypeOK, LiveInv
<1>3. NamesInv'
  BY DEF IInv, TypeOK, NamesInv
<1>4. WriteInv'
  BY DEF IInv, TypeOK, LiveInv, NamesInv, WriteInv, Writer
<1>5. FileInv'
  BY DEF IInv, TypeOK, FileInv, NamesInv
<1>6. ReadInv'
  BY DEF IInv, TypeOK, ReadInv, LiveInv, NamesInv
<1>7. TableInv'
  BY DEF IInv, TypeOK, TableInv
<1>8. NoLitter'
  BY DEF IInv, TypeOK, LiveInv, NoLitter
<1> QED
  BY <1>1, <1>2, <1>3, <1>4, <1>5, <1>6, <1>7, <1>8 DEF IInv

(* IInv is kept by writing a cell.                                          *)
LEMMA SaveWriteStep ==
  ASSUME IInv, NEW p \in Procs, SaveWrite(p)
  PROVE  IInv'
<1> USE DEF SaveWrite, Goto
<1>a. /\ fd[p] \in Inodes /\ dir[pid[p]] = fd[p] /\ pid[p] \in Pids
      /\ pos[p] \in Nat /\ Shape[p] \in Shapes
      /\ data[fd[p]] = Prefix(Shape[p], pos[p]) /\ table[p] = Whole(Shape[p])
  BY DEF IInv, TypeOK, WriteInv, Writer, LiveInv, TableInv
<1>b. data' = [data EXCEPT ![fd[p]] = Prefix(Shape[p], pos[p] + 1)]
  <2>1. table[p][pos[p] + 1] = Shape[p]
    BY <1>a DEF Whole, Prefix
  <2> QED
    BY <1>a, <2>1, PrefixWrite
<1>c. Prefix(Shape[p], pos[p] + 1) \in Seq(Cells)
  BY <1>a, PrefixFacts
<1>d. /\ data'[fd[p]] = Prefix(Shape[p], pos[p] + 1)
      /\ \A j \in Inodes : j # fd[p] => data'[j] = data[j]
      /\ pos'[p] = pos[p] + 1 /\ pos[p] < Size[Shape[p]] /\ pc[p] = "write"
      /\ \A q \in Procs : q # p => pos'[q] = pos[q]
      /\ UNCHANGED <<dir, pc, pid, fd, buf, table, cleanup, starts>>
  BY <1>a, <1>b DEF IInv, TypeOK
<1>e. \A x \in Names : x # pid[p] /\ dir[x] # None => dir[x] # fd[p]
  BY <1>a DEF IInv, NamesInv
<1>1. TypeOK'
  <2>1. data' \in [Inodes -> Seq(Cells)]
    BY <1>b, <1>c DEF IInv, TypeOK
  <2>2. pos' \in [Procs -> Nat]
    BY DEF IInv, TypeOK
  <2> QED
    BY <2>1, <2>2, <1>d DEF IInv, TypeOK
<1>2. LiveInv'
  BY DEF IInv, TypeOK, LiveInv
<1>3. NamesInv'
  BY DEF IInv, TypeOK, NamesInv
<1>4. WriteInv'
  <2>1. ASSUME NEW q \in Procs, q # p, pc[q] \in {"write", "close", "rename"}
        PROVE  dir[pid[q]] \in Inodes /\ dir[pid[q]] # fd[p]
    <3>1. pid[q] \in Names /\ pid[q] # pid[p]
      BY <2>1, <1>a DEF IInv, TypeOK, LiveInv
    <3>2. dir[pid[q]] # None
      BY <2>1 DEF IInv, WriteInv, Writer
    <3> QED
      BY <3>1, <3>2, <1>e DEF IInv, TypeOK
  <2>2. ASSUME NEW q \in Procs, q # p PROVE Writer(q)'
    BY <2>1, <2>2, <1>d DEF IInv, WriteInv, Writer
  <2>3. pos[p] + 1 <= Size[Shape[p]]
    BY <1>a, <1>d
  <2>4. Writer(p)'
    BY <2>3, <1>a, <1>d DEF Writer
  <2> QED
    BY <2>2, <2>4 DEF WriteInv
<1>5. FileInv'
  <2>1. dir["final"] # None => data'[dir["final"]] = data[dir["final"]]
    BY <1>a, <1>d, <1>e DEF IInv, TypeOK
  <2> QED
    BY <2>1, <1>d DEF IInv, FileInv
<1>6. ReadInv'
  <2>1. ASSUME NEW q \in Procs, pc[q] \in Loading
        PROVE  data'[fd[q]] = data[fd[q]]
    <3>1. fd[q] \in Inodes /\ fd[q] # fd[p]
      BY <2>1, <1>a DEF IInv, ReadInv, TypeOK
    <3> QED
      BY <3>1, <1>d
  <2> HIDE DEF SaveWrite, Goto
  <2> QED
    BY <2>1, <1>d DEF IInv, ReadInv
<1>7. TableInv'
  BY DEF IInv, TypeOK, TableInv
<1>8. NoLitter'
  BY DEF IInv, TypeOK, LiveInv, NoLitter
<1> QED
  BY <1>1, <1>2, <1>3, <1>4, <1>5, <1>6, <1>7, <1>8 DEF IInv

(* IInv is kept by the last write.                                          *)
LEMMA SaveWrittenStep ==
  ASSUME IInv, NEW p \in Procs, SaveWritten(p)
  PROVE  IInv'
<1> USE DEF SaveWritten, Goto
<1>1. TypeOK'
  BY DEF IInv, TypeOK
<1>2. LiveInv'
  BY DEF IInv, TypeOK, LiveInv
<1>3. NamesInv'
  BY DEF IInv, TypeOK, NamesInv
<1>4. WriteInv'
  BY DEF IInv, TypeOK, LiveInv, NamesInv, WriteInv, Writer
<1>5. FileInv'
  BY DEF IInv, TypeOK, FileInv, NamesInv
<1>6. ReadInv'
  BY DEF IInv, TypeOK, ReadInv, LiveInv, NamesInv
<1>7. TableInv'
  BY DEF IInv, TypeOK, TableInv
<1>8. NoLitter'
  BY DEF IInv, TypeOK, LiveInv, NoLitter
<1> QED
  BY <1>1, <1>2, <1>3, <1>4, <1>5, <1>6, <1>7, <1>8 DEF IInv

(* IInv is kept by a failed write.                                          *)
LEMMA SaveErrorStep ==
  ASSUME IInv, NEW p \in Procs, SaveError(p)
  PROVE  IInv'
<1> USE DEF SaveError, Goto
<1>1. TypeOK'
  BY DEF IInv, TypeOK
<1>2. LiveInv'
  BY DEF IInv, TypeOK, LiveInv
<1>3. NamesInv'
  BY DEF IInv, TypeOK, NamesInv
<1>4. WriteInv'
  BY DEF IInv, TypeOK, LiveInv, NamesInv, WriteInv, Writer
<1>5. FileInv'
  BY DEF IInv, TypeOK, FileInv, NamesInv
<1>6. ReadInv'
  BY DEF IInv, TypeOK, ReadInv, LiveInv, NamesInv
<1>7. TableInv'
  BY DEF IInv, TypeOK, TableInv
<1>8. NoLitter'
  BY DEF IInv, TypeOK, LiveInv, NoLitter
<1> QED
  BY <1>1, <1>2, <1>3, <1>4, <1>5, <1>6, <1>7, <1>8 DEF IInv

(* IInv is kept by closing the temporary file.                              *)
LEMMA SaveCloseStep ==
  ASSUME IInv, NEW p \in Procs, SaveClose(p)
  PROVE  IInv'
<1> USE DEF SaveClose, Goto
<1>1. TypeOK'
  BY DEF IInv, TypeOK
<1>2. LiveInv'
  BY DEF IInv, TypeOK, LiveInv
<1>3. NamesInv'
  BY DEF IInv, TypeOK, NamesInv
<1>4. WriteInv'
  <2>1. pos[p] = Size[Shape[p]] /\ fd[p] # None /\ dir[pid[p]] = fd[p]
        /\ data[fd[p]] = Whole(Shape[p])
    BY DEF IInv, WriteInv, Writer, Whole
  <2>2. /\ pc'[p] = "rename"
        /\ \A q \in Procs : q # p => pc'[q] = pc[q] /\ fd'[q] = fd[q]
        /\ UNCHANGED <<dir, data, pid, pos>>
    BY DEF IInv, TypeOK
  <2> HIDE DEF SaveClose, Goto
  <2> QED
    BY <2>1, <2>2 DEF IInv, WriteInv, Writer
<1>5. FileInv'
  BY DEF IInv, TypeOK, FileInv, NamesInv
<1>6. ReadInv'
  BY DEF IInv, TypeOK, ReadInv, LiveInv, NamesInv
<1>7. TableInv'
  BY DEF IInv, TypeOK, TableInv
<1>8. NoLitter'
  BY DEF IInv, TypeOK, LiveInv, NoLitter
<1> QED
  BY <1>1, <1>2, <1>3, <1>4, <1>5, <1>6, <1>7, <1>8 DEF IInv

(* IInv is kept by the rename.                                              *)
LEMMA SaveRenameStep ==
  ASSUME IInv, NEW p \in Procs, SaveRename(p)
  PROVE  IInv'
<1> USE DEF SaveRename, Goto
<1>a. /\ pid[p] \in Pids /\ pid[p] \in Names /\ pid[p] # "final" /\ dir[pid[p]] \in Inodes
      /\ data[dir[pid[p]]] = Whole(Shape[p])
  BY DEF IInv, TypeOK, LiveInv, WriteInv, Writer
<1>b. /\ dir'["final"] = dir[pid[p]] /\ dir'[pid[p]] = None
      /\ \A x \in Names \ {"final", pid[p]} : dir'[x] = dir[x]
      /\ dir' \in [Names -> Inodes \cup {None}]
  BY <1>a DEF IInv, TypeOK
<1>1. TypeOK'
  <2>1. cleanup' \in [Procs -> BOOLEAN]
    BY DEF IInv, TypeOK
  <2>2. pc' = [pc EXCEPT ![p] = "ready"]
    OBVIOUS
  <2> QED
    BY <2>1, <2>2, <1>b DEF IInv, TypeOK
<1>2. LiveInv'
  BY DEF IInv, TypeOK, LiveInv
<1>3. NamesInv'
  BY <1>a, <1>b DEF IInv, NamesInv
<1>4. WriteInv'
  BY DEF IInv, TypeOK, LiveInv, NamesInv, WriteInv, Writer
<1>5. FileInv'
  <2>1. CutShort(Whole(Shape[p]))
    BY DEF CutShort, Whole
  <2> QED
    BY <2>1, <1>a, <1>b DEF FileInv
<1>6. ReadInv'
  BY DEF IInv, TypeOK, ReadInv, LiveInv, NamesInv
<1>7. TableInv'
  BY DEF IInv, TypeOK, TableInv
<1>8. NoLitter'
  BY DEF IInv, TypeOK, LiveInv, NoLitter
<1> QED
  BY <1>1, <1>2, <1>3, <1>4, <1>5, <1>6, <1>7, <1>8 DEF IInv

(* IInv is kept by a failed rename.                                         *)
LEMMA SaveRenameFailsStep ==
  ASSUME IInv, NEW p \in Procs, SaveRenameFails(p)
  PROVE  IInv'
<1> USE DEF SaveRenameFails, Goto
<1>1. TypeOK'
  BY DEF IInv, TypeOK
<1>2. LiveInv'
  BY DEF IInv, TypeOK, LiveInv
<1>3. NamesInv'
  BY DEF IInv, TypeOK, NamesInv
<1>4. WriteInv'
  BY DEF IInv, TypeOK, LiveInv, NamesInv, WriteInv, Writer
<1>5. FileInv'
  BY DEF IInv, TypeOK, FileInv, NamesInv
<1>6. ReadInv'
  BY DEF IInv, TypeOK, ReadInv, LiveInv, NamesInv
<1>7. TableInv'
  BY DEF IInv, TypeOK, TableInv
<1>8. NoLitter'
  BY DEF IInv, TypeOK, LiveInv, NoLitter
<1> QED
  BY <1>1, <1>2, <1>3, <1>4, <1>5, <1>6, <1>7, <1>8 DEF IInv

LEMMA InitInv == Init => IInv
<1> SUFFICES ASSUME Init PROVE IInv
  OBVIOUS
<1>0. PICK i \in Inodes, s \in Shapes : \E n \in 0..Size[s] :
        /\ dir \in {[x \in Names |-> None], [x \in Names |-> IF x = "final" THEN i ELSE None]}
        /\ data = [j \in Inodes |-> IF j = i THEN Prefix(s, n) ELSE <<>>]
  BY DEF Init
<1>1. PICK n \in 0..Size[s] :
        /\ dir \in {[x \in Names |-> None], [x \in Names |-> IF x = "final" THEN i ELSE None]}
        /\ data = [j \in Inodes |-> IF j = i THEN Prefix(s, n) ELSE <<>>]
  BY <1>0
<1>2. Prefix(s, n) \in Seq(Cells)
  BY PrefixFacts
<1>3. TypeOK
  <2>1. data \in [Inodes -> Seq(Cells)]
    BY <1>1, <1>2
  <2>2. dir \in [Names -> Inodes \cup {None}]
    BY <1>1
  <2>3. buf \in [Procs -> Seq(Cells)] /\ table \in [Procs -> Seq(Cells)]
    BY DEF Init
  <2> QED
    BY <2>1, <2>2, <2>3 DEF Init, TypeOK
<1>4. NamesInv
  BY <1>1 DEF NamesInv
<1>5. FileInv
  BY <1>1 DEF FileInv, CutShort
<1>6. LiveInv /\ WriteInv /\ ReadInv /\ TableInv /\ NoLitter
  BY DEF Init, LiveInv, WriteInv, Writer, ReadInv, TableInv, NoLitter
<1> QED
  BY <1>3, <1>4, <1>5, <1>6 DEF IInv

LEMMA StutterStep == IInv /\ UNCHANGED vars => IInv'
BY DEF vars, IInv, TypeOK, LiveInv, NamesInv, WriteInv, Writer, FileInv, ReadInv, TableInv, NoLitter

LEMMA NextStep == IInv /\ [Next]_vars => IInv'
<1> SUFFICES ASSUME IInv, [Next]_vars PROVE IInv'
  OBVIOUS
<1>1. ASSUME NEW p \in Procs, Load(p) PROVE IInv'
  BY <1>1, LoadOpenStep, LoadHeaderStep, LoadSizeStep, LoadTruncatedStep, LoadPointStep,
     LoadDoneStep DEF Load
<1>2. ASSUME NEW p \in Procs, Save(p) PROVE IInv'
  BY <1>2, SaveOpenStep, SaveOpenFailsStep, SaveWriteStep, SaveWrittenStep, SaveErrorStep,
     SaveCloseStep, SaveRenameStep, SaveRenameFailsStep DEF Save
<1> QED
  BY <1>1, <1>2, StartStep, CrashStep, ExitStep, BuildStep, StutterStep DEF Next, EnsureBuilt

(* The strengthening holds in every state.                                 *)
THEOREM Invariance == Spec => []IInv
<1> QED
  BY InitInv, NextStep, PTL DEF Spec

(* Types, and no two live processes with one pid.                          *)
THEOREM TypeCorrect == Spec => []TypeOK
<1>1. IInv => TypeOK
  BY DEF IInv
<1> QED
  BY <1>1, Invariance, PTL

(* ensure_built_locked() leaves a process with the whole table of its own  *)
(* configuration, whatever the cache file held.                            *)
THEOREM TableIsWhole == Spec => []LoadedWhole
<1>1. IInv => LoadedWhole
  BY DEF IInv, TableInv, LoadedWhole
<1> QED
  BY <1>1, Invariance, PTL

(* save_precompute_cache_locked() leaves no temporary file, on any path.   *)
THEOREM NoTemporaryLeft == Spec => []NoLitter
<1>1. IInv => NoLitter
  BY DEF IInv
<1> QED
  BY <1>1, Invariance, PTL

(* "Readers see either the old complete file or the new complete file":    *)
(* the name only goes to complete files,                                   *)
THEOREM RenamesWhole == Spec => PublishesWhole
<1>1. ASSUME IInv, [Next]_vars, dir["final"]' # dir["final"], dir["final"]' # None
      PROVE  \E s \in Shapes : data'[dir'["final"]] = Whole(s)
  <2>1. ASSUME NEW p \in Procs, SaveRename(p) PROVE \E s \in Shapes : data'[dir'["final"]] = Whole(s)
    <3>1. pid[p] \in Pids /\ pid[p] \in Names /\ pid[p] # "final"
      BY <2>1, <1>1, LivePid DEF SaveRename
    <3>2. data[dir[pid[p]]] = Whole(Shape[p])
      BY <2>1, <1>1 DEF SaveRename, IInv, WriteInv, Writer
    <3>3. dir'["final"] = dir[pid[p]] /\ data' = data
      BY <2>1, <3>1, <1>1 DEF SaveRename, IInv, TypeOK
    <3> QED
      BY <3>2, <3>3
  <2>2. ASSUME NEW p \in Procs, SaveOpen(p) \/ SaveError(p) \/ SaveRenameFails(p) PROVE FALSE
    <3>1. pid[p] \in Pids
      BY <1>1, <2>2, LivePid DEF SaveOpen, SaveError, SaveRenameFails
    <3> QED
      BY <1>1, <2>2, <3>1 DEF SaveOpen, SaveError, SaveRenameFails, OpenAs, IInv, TypeOK
  <2>3. ASSUME NEW p \in Procs, Exit(p) PROVE FALSE
    BY <1>1, <2>3 DEF Exit, IInv, TypeOK
  <2>4. PICK p \in Procs : SaveRename(p)
    <3>1. ASSUME NEW p \in Procs, Start(p) \/ Crash(p) \/ Load(p) \/ Build(p) PROVE dir' = dir
      BY <3>1 DEF Start, Crash, Load, LoadOpen, LoadHeader, LoadSize, LoadTruncated, LoadPoint, LoadDone, Build
    <3>2. ASSUME NEW p \in Procs, SaveOpenFails(p) \/ SaveWrite(p) \/ SaveWritten(p) \/ SaveClose(p)
          PROVE  dir' = dir
      BY <3>2 DEF SaveOpenFails, SaveWrite, SaveWritten, SaveClose
    <3>3. ~UNCHANGED vars
      BY <1>1 DEF vars
    <3> QED
      BY <1>1, <2>2, <2>3, <3>1, <3>2, <3>3 DEF Next, EnsureBuilt, Save
  <2> QED
    BY <2>1, <2>4
<1> QED
  BY <1>1, Invariance, PTL DEF Spec, PublishesWhole

(* and the file a process has open does not change while it reads.         *)
THEOREM NobodyWritesWhatIsRead == Spec => ReadersUndisturbed
<1>1. ASSUME IInv, [Next]_vars, NEW q \in Procs, pc[q] \in Loading
      PROVE  data'[fd[q]] = data[fd[q]]
  <2>1. fd[q] \in Inodes /\ \A x \in Pids : dir[x] # fd[q]
    BY <1>1 DEF IInv, ReadInv, TypeOK
  <2>2. ASSUME NEW p \in Procs, SaveOpen(p) PROVE data'[fd[q]] = data[fd[q]]
    <3>1. pid[p] \in Pids
      BY <1>1, <2>2, LivePid DEF SaveOpen
    <3>2. PICK i \in (IF dir[pid[p]] # None THEN {dir[pid[p]]} ELSE Unreferenced) :
            data' = [data EXCEPT ![i] = <<>>]
      BY <2>2 DEF SaveOpen, OpenAs
    <3>3. i # fd[q]
      BY <2>1, <3>1, <3>2 DEF Unreferenced
    <3> QED
      BY <3>2, <3>3, <2>1 DEF IInv, TypeOK
  <2>3. ASSUME NEW p \in Procs, SaveWrite(p) PROVE data'[fd[q]] = data[fd[q]]
    <3>1. pid[p] \in Pids /\ dir[pid[p]] = fd[p]
      BY <1>1, <2>3, LivePid DEF SaveWrite, IInv, WriteInv, Writer
    <3>2. \E c : data' = [data EXCEPT ![fd[p]] = c]
      BY <2>3 DEF SaveWrite
    <3>3. fd[p] # fd[q]
      BY <2>1, <3>1
    <3> QED
      BY <3>2, <3>3, <2>1 DEF IInv, TypeOK
  <2>4. ASSUME NEW p \in Procs, Start(p) \/ Crash(p) \/ Exit(p) \/ Load(p) \/ Build(p) PROVE data' = data
    BY <2>4 DEF Start, Crash, Exit, Load, LoadOpen, LoadHeader, LoadSize, LoadTruncated, LoadPoint,
                LoadDone, Build
  <2>5. ASSUME NEW p \in Procs, \/ SaveOpenFails(p) \/ SaveWritten(p) \/ SaveError(p)
                                \/ SaveClose(p) \/ SaveRename(p) \/ SaveRenameFails(p)
        PROVE  data' = data
    BY <2>5 DEF SaveOpenFails, SaveWritten, SaveError, SaveClose, SaveRename, SaveRenameFails
  <2>6. UNCHANGED vars => data' = data
    BY DEF vars
  <2> QED
    BY <1>1, <2>2, <2>3, <2>4, <2>5, <2>6 DEF Next, EnsureBuilt, Save
<1>2. IInv /\ [Next]_vars => [\A p \in Procs : pc[p] \in Loading => data'[fd[p]] = data[fd[p]]]_vars
  BY <1>1
<1> QED
  BY <1>2, Invariance, PTL DEF Spec, ReadersUndisturbed
================================================================================
