---------------------------- MODULE RecordProofs ----------------------------
(***************************************************************************)
(* Proofs about what is kept for later readers.                            *)
(*                                                                         *)
(* io/file.c, for every number of readers, every size of a version and of  *)
(* a chunk, and any crashes, when at most one process writes: with two     *)
(* writers NeverHalfWritten fails, as a run shows.                         *)
(*                                                                         *)
(* sys/error_context.c, for every depth of the stack and message size.     *)
(*                                                                         *)
(* ds/linked_list.c, for any number of nodes.  The list is a circle        *)
(* through the sentinel.  The invariant numbers its places from 0, the     *)
(* sentinel, to Len(order) + 1, the sentinel again, and says that next     *)
(* leads from every place to the one after it and prev back.  An insertion *)
(* moves the places behind it up by one, a removal down by one, whichever  *)
(* end or middle it is at.                                                 *)
(***************************************************************************)
EXTENDS FileStore, ErrorContext, LinkedList, SharedProofs

-----------------------------------------------------------------------------
(* The files *)

OneWriter == \A u, w \in Writers : u = w

Directories == [path : Inodes, tmp : Inodes \cup {None}]
Blocks == Seq(0..Hole)
Open == {"write", "sync", "fclose", "close"}

FileTypes ==
    /\ dir \in Directories /\ dirDisk \in Directories
    /\ data \in [Inodes -> Blocks] /\ disk \in [Inodes -> Blocks]
    /\ version \in Versions /\ acked \in Versions
    /\ wpc \in [Writers -> {"idle", "rename", "remove"} \cup Open]
    /\ wf \in [Writers -> Inodes \cup {None}]
    /\ off \in [Writers -> Nat] /\ wv \in [Writers -> Versions]
    /\ wret \in [Writers -> {"none", "ok", "error"}]
    /\ rpc \in [Readers -> {"idle", "read", "trim"}]
    /\ rf \in [Readers -> Inodes \cup {None}]
    /\ buf \in [Readers -> Blocks] /\ cap \in [Readers -> Nat]
    /\ rret \in [Readers -> {"none", "ok", "error"}]

IsWhole(f) == \E v \in Versions : f = Whole(v)

\* The target is whole, as seen and on disk, and so is the file it will be after
\* a crash; neither is the temp file.
TargetInv ==
    /\ dir.tmp # dir.path /\ dir.tmp # dirDisk.path /\ dirDisk.tmp # dirDisk.path
    /\ IsWhole(data[dir.path]) /\ IsWhole(disk[dir.path])
    /\ IsWhole(data[dirDisk.path]) /\ IsWhole(disk[dirDisk.path])

\* What write_all has achieved with the temp file, step by step.
Progress(w) ==
    /\ wpc[w] \in Open => wf[w] # None /\ wf[w] = dir.tmp
    /\ wpc[w] = "write" => off[w] < Size /\ data[dir.tmp] = [b \in 1..off[w] |-> wv[w]]
    /\ wpc[w] \in {"sync", "fclose", "rename"} => data[dir.tmp] = Whole(wv[w])
    /\ wpc[w] \in {"fclose", "rename"} => dir.tmp # None /\ disk[dir.tmp] = Whole(wv[w])

WriterInv == \A w \in Writers : Progress(w)

\* A reader has a whole file open, which is not the temp file, and has read a
\* part of it.
ReaderInv ==
    \A r \in Readers :
        /\ rpc[r] # "idle" =>
            /\ rf[r] # None /\ rf[r] # dir.tmp
            /\ \E v \in Versions : /\ data[rf[r]] = Whole(v) /\ Len(buf[r]) <= Size
                                   /\ \A k \in 1..Len(buf[r]) : buf[r][k] = v
        /\ rpc[r] = "trim" => Len(buf[r]) = Size
        /\ rret[r] = "ok" => rpc[r] = "idle"

\* The inductive invariant.
FileInv == FileTypes /\ TargetInv /\ WriterInv /\ ReaderInv /\ ReadsOneVersion

-----------------------------------------------------------------------------
(* Types *)

\* A version is a file of the model.
LEMMA WholeIsFile ==
    ASSUME NEW v \in Versions
    PROVE  Whole(v) \in Blocks /\ Len(Whole(v)) = Size
<1>1. Whole(v) \in [1..Size -> 0..Hole]
  BY FileAssumption DEF Whole, Versions, Hole
<1> QED
  BY <1>1, FileAssumption, IsASeq, LenProperties DEF Blocks, Whole

\* A block written at place n leaves a file of the model.
LEMMA BlockTypes ==
    ASSUME NEW old \in Blocks, NEW n \in Nat \ {0}, NEW v \in Versions, NEW file,
           file = [b \in 1..(IF Len(old) > n THEN Len(old) ELSE n) |->
                      IF b = n THEN v ELSE IF b <= Len(old) THEN old[b] ELSE Hole]
    PROVE  file \in Blocks
<1>1. Len(old) \in Nat /\ \A b \in 1..Len(old) : old[b] \in 0..Hole
  BY LenProperties, ElementOfSeq DEF Blocks
<1>2. PICK m \in Nat : m = IF Len(old) > n THEN Len(old) ELSE n
  BY <1>1
<1>3. v \in 0..Hole /\ Hole \in 0..Hole
  BY FileAssumption DEF Versions, Hole
<1>4. \A b \in 1..m : b <= Len(old) => old[b] \in 0..Hole
  BY <1>1
<1>5. file \in [1..m -> 0..Hole]
  BY <1>2, <1>3, <1>4
<1> QED
  BY <1>5, IsASeq DEF Blocks

\* A step of write_all keeps the types.
LEMMA WriteTypes ==
    ASSUME FileTypes, WriterInv, NEW w \in Writers, Write(w)
    PROVE  FileTypes'
<1> USE DEF FileTypes, WriterAt, WriterGoes, WriterFails, reading
<1>1. CASE WriteOpen(w)
  <2>1. version' \in Versions
    BY <1>1, FileAssumption DEF WriteOpen, Versions
  <2>2. CASE wret' = [wret EXCEPT ![w] = "error"] /\ UNCHANGED <<dir, data, wf, off, wpc, acked>>
    BY <1>1, <2>1, <2>2 DEF WriteOpen
  <2>3. ASSUME NEW i \in IF dir.tmp # None THEN {dir.tmp} ELSE Inodes \ InUse,
               dir' = [dir EXCEPT !.tmp = i], data' = [data EXCEPT ![i] = <<>>],
               wf' = [wf EXCEPT ![w] = i], off' = [off EXCEPT ![w] = 0],
               WriterGoes(w, "write")
        PROVE  FileTypes'
    <3>1. i \in Inodes
      BY <2>3 DEF Directories
    <3>2. dir' \in Directories
      BY <2>3, <3>1, Zenon DEF Directories
    <3>3. data' \in [Inodes -> Blocks]
      BY <2>3, <3>1, EmptySeq DEF Blocks
    <3> QED
      BY <1>1, <2>1, <2>3, <3>1, <3>2, <3>3 DEF WriteOpen, Open
  <2> QED
    BY <1>1, <2>2, <2>3 DEF WriteOpen
<1>2. CASE WriteBlock(w)
  <2>1. wf[w] \in Inodes /\ off[w] + 1 \in Nat \ {0} /\ off[w] + 1 \in Nat
    <3>1. wpc[w] = "write"
      BY <1>2 DEF WriteBlock
    <3>2. wf[w] # None
      BY <3>1, Zenon DEF WriterInv, Progress, Open
    <3> QED
      BY <3>2
  <2>2. data' \in [Inodes -> Blocks]
    <3>1. data[wf[w]] \in Blocks /\ wv[w] \in Versions
      BY <2>1
    <3> QED
      BY <1>2, <2>1, <3>1, BlockTypes DEF WriteBlock
  <2>3. off' \in [Writers -> Nat]
    BY <1>2, <2>1 DEF WriteBlock
  <2>4. wpc' \in [Writers -> {"idle", "rename", "remove"} \cup Open]
    <3>1. \/ wpc' = [wpc EXCEPT ![w] = "sync"] \/ wpc' = [wpc EXCEPT ![w] = "write"]
          \/ wpc' = [wpc EXCEPT ![w] = "close"]
      BY <1>2, Zenon DEF WriteBlock
    <3> QED
      BY <3>1, Zenon DEF Open
  <2>5. UNCHANGED <<dir, dirDisk, disk, wf, version, wv, wret, acked, reading>>
    BY <1>2 DEF WriteBlock
  <2> HIDE DEF WriterAt, WriterGoes, WriterFails
  <2> QED
    BY <2>2, <2>3, <2>4, <2>5
<1>3. CASE WriteSync(w)
  <2>1. wf[w] \in Inodes
    <3>1. wpc[w] = "sync"
      BY <1>3 DEF WriteSync
    <3>2. wf[w] # None
      BY <3>1, Zenon DEF WriterInv, Progress, Open
    <3> QED
      BY <3>2
  <2> QED
    BY <1>3, <2>1 DEF WriteSync, Open
<1>4. CASE WriteClose(w) \/ WriteCloseFailed(w)
  BY <1>4 DEF WriteClose, WriteCloseFailed
<1>5. CASE WriteRename(w)
  <2>1. dir' \in Directories
    BY <1>5 DEF WriteRename, Directories
  <2> QED
    BY <1>5, <2>1 DEF WriteRename
<1>6. CASE WriteRemove(w)
  <2>1. dir' \in Directories
    BY <1>6 DEF WriteRemove, Directories
  <2> QED
    BY <1>6, <2>1 DEF WriteRemove
<1> QED
  BY <1>1, <1>2, <1>3, <1>4, <1>5, <1>6, Zenon DEF Write

\* One turn of the read loop: it gives up, or it reads further within the file,
\* or it is at the end of it.
LEMMA Chunked ==
    ASSUME FileTypes, NEW r \in Readers, ReadChunk(r), rf[r] \in Inodes
    PROVE  /\ rpc[r] = "read" /\ UNCHANGED <<fs, writing>>
           /\ \/ ReadEnds(r, "error") /\ UNCHANGED <<buf, cap>>
              \/ /\ \E c \in Nat : cap' = [cap EXCEPT ![r] = c]
                 /\ UNCHANGED <<rf, rret>>
                 /\ \/ /\ UNCHANGED rpc
                       /\ \E n \in (Len(buf[r]) + 1)..Len(data[rf[r]]) :
                             buf' = [buf EXCEPT ![r] =
                                        @ \o SubSeq(data[rf[r]], Len(buf[r]) + 1, n)]
                    \/ /\ Len(buf[r]) >= Len(data[rf[r]]) /\ UNCHANGED buf
                       /\ rpc' = [rpc EXCEPT ![r] = "trim"]
<1>1. Len(buf[r]) \in Nat /\ Len(data[rf[r]]) \in Nat /\ cap[r] \in Nat
  BY LenProperties, Zenon DEF FileTypes, Blocks
<1>2. PICK c \in Nat : c = IF Len(buf[r]) < cap[r] THEN cap[r]
                          ELSE IF cap[r] = 0 THEN Chunk ELSE 2 * cap[r]
  BY <1>1, FileAssumption
<1>3. \A n \in (Len(buf[r]) + 1)..c :
          n <= Len(data[rf[r]]) => n \in (Len(buf[r]) + 1)..Len(data[rf[r]])
  BY <1>1
<1> QED
  BY <1>2, <1>3 DEF ReadChunk

\* Reading further appends blocks of the file.
LEMMA ReadFurther ==
    ASSUME NEW file \in Blocks, NEW b \in Blocks, NEW n \in (Len(b) + 1)..Len(file),
           NEW c, c = b \o SubSeq(file, Len(b) + 1, n)
    PROVE  /\ c \in Blocks /\ Len(c) = n
           /\ \A k \in 1..n : c[k] = IF k <= Len(b) THEN b[k] ELSE file[k]
<1>1. Len(b) \in Nat /\ Len(file) \in Nat
  BY LenProperties DEF Blocks
<1>2. /\ Len(b) + 1 \in Int /\ n \in Int /\ Len(b) + 1 <= n
      /\ \A i \in (Len(b) + 1)..n : file[i] \in 0..Hole
  <2>1. \A i \in 1..Len(file) : file[i] \in 0..Hole
    BY ElementOfSeq, Zenon DEF Blocks
  <2>2. \A i \in (Len(b) + 1)..n : i \in 1..Len(file)
    BY <1>1
  <2> QED
    BY <1>1, <2>1, <2>2
<1> DEFINE s == SubSeq(file, Len(b) + 1, n)
<1>3. /\ s \in Blocks /\ Len(s) = n - Len(b)
      /\ \A k \in 1..(n - Len(b)) : s[k] = file[Len(b) + k]
  <2>1. /\ s \in Seq(0..Hole) /\ Len(s) = n - (Len(b) + 1) + 1
        /\ \A k \in 1..(n - (Len(b) + 1) + 1) : s[k] = file[(Len(b) + 1) + k - 1]
    BY <1>2, SubSeqProperties DEF Blocks
  <2>2. n - (Len(b) + 1) + 1 = n - Len(b) /\ \A k \in Nat : (Len(b) + 1) + k - 1 = Len(b) + k
    BY <1>1
  <2> QED
    BY <2>1, <2>2 DEF Blocks
<1> HIDE DEF s
<1>4. /\ c \in Blocks /\ Len(c) = Len(b) + Len(s)
      /\ \A k \in 1..(Len(b) + Len(s)) : c[k] = IF k <= Len(b) THEN b[k] ELSE s[k - Len(b)]
  BY <1>3, ConcatProperties DEF Blocks, s
<1>5. Len(b) + Len(s) = n
  BY <1>1, <1>3
<1>6. \A k \in 1..n : ~(k <= Len(b)) => s[k - Len(b)] = file[k]
  <2> SUFFICES ASSUME NEW k \in 1..n, ~(k <= Len(b)) PROVE s[k - Len(b)] = file[k]
    BY Zenon
  <2>1. k - Len(b) \in 1..(n - Len(b)) /\ Len(b) + (k - Len(b)) = k
    BY <1>1
  <2> QED
    BY <1>3, <2>1
<1> QED
  BY <1>4, <1>5, <1>6

\* A step of read_all keeps the types.
LEMMA ReadTypes ==
    ASSUME FileTypes, ReaderInv, NEW r \in Readers, Read(r)
    PROVE  FileTypes'
<1> USE DEF FileTypes, fs, writing
<1>1. CASE ReadOpen(r)
  <2>1. <<>> \in Blocks /\ dir.path \in Inodes
    BY EmptySeq DEF Blocks, Directories
  <2>2. /\ rf' \in [Readers -> Inodes \cup {None}] /\ rpc' \in [Readers -> {"idle", "read", "trim"}]
        /\ rret' \in [Readers -> {"none", "ok", "error"}]
    BY <1>1, <2>1, Zenon DEF ReadOpen, ReadEnds
  <2>3. buf' \in [Readers -> Blocks] /\ cap' \in [Readers -> Nat] /\ UNCHANGED <<fs, writing>>
    BY <1>1, <2>1 DEF ReadOpen
  <2> QED
    BY <2>2, <2>3
<1>2. CASE ReadTrim(r)
  BY <1>2 DEF ReadTrim, ReadEnds
<1>3. CASE ReadChunk(r)
  <2>1. rf[r] \in Inodes
    <3>1. rpc[r] = "read"
      BY <1>3 DEF ReadChunk
    <3>2. rf[r] # None
      BY <3>1 DEF ReaderInv
    <3> QED
      BY <3>2, Zenon
  <2>2. data[rf[r]] \in Blocks /\ buf[r] \in Blocks
    BY <2>1
  <2>3. CASE ReadEnds(r, "error") /\ UNCHANGED <<buf, cap>>
    BY <1>3, <2>1, <2>3, Chunked, Zenon DEF ReadEnds
  <2>4. ASSUME NEW c \in Nat, cap' = [cap EXCEPT ![r] = c], UNCHANGED <<rf, rret>>,
               NEW n \in (Len(buf[r]) + 1)..Len(data[rf[r]]), UNCHANGED rpc,
               buf' = [buf EXCEPT ![r] = @ \o SubSeq(data[rf[r]], Len(buf[r]) + 1, n)]
        PROVE  FileTypes'
    <3>1. buf[r] \o SubSeq(data[rf[r]], Len(buf[r]) + 1, n) \in Blocks
      BY <2>2, ReadFurther, Zenon
    <3>2. UNCHANGED <<fs, writing>>
      BY <1>3, <2>1, Chunked, Zenon
    <3> QED
      BY <2>4, <3>1, <3>2, Zenon
  <2>5. ASSUME NEW c \in Nat, cap' = [cap EXCEPT ![r] = c], UNCHANGED <<rf, rret, buf>>,
               rpc' = [rpc EXCEPT ![r] = "trim"]
        PROVE  FileTypes'
    BY <1>3, <2>1, <2>5, Chunked
  <2> QED
    BY <1>3, <2>1, <2>3, <2>4, <2>5, Chunked, Zenon
<1> QED
  BY <1>1, <1>2, <1>3 DEF Read

\* Every step keeps the types.
LEMMA FileTypesStep == FileTypes /\ WriterInv /\ ReaderInv /\ [FileNext]_fileVars => FileTypes'
<1> SUFFICES ASSUME FileTypes, WriterInv, ReaderInv, [FileNext]_fileVars PROVE FileTypes'
  OBVIOUS
<1>1. ASSUME NEW w \in Writers, Write(w) PROVE FileTypes'
  BY <1>1, WriteTypes
<1>2. ASSUME NEW r \in Readers, Read(r) PROVE FileTypes'
  BY <1>2, ReadTypes
<1>3. CASE Writeback
  BY <1>3 DEF Writeback, FileTypes, writing, reading
<1>4. CASE Crash
  <2>1. <<>> \in Blocks
    BY EmptySeq DEF Blocks
  <2> QED
    BY <1>4, <2>1, Zenon DEF Crash, FileTypes
<1>5. CASE UNCHANGED fileVars
  BY <1>5 DEF fileVars, fs, writing, reading, FileTypes
<1> QED
  BY <1>1, <1>2, <1>3, <1>4, <1>5 DEF FileNext

-----------------------------------------------------------------------------
(* The target *)

\* The inodes that directories and readers refer to are in use.
LEMMA InUseHas ==
    ASSUME FileTypes
    PROVE  /\ dir.path \in InUse /\ dirDisk.path \in InUse
           /\ \A r \in Readers : rf[r] \in InUse
<1>1. \A d \in Directories : "path" \in DOMAIN d /\ d["path"] = d.path
  BY Zenon DEF Directories
<1> QED
  BY <1>1 DEF FileTypes, InUse

\* Opening and filling the temp file touch no other.
LEMMA OnlyTemp ==
    ASSUME FileTypes, TargetInv, WriterInv, ReaderInv,
           NEW w \in Writers, WriteOpen(w) \/ WriteBlock(w)
    PROVE  /\ UNCHANGED <<dirDisk, disk, reading>>
           /\ \/ UNCHANGED <<dir, data>>
              \/ /\ dir' = [path |-> dir.path, tmp |-> dir'.tmp] /\ dir'.tmp \in Inodes
                 /\ dir'.tmp # dir.path /\ dir'.tmp # dirDisk.path
                 /\ \A r \in Readers : rpc[r] # "idle" => rf[r] # dir'.tmp
                 /\ \A j \in Inodes : j # dir'.tmp => data'[j] = data[j]
<1>1. dir = [path |-> dir.path, tmp |-> dir.tmp] /\ data = [j \in Inodes |-> data[j]]
  BY DEF FileTypes, Directories
<1>2. UNCHANGED <<dirDisk, disk, reading>>
  BY DEF WriteOpen, WriteBlock, WriterAt
<1>3. CASE WriteOpen(w)
  <2>1. CASE UNCHANGED <<dir, data>>
    BY <1>2, <2>1
  <2>2. CASE ~UNCHANGED <<dir, data>>
    <3>1. PICK i \in IF dir.tmp # None THEN {dir.tmp} ELSE Inodes \ InUse :
              dir' = [dir EXCEPT !.tmp = i] /\ data' = [data EXCEPT ![i] = <<>>]
      BY <1>3, <2>2 DEF WriteOpen
    <3>2. dir' = [path |-> dir.path, tmp |-> i] /\ dir'.tmp = i
      BY <1>1, <3>1
    <3>3. /\ i \in Inodes /\ i # dir.path /\ i # dirDisk.path
          /\ \A r \in Readers : rpc[r] # "idle" => rf[r] # i
      <4>1. CASE dir.tmp # None
        BY <3>1, <4>1 DEF FileTypes, Directories, TargetInv, ReaderInv
      <4>2. CASE dir.tmp = None
        BY <3>1, <4>2, InUseHas
      <4> QED
        BY <4>1, <4>2
    <3>4. \A j \in Inodes : j # i => data'[j] = data[j]
      BY <1>1, <3>1
    <3> QED
      BY <1>2, <3>2, <3>3, <3>4
  <2> QED
    BY <2>1, <2>2
<1>4. CASE WriteBlock(w)
  <2>1. wpc[w] = "write" /\ dir' = dir
    BY <1>4, Zenon DEF WriteBlock, WriterAt, WriterFails
  <2>2. wf[w] = dir.tmp /\ dir.tmp # None
    BY <2>1 DEF WriterInv, Progress, Open
  <2>3. dir.tmp \in Inodes
    BY <2>2, Zenon DEF FileTypes, Directories
  <2>4. \A j \in Inodes : j # dir.tmp => data'[j] = data[j]
    BY <1>1, <1>4, <2>2 DEF WriteBlock, WriterFails
  <2> QED
    BY <1>1, <1>2, <2>1, <2>3, <2>4 DEF TargetInv, ReaderInv
<1> QED
  BY <1>3, <1>4

\* Every step leaves the target whole.
LEMMA TargetStep ==
    FileTypes /\ TargetInv /\ WriterInv /\ ReaderInv /\ [FileNext]_fileVars => TargetInv'
<1> SUFFICES ASSUME FileTypes, TargetInv, WriterInv, ReaderInv, [FileNext]_fileVars PROVE TargetInv'
  OBVIOUS
<1>0. /\ dir.path \in Inodes /\ dirDisk.path \in Inodes
      /\ data \in [Inodes -> Blocks] /\ disk \in [Inodes -> Blocks]
  BY DEF FileTypes, Directories
<1>1. ASSUME NEW w \in Writers, WriteOpen(w) \/ WriteBlock(w) PROVE TargetInv'
  <2>1. UNCHANGED <<dirDisk, disk>>
    BY <1>1, OnlyTemp
  <2>2. CASE UNCHANGED <<dir, data>>
    BY <2>1, <2>2 DEF TargetInv
  <2>3. CASE ~UNCHANGED <<dir, data>>
    <3>1. /\ dir'.path = dir.path /\ dir'.tmp # dir.path /\ dir'.tmp # dirDisk.path
          /\ data'[dir.path] = data[dir.path] /\ data'[dirDisk.path] = data[dirDisk.path]
      BY <1>0, <1>1, <2>3, OnlyTemp
    <3> QED
      BY <2>1, <3>1, Zenon DEF TargetInv
  <2> QED
    BY <2>2, <2>3
<1>2. ASSUME NEW w \in Writers, WriteSync(w) PROVE TargetInv'
  <2>1. wpc[w] = "sync" /\ UNCHANGED <<dir, dirDisk, data>>
    BY <1>2 DEF WriteSync
  <2>2. wf[w] = dir.tmp
    BY <2>1, Zenon DEF WriterInv, Progress, Open
  <2>3. disk'[dir.path] = disk[dir.path] /\ disk'[dirDisk.path] = disk[dirDisk.path]
    BY <1>0, <1>2, <2>2 DEF WriteSync, TargetInv
  <2> QED
    BY <2>1, <2>3, Zenon DEF TargetInv
<1>3. ASSUME NEW w \in Writers, WriteClose(w) \/ WriteCloseFailed(w) PROVE TargetInv'
  <2>1. UNCHANGED <<dir, dirDisk, data, disk>>
    BY <1>3 DEF WriteClose, WriteCloseFailed, WriterAt
  <2> QED
    BY <2>1, Zenon DEF TargetInv
<1>4. ASSUME NEW w \in Writers, WriteRename(w) PROVE TargetInv'
  <2>1. wpc[w] = "rename" /\ UNCHANGED <<dirDisk, data, disk>>
    BY <1>4 DEF WriteRename, WriterAt, WriterFails
  <2>2. CASE dir' = dir
    BY <2>1, <2>2, Zenon DEF TargetInv
  <2>3. CASE dir' # dir
    <3>1. dir.tmp # None /\ dir' = [path |-> dir.tmp, tmp |-> None]
      BY <1>4, <2>3 DEF WriteRename, WriterFails
    <3>2. wv[w] \in Versions /\ data[dir.tmp] = Whole(wv[w]) /\ disk[dir.tmp] = Whole(wv[w])
      BY <2>1, Zenon DEF WriterInv, Progress, FileTypes
    <3>3. dir'.path = dir.tmp /\ dir'.tmp = None
      BY <3>1, Zenon
    <3> QED
      BY <1>0, <2>1, <3>1, <3>2, <3>3, FileAssumption, Zenon DEF TargetInv, IsWhole
  <2> QED
    BY <2>2, <2>3
<1>5. ASSUME NEW w \in Writers, WriteRemove(w) PROVE TargetInv'
  <2>1. UNCHANGED <<dirDisk, data, disk>> /\ dir' \in {dir, [dir EXCEPT !.tmp = None]}
    BY <1>5 DEF WriteRemove, WriterAt
  <2>2. dir'.path = dir.path /\ dir'.tmp \in {dir.tmp, None}
    BY <2>1 DEF FileTypes, Directories
  <2> QED
    BY <1>0, <2>1, <2>2, FileAssumption DEF TargetInv
<1>6. ASSUME NEW r \in Readers, Read(r) PROVE TargetInv'
  <2>1. UNCHANGED <<dir, dirDisk, data, disk>>
    BY <1>6, Zenon DEF Read, ReadOpen, ReadChunk, ReadTrim, fs
  <2> QED
    BY <2>1 DEF TargetInv
<1>7. CASE Writeback
  <2>1. UNCHANGED <<dir, data>>
    BY <1>7 DEF Writeback
  <2>2. CASE dirDisk' = dir /\ UNCHANGED disk
    BY <2>1, <2>2, Zenon DEF TargetInv
  <2>3. ASSUME NEW i \in Inodes, disk' = [disk EXCEPT ![i] = data[i]], UNCHANGED dirDisk
        PROVE  TargetInv'
    <3>1. \A j \in Inodes : disk'[j] \in {disk[j], data[j]}
      BY <1>0, <2>3
    <3> QED
      BY <1>0, <2>1, <2>3, <3>1, Zenon DEF TargetInv
  <2> QED
    BY <1>7, <2>2, <2>3 DEF Writeback
<1>8. CASE Crash
  BY <1>8, Zenon DEF Crash, TargetInv
<1>9. CASE UNCHANGED fileVars
  BY <1>9, Zenon DEF fileVars, fs, TargetInv
<1> QED
  BY <1>1, <1>2, <1>3, <1>4, <1>5, <1>6, <1>7, <1>8, <1>9, Zenon DEF FileNext, Write

-----------------------------------------------------------------------------
(* The writer *)

\* Every step leaves the writer with a temp file as good as its place says.
LEMMA WriterStep ==
    /\ OneWriter /\ FileTypes /\ TargetInv /\ WriterInv /\ ReaderInv /\ [FileNext]_fileVars
    => WriterInv'
<1> SUFFICES ASSUME OneWriter, FileTypes, TargetInv, WriterInv, ReaderInv, [FileNext]_fileVars,
                    NEW w \in Writers
             PROVE  Progress(w)'
  BY DEF WriterInv
<1>0. /\ data \in [Inodes -> Blocks] /\ disk \in [Inodes -> Blocks]
      /\ wpc \in [Writers -> {"idle", "rename", "remove"} \cup Open]
      /\ wf \in [Writers -> Inodes \cup {None}] /\ off \in [Writers -> Nat]
      /\ wv \in [Writers -> Versions]
  BY DEF FileTypes
<1>1. Progress(w) /\ \A u \in Writers : u = w
  BY DEF WriterInv, OneWriter
<1>2. CASE WriteOpen(w)
  <2>1. CASE UNCHANGED <<dir, data, wf, off, wpc>> /\ wpc[w] = "idle"
    BY <2>1, Zenon DEF Progress, Open
  <2>2. CASE ~(UNCHANGED <<dir, data, wf, off, wpc>> /\ wpc[w] = "idle")
    <3>1. PICK i \in IF dir.tmp # None THEN {dir.tmp} ELSE Inodes \ InUse :
              /\ dir' = [dir EXCEPT !.tmp = i] /\ data' = [data EXCEPT ![i] = <<>>]
              /\ wf' = [wf EXCEPT ![w] = i] /\ off' = [off EXCEPT ![w] = 0]
              /\ wpc' = [wpc EXCEPT ![w] = "write"]
      BY <1>2, <2>2 DEF WriteOpen, WriterAt, WriterGoes
    <3>2. i \in Inodes /\ dir'.tmp = i
      BY <3>1 DEF FileTypes, Directories
    <3>3. /\ data'[i] = <<>> /\ wf'[w] = i /\ off'[w] = 0 /\ wpc'[w] = "write"
      BY <1>0, <3>1, <3>2
    <3>4. data'[i] = [b \in 1..off'[w] |-> wv'[w]]
      BY <3>3
    <3> QED
      BY <3>2, <3>3, <3>4, FileAssumption DEF Progress
  <2> QED
    BY <2>1, <2>2
<1>3. CASE WriteBlock(w)
  <2>1. wpc[w] = "write" /\ dir' = dir /\ wf' = wf /\ wv' = wv
    BY <1>3, Zenon DEF WriteBlock, WriterAt, WriterFails
  <2>2. /\ wf[w] # None /\ wf[w] = dir.tmp
        /\ off[w] < Size /\ data[dir.tmp] = [b \in 1..off[w] |-> wv[w]]
    BY <1>1, <2>1, Zenon DEF Progress, Open
  <2>3. CASE wpc' = [wpc EXCEPT ![w] = "close"]
    BY <1>0, <2>1, <2>2, <2>3, Zenon DEF Progress, Open
  <2>4. CASE wpc' # [wpc EXCEPT ![w] = "close"]
    <3> DEFINE old == data[dir.tmp]
               n   == off[w] + 1
    <3>1. /\ data' = [data EXCEPT ![dir.tmp] =
                        [b \in 1..(IF Len(old) > n THEN Len(old) ELSE n) |->
                            IF b = n THEN wv[w] ELSE IF b <= Len(old) THEN old[b] ELSE Hole]]
          /\ off' = [off EXCEPT ![w] = n]
          /\ wpc' = [wpc EXCEPT ![w] = IF n = Size THEN "sync" ELSE "write"]
      BY <1>3, <2>2, <2>4, Zenon DEF WriteBlock, WriterFails, WriterGoes
    <3>2. dir.tmp \in Inodes /\ off[w] \in Nat
      BY <1>0, <2>2, Zenon
    <3>3. Len(old) = off[w]
      BY <2>2, <3>2
    <3>4. data'[dir.tmp] = [b \in 1..n |-> wv[w]]
      <4>1. (IF Len(old) > n THEN Len(old) ELSE n) = n
        BY <3>2, <3>3
      <4>2. \A b \in 1..n : (IF b = n THEN wv[w] ELSE IF b <= Len(old) THEN old[b] ELSE Hole) = wv[w]
        BY <2>2, <3>2, <3>3
      <4>3. data'[dir.tmp] = [b \in 1..n |->
                IF b = n THEN wv[w] ELSE IF b <= Len(old) THEN old[b] ELSE Hole]
        BY <1>0, <3>1, <3>2, <4>1, Zenon
      <4> QED
        BY <4>2, <4>3
    <3>5. off'[w] = n /\ wpc'[w] = IF n = Size THEN "sync" ELSE "write"
      BY <1>0, <3>1, Zenon
    <3>6. n = Size \/ n < Size
      BY <2>2, <3>2, FileAssumption
    <3>7. n = Size => data'[dir.tmp] = Whole(wv[w])
      BY <3>4 DEF Whole
    <3> HIDE DEF n, old
    <3> QED
      BY <2>1, <2>2, <3>4, <3>5, <3>6, <3>7, Zenon DEF Progress
  <2> QED
    BY <2>3, <2>4
<1>4. CASE WriteSync(w)
  <2>1. wpc[w] = "sync" /\ UNCHANGED <<dir, data, wf, wv>>
    BY <1>4, Zenon DEF WriteSync
  <2>2. wf[w] # None /\ wf[w] = dir.tmp /\ data[dir.tmp] = Whole(wv[w])
    BY <1>1, <2>1, Zenon DEF Progress, Open
  <2>3. \/ wpc'[w] = "close"
        \/ wpc'[w] = "fclose" /\ disk'[dir.tmp] = data[dir.tmp]
    BY <1>0, <1>4, <2>2, Zenon DEF WriteSync, WriterGoes
  <2> QED
    BY <2>1, <2>2, <2>3, Zenon DEF Progress
<1>5. CASE WriteClose(w) \/ WriteCloseFailed(w)
  <2>1. /\ wpc[w] \in {"fclose", "close"} /\ UNCHANGED <<dir, data, disk, wv>>
        /\ wpc'[w] = "remove" \/ (wpc[w] = "fclose" /\ wpc'[w] = "rename")
    BY <1>0, <1>5, Zenon DEF WriteClose, WriteCloseFailed, WriterAt, WriterGoes
  <2> QED
    BY <1>1, <2>1, Zenon DEF Progress, Open
<1>6. CASE WriteRename(w) \/ WriteRemove(w)
  <2>1. wpc'[w] \in {"idle", "remove"}
    BY <1>0, <1>6 DEF WriteRename, WriteRemove, WriterFails, WriterGoes
  <2> QED
    BY <2>1, Zenon DEF Progress, Open
<1>7. ASSUME NEW r \in Readers, Read(r) PROVE Progress(w)'
  <2>1. UNCHANGED <<fs, writing>>
    BY <1>7, Zenon DEF Read, ReadOpen, ReadChunk, ReadTrim
  <2> QED
    BY <1>1, <2>1, Zenon DEF fs, writing, Progress
<1>8. CASE Writeback
  <2>1. UNCHANGED <<dir, data, writing>>
    BY <1>8 DEF Writeback
  <2>2. \A i \in Inodes : disk'[i] \in {disk[i], data[i]}
    BY <1>0, <1>8 DEF Writeback
  <2>3. dir.tmp \in Inodes \cup {None}
    BY Zenon DEF FileTypes, Directories
  <2> QED
    BY <1>1, <2>1, <2>2, <2>3, Zenon DEF writing, Progress
<1>9. CASE Crash
  <2>1. wpc'[w] = "idle"
    BY <1>9 DEF Crash
  <2> QED
    BY <2>1, Zenon DEF Progress, Open
<1>10. CASE UNCHANGED fileVars
  BY <1>1, <1>10, Zenon DEF fileVars, fs, writing, Progress
<1> QED
  BY <1>1, <1>2, <1>3, <1>4, <1>5, <1>6, <1>7, <1>8, <1>9, <1>10 DEF FileNext, Write

-----------------------------------------------------------------------------
(* The readers *)

\* A step that touches no reader and no file that one has open.
LEMMA ReaderFrame ==
    ASSUME ReaderInv, UNCHANGED <<rpc, rf, buf, rret>>,
           \A r \in Readers : rpc[r] # "idle" =>
               rf[r] # dir'.tmp /\ data'[rf[r]] = data[rf[r]]
    PROVE  ReaderInv'
BY DEF ReaderInv

\* A step of the writer touches no file that a reader has open.
LEMMA ReaderUndisturbed ==
    ASSUME FileTypes, TargetInv, WriterInv, ReaderInv, NEW w \in Writers, Write(w)
    PROVE  ReaderInv'
<1>1. UNCHANGED <<rpc, rf, buf, rret>>
  BY Zenon DEF Write, WriteOpen, WriteBlock, WriteSync, WriteClose, WriteRename, WriteCloseFailed,
         WriteRemove, WriterAt, reading
<1>2. \A r \in Readers : rpc[r] # "idle" => rf[r] \in Inodes /\ rf[r] # dir.tmp
  BY Zenon DEF ReaderInv, FileTypes
<1>3. CASE WriteOpen(w) \/ WriteBlock(w)
  <2>1. CASE UNCHANGED <<dir, data>>
    BY <1>1, <1>2, <2>1, ReaderFrame
  <2>2. CASE ~UNCHANGED <<dir, data>>
    <3>1. /\ \A r \in Readers : rpc[r] # "idle" => rf[r] # dir'.tmp
          /\ \A j \in Inodes : j # dir'.tmp => data'[j] = data[j]
      BY <1>3, <2>2, OnlyTemp
    <3> QED
      BY <1>1, <1>2, <3>1, ReaderFrame
  <2> QED
    BY <2>1, <2>2
<1>4. CASE ~(WriteOpen(w) \/ WriteBlock(w))
  <2>1. data' = data
    BY <1>4 DEF Write, WriteSync, WriteClose, WriteRename, WriteCloseFailed, WriteRemove,
                WriterFails
  <2>2. dir'.tmp \in {dir.tmp, None}
    BY <1>4 DEF Write, WriteSync, WriteClose, WriteRename, WriteCloseFailed, WriteRemove,
                WriterFails, FileTypes, Directories
  <2> QED
    BY <1>1, <1>2, <2>1, <2>2, FileAssumption, ReaderFrame, Zenon
<1> QED
  BY <1>3, <1>4

\* A reader's own step reads on in the file it has open.
LEMMA ReaderReads ==
    ASSUME FileTypes, TargetInv, ReaderInv, NEW r \in Readers, Read(r)
    PROVE  ReaderInv'
<1>0. /\ rpc \in [Readers -> {"idle", "read", "trim"}]
      /\ rf \in [Readers -> Inodes \cup {None}]
      /\ buf \in [Readers -> Blocks] /\ rret \in [Readers -> {"none", "ok", "error"}]
  BY DEF FileTypes
<1>1. UNCHANGED <<dir, data>>
  BY Zenon DEF Read, ReadOpen, ReadChunk, ReadTrim, fs
<1> DEFINE Reading(q) ==
        /\ rpc'[q] # "idle" =>
            /\ rf'[q] # None /\ rf'[q] # dir'.tmp
            /\ \E v \in Versions : /\ data'[rf'[q]] = Whole(v) /\ Len(buf'[q]) <= Size
                                   /\ \A k \in 1..Len(buf'[q]) : buf'[q][k] = v
        /\ rpc'[q] = "trim" => Len(buf'[q]) = Size
        /\ rret'[q] = "ok" => rpc'[q] = "idle"
<1>2. ASSUME NEW q \in Readers, q # r PROVE Reading(q)
  <2>1. /\ rpc'[q] = rpc[q] /\ rf'[q] = rf[q] /\ buf'[q] = buf[q] /\ rret'[q] = rret[q]
    BY <1>0, <1>2, Zenon DEF Read, ReadOpen, ReadChunk, ReadTrim, ReadEnds
  <2> QED
    BY <1>1, <2>1 DEF ReaderInv
<1>3. ASSUME rpc'[r] = "idle" PROVE Reading(r)
  BY <1>3, Zenon
<1>4. ASSUME ReadOpen(r), rpc'[r] # "idle" PROVE Reading(r)
  <2>1. rf'[r] = dir.path /\ rpc'[r] = "read" /\ rret'[r] = "none" /\ buf'[r] = <<>>
    BY <1>0, <1>4 DEF ReadOpen, ReadEnds
  <2>2. dir.path # None /\ dir.path # dir.tmp /\ IsWhole(data[dir.path])
    BY FileAssumption, Zenon DEF TargetInv, FileTypes, Directories
  <2>3. PICK v \in Versions : data[dir.path] = Whole(v)
    BY <2>2 DEF IsWhole
  <2>4. Len(buf'[r]) = 0
    BY <2>1
  <2> QED
    BY <1>1, <2>1, <2>2, <2>3, <2>4, FileAssumption
<1>5. ASSUME ReadChunk(r), rpc'[r] # "idle" PROVE Reading(r)
  <2>1. rpc[r] = "read"
    BY <1>5, Zenon DEF ReadChunk
  <2>2. rf[r] # None /\ rf[r] # dir.tmp /\ rf[r] \in Inodes /\ rret[r] # "ok"
    BY <1>0, <2>1, Zenon DEF ReaderInv
  <2>3. PICK v \in Versions : /\ data[rf[r]] = Whole(v) /\ Len(buf[r]) <= Size
                              /\ \A k \in 1..Len(buf[r]) : buf[r][k] = v
    BY <2>1, Zenon DEF ReaderInv
  <2>4. /\ Len(data[rf[r]]) = Size /\ data[rf[r]] \in Blocks /\ Len(buf[r]) \in Nat
        /\ \A k \in 1..Size : data[rf[r]][k] = v
    <3>1. Len(data[rf[r]]) = Size /\ data[rf[r]] \in Blocks
      BY <2>3, WholeIsFile, Zenon
    <3>2. Len(buf[r]) \in Nat
      BY <1>0, LenProperties, Zenon DEF Blocks
    <3> QED
      BY <2>3, <3>1, <3>2, Zenon DEF Whole
  <2>5. UNCHANGED <<rf, rret>>
    BY <1>0, <1>5, <2>2, Chunked, Zenon DEF ReadEnds
  <2>6. ASSUME NEW n \in (Len(buf[r]) + 1)..Len(data[rf[r]]), UNCHANGED rpc,
               buf' = [buf EXCEPT ![r] = @ \o SubSeq(data[rf[r]], Len(buf[r]) + 1, n)]
        PROVE  Reading(r)
    <3>1. buf[r] \in Blocks /\ buf'[r] = buf[r] \o SubSeq(data[rf[r]], Len(buf[r]) + 1, n)
      BY <1>0, <2>6, Zenon
    <3>2. /\ Len(buf'[r]) = n
          /\ \A k \in 1..n : buf'[r][k] = IF k <= Len(buf[r]) THEN buf[r][k] ELSE data[rf[r]][k]
      <4>1. PICK file \in Blocks, b \in Blocks : file = data[rf[r]] /\ b = buf[r]
        BY <2>4, <3>1, Zenon
      <4>2. PICK c : c = buf'[r]
        OBVIOUS
      <4>3. /\ file \in Blocks /\ b \in Blocks
            /\ n \in (Len(b) + 1)..Len(file) /\ c = b \o SubSeq(file, Len(b) + 1, n)
        BY <3>1, <4>1, <4>2, Zenon
      <4>4. Len(c) = n /\ \A k \in 1..n : c[k] = IF k <= Len(b) THEN b[k] ELSE file[k]
        BY <4>3, ReadFurther
      <4> QED
        BY <4>1, <4>2, <4>4, Zenon
    <3>3. n <= Size /\ \A k \in 1..n : buf'[r][k] = v
      BY <2>3, <2>4, <3>2
    <3>4. rpc'[r] = "read" /\ rf'[r] = rf[r] /\ rret'[r] # "ok"
      BY <2>1, <2>2, <2>5, <2>6, Zenon
    <3>5. \A k \in 1..Len(buf'[r]) : buf'[r][k] = v
      BY <3>2, <3>3, Zenon
    <3>6. Len(buf'[r]) <= Size /\ data'[rf'[r]] = Whole(v)
      BY <1>1, <2>3, <3>2, <3>3, <3>4, Zenon
    <3> QED
      BY <1>1, <2>2, <3>4, <3>5, <3>6, Zenon
  <2>7. ASSUME Len(buf[r]) >= Len(data[rf[r]]), UNCHANGED buf,
               rpc' = [rpc EXCEPT ![r] = "trim"]
        PROVE  Reading(r)
    <3>1. Len(buf[r]) = Size
      BY <2>3, <2>4, <2>7, FileAssumption
    <3> QED
      BY <1>1, <2>2, <2>3, <2>5, <2>7, <3>1, Zenon
  <2> HIDE DEF Reading
  <2> QED
    BY <1>0, <1>5, <2>2, <2>6, <2>7, Chunked, Zenon DEF ReadEnds
<1>6. ReadTrim(r) => rpc'[r] = "idle"
  BY <1>0 DEF ReadTrim, ReadEnds
<1>7. \A q \in Readers : Reading(q)
  <2> HIDE DEF Reading
  <2> QED
    BY <1>2, <1>3, <1>4, <1>5, <1>6 DEF Read
<1> QED
  BY <1>7, Zenon DEF ReaderInv

\* Every step leaves the readers with whole files.
LEMMA ReaderStep ==
    FileTypes /\ TargetInv /\ WriterInv /\ ReaderInv /\ [FileNext]_fileVars => ReaderInv'
<1> SUFFICES ASSUME FileTypes, TargetInv, WriterInv, ReaderInv, [FileNext]_fileVars PROVE ReaderInv'
  OBVIOUS
<1>1. CASE Writeback \/ UNCHANGED fileVars
  <2>1. UNCHANGED <<dir, data, rpc, rf, buf, rret>>
    BY <1>1, Zenon DEF Writeback, fileVars, fs, reading
  <2> QED
    BY <2>1, Zenon DEF ReaderInv
<1>2. CASE Crash
  BY <1>2, Zenon DEF Crash, ReaderInv
<1> QED
  BY <1>1, <1>2, ReaderUndisturbed, ReaderReads DEF FileNext

\* Every step keeps what the readers that succeeded have read.
LEMMA ResultStep ==
    FileTypes /\ ReaderInv /\ ReadsOneVersion /\ [FileNext]_fileVars => ReadsOneVersion'
<1> SUFFICES ASSUME FileTypes, ReaderInv, ReadsOneVersion, [FileNext]_fileVars,
                    NEW q \in Readers, rret'[q] = "ok"
             PROVE  IsWhole(buf'[q])
  BY Zenon DEF ReadsOneVersion, IsWhole
<1>0. /\ rpc \in [Readers -> {"idle", "read", "trim"}] /\ buf \in [Readers -> Blocks]
      /\ rret \in [Readers -> {"none", "ok", "error"}]
  BY Zenon DEF FileTypes
<1>1. CASE rret'[q] = rret[q] /\ buf'[q] = buf[q]
  BY <1>1, Zenon DEF ReadsOneVersion, IsWhole
<1>2. ASSUME NEW r \in Readers, Read(r), q # r
      PROVE  rret'[q] = rret[q] /\ buf'[q] = buf[q]
  BY <1>0, <1>2, Zenon DEF Read, ReadOpen, ReadChunk, ReadTrim, ReadEnds
<1>3. ReadOpen(q) => rret'[q] # "ok"
  BY <1>0, Zenon DEF ReadOpen, ReadEnds
<1>4. ReadChunk(q) => rret'[q] # "ok"
  <2>1. rpc[q] = "read" => rret[q] # "ok"
    BY Zenon DEF ReaderInv
  <2> QED
    BY <1>0, <2>1, Zenon DEF ReadChunk, ReadEnds
<1>5. CASE ReadTrim(q)
  <2>1. rpc[q] = "trim" /\ buf' = buf
    BY <1>5, Zenon DEF ReadTrim
  <2>2. PICK v \in Versions : \A k \in 1..Len(buf[q]) : buf[q][k] = v
    BY <2>1, Zenon DEF ReaderInv
  <2>3. Len(buf[q]) = Size
    BY <2>1, Zenon DEF ReaderInv
  <2>4. buf[q] = [b \in 1..Size |-> buf[q][b]]
    BY <1>0, <2>3, LenProperties DEF Blocks
  <2>5. buf[q] = Whole(v)
    BY <2>2, <2>3, <2>4, Zenon DEF Whole
  <2> QED
    BY <2>1, <2>5 DEF IsWhole
<1>6. ASSUME NEW w \in Writers, Write(w) PROVE rret' = rret /\ buf' = buf
  BY <1>6, Zenon DEF Write, WriteOpen, WriteBlock, WriteSync, WriteClose, WriteRename,
              WriteCloseFailed, WriteRemove, WriterAt, reading
<1>7. Writeback \/ UNCHANGED fileVars => rret' = rret /\ buf' = buf
  BY Zenon DEF Writeback, fileVars, reading
<1>8. ~Crash
  BY DEF Crash
<1> QED
  BY <1>1, <1>2, <1>3, <1>4, <1>5, <1>6, <1>7, <1>8, Zenon DEF FileNext, Read

-----------------------------------------------------------------------------
(* Theorems *)

\* The inductive invariant holds while at most one process writes.
THEOREM FileInvariance ==
    ASSUME OneWriter
    PROVE  FileSpec => []FileInv
<1>1. FileInit => FileInv
  <2> SUFFICES ASSUME FileInit PROVE FileInv
    OBVIOUS
  <2>1. PICK i \in Inodes :
            /\ dir = [path |-> i, tmp |-> None] /\ dirDisk = dir
            /\ data = [j \in Inodes |-> IF j = i THEN Whole(0) ELSE <<>>] /\ disk = data
    BY Zenon DEF FileInit
  <2>2. 0 \in Versions /\ <<>> \in Blocks /\ Whole(0) \in Blocks
    BY FileAssumption, EmptySeq, WholeIsFile DEF Versions, Blocks
  <2>3. dir \in Directories /\ data \in [Inodes -> Blocks]
    BY <2>1, <2>2, Zenon DEF Directories
  <2>4. FileTypes
    BY <2>1, <2>2, <2>3, Zenon DEF FileInit, FileTypes
  <2>5. TargetInv
    BY <2>1, <2>2, FileAssumption, Zenon DEF TargetInv, IsWhole
  <2>6. WriterInv /\ ReaderInv /\ ReadsOneVersion
    BY Zenon DEF FileInit, WriterInv, Progress, Open, ReaderInv, ReadsOneVersion
  <2> QED
    BY <2>4, <2>5, <2>6 DEF FileInv
<1>2. FileInv /\ [FileNext]_fileVars => FileInv'
  BY FileTypesStep, TargetStep, WriterStep, ReaderStep, ResultStep DEF FileInv
<1> QED
  BY <1>1, <1>2, PTL DEF FileSpec

\* With at most one writer the target is at every moment one whole version,
\* whatever step fails, whatever the kernel has written back and whenever the
\* machine crashes.
THEOREM TargetAlwaysWhole ==
    ASSUME OneWriter
    PROVE  FileSpec => []NeverHalfWritten
<1>1. FileInv => NeverHalfWritten
  BY FileAssumption, Zenon DEF FileInv, FileTypes, Directories, TargetInv, IsWhole, NeverHalfWritten
<1> QED
  BY <1>1, FileInvariance, PTL

\* With at most one writer every read_all that succeeds returns one whole version,
\* however the chunks and the writer's steps interleave.
THEOREM ReadersSeeOneVersion ==
    ASSUME OneWriter
    PROVE  FileSpec => []ReadsOneVersion
<1>1. FileInv => ReadsOneVersion
  BY DEF FileInv
<1> QED
  BY <1>1, FileInvariance, PTL

\* With at most one writer a write_all that returns OK has just put its own
\* version at the target.
THEOREM WriterInstallsItsVersion ==
    ASSUME OneWriter
    PROVE  FileSpec => InstallsOwnVersion
<1> DEFINE Installs == \A w \in Writers : wret'[w] = "ok" /\ wpc[w] = "rename" /\ wpc'[w] = "idle"
                           => data'[dir'.path] = Whole(wv[w])
<1>1. FileInv /\ [FileNext]_fileVars => [Installs]_fileVars
  <2> SUFFICES ASSUME FileInv, FileNext, NEW w \in Writers,
                      wret'[w] = "ok", wpc[w] = "rename", wpc'[w] = "idle"
               PROVE  data'[dir'.path] = Whole(wv[w])
    BY Zenon
  <2>0. OneWriter /\ wpc \in [Writers -> {"idle", "rename", "remove"} \cup Open]
    BY Zenon DEF FileInv, FileTypes
  <2>1. WriteRename(w)
    <3>1. ~Crash
      BY Zenon DEF Crash
    <3>2. ~Writeback /\ \A r \in Readers : ~Read(r)
      BY Zenon DEF Writeback, Read, ReadOpen, ReadChunk, ReadTrim, writing
    <3>3. \A u \in Writers : Write(u) => u = w
      BY <2>0, Zenon DEF OneWriter
    <3> QED
      BY <3>1, <3>2, <3>3, Zenon DEF FileNext, Write, WriteOpen, WriteBlock, WriteSync, WriteClose,
                              WriteCloseFailed, WriteRemove, WriterAt
  <2>2. dir' = [path |-> dir.tmp, tmp |-> None] /\ data' = data
    BY <2>0, <2>1, Zenon DEF WriteRename, WriterFails, WriterGoes
  <2>3. data[dir.tmp] = Whole(wv[w])
    BY Zenon DEF FileInv, WriterInv, Progress
  <2> QED
    BY <2>2, <2>3, Zenon
<1> QED
  BY <1>1, FileInvariance, PTL DEF FileSpec, InstallsOwnVersion

-----------------------------------------------------------------------------
(* The error trail *)

\* The messages a frame may hold, cut to fit.
Texts == {Truncated(m) : m \in Messages \cup {NoMessage}}

\* The frames have their full size, and every frame in the trail and every
\* message still promised can be read from the stack.
ErrorInv ==
    /\ DOMAIN g_stack = 0..(MaxDepth - 1)
    /\ \A d \in 0..(MaxDepth - 1) : DOMAIN g_stack[d].message = 0..(MessageCap - 1)
    /\ trail \in Seq(Statuses \X Texts)
    /\ \A r \in readable : r.slot \in 0..(MaxDepth - 1)
    /\ TrailKept

\* What the copy loop leaves in a buffer reads as the message cut to fit.
LEMMA CopyReads ==
    ASSUME NEW old, DOMAIN old = 0..(MessageCap - 1), NEW m \in Messages \cup {NoMessage}
    PROVE  Reads(Copy(old, m), Truncated(m)) /\ DOMAIN Copy(old, m) = 0..(MessageCap - 1)
<1>1. PICK n \in Nat :
          n = IF m = NoMessage THEN 0
              ELSE IF Len(m) < MessageCap THEN Len(m) ELSE MessageCap - 1
  <2>1. m # NoMessage => Len(m) \in Nat
    BY ErrorContextAssumption, LenProperties
  <2> QED
    BY <2>1, ErrorContextAssumption
<1>2. n < MessageCap
  BY <1>1, ErrorContextAssumption
<1>3. Copy(old, m) = [i \in 0..(MessageCap - 1) |->
                         IF i < n THEN m[i + 1] ELSE IF i = n THEN MsgNul ELSE old[i]]
  BY <1>1, Zenon DEF Copy
<1>4. Len(Truncated(m)) = n /\ \A i \in 1..n : Truncated(m)[i] = m[i]
  <2>1. CASE m = NoMessage
    BY <1>1, <2>1 DEF Truncated
  <2>2. CASE m # NoMessage
    <3>1. PICK S : m \in Seq(S)
      BY <2>2, ErrorContextAssumption, Zenon
    <3>2. Len(m) \in Nat /\ n <= Len(m) /\ Truncated(m) = SubSeq(m, 1, n)
      BY <1>1, <2>2, <3>1, LenProperties, ErrorContextAssumption DEF Truncated
    <3>3. \A i \in 1..n : m[i] \in S
      BY <3>1, <3>2, ElementOfSeq
    <3> QED
      BY <3>1, <3>2, <3>3, SubSeqProperties
  <2> QED
    BY <2>1, <2>2, Zenon
<1>5. Copy(old, m)[n] = MsgNul /\ \A i \in 1..n : Copy(old, m)[i - 1] = m[i]
  <2>1. \A i \in 1..n : i - 1 \in 0..(MessageCap - 1) /\ i - 1 < n /\ (i - 1) + 1 = i
    BY <1>2, ErrorContextAssumption
  <2>2. n \in 0..(MessageCap - 1)
    BY <1>2, ErrorContextAssumption
  <2> QED
    BY <1>3, <2>1, <2>2
<1> QED
  BY <1>2, <1>3, <1>4, <1>5, Zenon DEF Reads

\* A push adds a frame that reads as pushed, and spoils only what was promised of
\* the frame it takes.
LEMMA PushKeeps ==
    ASSUME ErrorInv, NEW s \in Statuses, NEW m \in Messages \cup {NoMessage}, ErrorPush(s, m)
    PROVE  ErrorInv'
<1>1. CASE g_depth >= MaxDepth
  <2>1. UNCHANGED errorVars
    <3>1. g_depth \in Nat /\ MaxDepth \in Nat
      BY LenProperties, ErrorContextAssumption, Zenon DEF ErrorInv, TrailKept
    <3>2. ~(g_depth < MaxDepth)
      BY <1>1, <3>1
    <3> QED
      BY <3>2, Zenon DEF ErrorPush
  <2> QED
    BY <2>1, Zenon DEF ErrorInv, TrailKept, errorVars
<1>2. CASE g_depth < MaxDepth
  <2> DEFINE e == <<s, Truncated(m)>>
             f == [status |-> s, message |-> Copy(g_stack[g_depth].message, m)]
  <2>1. g_depth \in 0..(MaxDepth - 1) /\ g_depth = Len(trail)
    <3>1. g_depth \in Nat /\ MaxDepth \in Nat /\ g_depth = Len(trail)
      BY LenProperties, ErrorContextAssumption, Zenon DEF ErrorInv, TrailKept
    <3> QED
      BY <1>2, <3>1
  <2>2. /\ g_stack' = [g_stack EXCEPT ![g_depth] = f]
        /\ g_depth' = g_depth + 1 /\ trail' = Append(trail, e)
        /\ readable' = {r \in readable : r.slot # g_depth}
    BY <1>2, Zenon DEF ErrorPush
  <2>3. Reads(f.message, e[2]) /\ DOMAIN f.message = 0..(MessageCap - 1)
        /\ f.status = e[1] /\ e \in Statuses \X Texts
    <3>1. DOMAIN g_stack[g_depth].message = 0..(MessageCap - 1)
      BY <2>1, Zenon DEF ErrorInv
    <3> QED
      BY <3>1, CopyReads, Zenon DEF Texts
  <2> HIDE DEF e, f
  <2>4. /\ DOMAIN g_stack' = 0..(MaxDepth - 1) /\ g_stack'[g_depth] = f
        /\ \A d \in 0..(MaxDepth - 1) : d # g_depth => g_stack'[d] = g_stack[d]
    BY <2>1, <2>2, Zenon DEF ErrorInv
  <2>5. /\ trail' \in Seq(Statuses \X Texts) /\ Len(trail') = g_depth + 1
        /\ trail'[g_depth + 1] = e
        /\ \A i \in 1..g_depth : trail'[i] = trail[i]
    <3>1. trail \in Seq(Statuses \X Texts) /\ e \in Statuses \X Texts
      BY <2>3, Zenon DEF ErrorInv
    <3>2. /\ Append(trail, e) \in Seq(Statuses \X Texts) /\ Len(Append(trail, e)) = Len(trail) + 1
          /\ \A i \in 1..Len(trail) : Append(trail, e)[i] = trail[i]
          /\ Append(trail, e)[Len(trail) + 1] = e
      BY <3>1, AppendProperties
    <3> QED
      BY <2>1, <2>2, <3>2, Zenon
  <2>6. \A d \in 0..(MaxDepth - 1) : DOMAIN g_stack'[d].message = 0..(MessageCap - 1)
    BY <2>3, <2>4, Zenon DEF ErrorInv
  <2>7. ASSUME NEW d \in 0..(g_depth' - 1)
        PROVE  g_stack'[d].status = trail'[d + 1][1] /\ Reads(g_stack'[d].message, trail'[d + 1][2])
    <3>1. CASE d = g_depth
      BY <2>3, <2>4, <2>5, <3>1, Zenon
    <3>2. CASE d # g_depth
      <4>1. d \in 0..(g_depth - 1) /\ d \in 0..(MaxDepth - 1) /\ d + 1 \in 1..g_depth
        BY <2>1, <2>2, <2>7, <3>2, ErrorContextAssumption
      <4> QED
        BY <2>4, <2>5, <3>2, <4>1, Zenon DEF ErrorInv, TrailKept
    <3> QED
      BY <3>1, <3>2, Zenon
  <2>8. \A r \in readable' : r.slot \in 0..(MaxDepth - 1) /\ Reads(g_stack'[r.slot].message, r.message)
    BY <2>2, <2>4, Zenon DEF ErrorInv, TrailKept
  <2>9. g_depth' <= MaxDepth
    BY <2>1, <2>2, ErrorContextAssumption
  <2> QED
    BY <2>2, <2>4, <2>5, <2>6, <2>7, <2>8, <2>9, Zenon DEF ErrorInv, TrailKept, Reads
<1> QED
  <2>1. g_depth \in Nat /\ MaxDepth \in Nat
    BY LenProperties, ErrorContextAssumption, Zenon DEF ErrorInv, TrailKept
  <2>2. g_depth >= MaxDepth \/ g_depth < MaxDepth
    BY ONLY <2>1
  <2> QED
    BY <1>1, <1>2, <2>2, Zenon

\* A pop promises the message of the frame it drops.
LEMMA PopKeeps ==
    ASSUME ErrorInv, ErrorPop
    PROVE  ErrorInv'
<1>1. PICK L \in Nat \ {0} : L = Len(trail) /\ g_depth = L /\ L <= MaxDepth
  BY LenProperties, Zenon DEF ErrorInv, TrailKept, ErrorPop
<1>2. trail \in Seq(Statuses \X Texts)
  BY Zenon DEF ErrorInv
<1>3. /\ trail' \in Seq(Statuses \X Texts) /\ Len(trail') = L - 1
      /\ \A i \in 1..(L - 1) : trail'[i] = trail[i]
  <2>1. \A i \in 1..(L - 1) : trail[i] \in Statuses \X Texts
    BY <1>1, <1>2, ElementOfSeq
  <2>2. trail' = SubSeq(trail, 1, L - 1)
    BY <1>1, Zenon DEF ErrorPop
  <2> QED
    BY <1>1, <1>2, <2>1, <2>2, SubSeqProperties
<1>4. g_depth' = L - 1 /\ g_stack' = g_stack
  BY <1>1, Zenon DEF ErrorPop
<1>5. ASSUME NEW d \in 0..(L - 2)
      PROVE  g_stack[d].status = trail'[d + 1][1] /\ Reads(g_stack[d].message, trail'[d + 1][2])
  <2>1. d \in 0..(g_depth - 1) /\ d + 1 \in 1..(L - 1)
    BY <1>1
  <2> QED
    BY <1>3, <2>1 DEF ErrorInv, TrailKept
<1>6. ASSUME NEW r \in readable'
      PROVE  r.slot \in 0..(MaxDepth - 1) /\ Reads(g_stack[r.slot].message, r.message)
  <2>1. CASE r \in readable
    BY <2>1, Zenon DEF ErrorInv, TrailKept
  <2>2. CASE r = [slot |-> L - 1, message |-> trail[L][2]]
    <3>1. L - 1 \in 0..(g_depth - 1) /\ (L - 1) + 1 = L /\ L - 1 \in 0..(MaxDepth - 1)
      BY <1>1, ErrorContextAssumption
    <3> QED
      BY <2>2, <3>1, Zenon DEF ErrorInv, TrailKept
  <2> QED
    BY <1>1, <1>6, <2>1, <2>2, Zenon DEF ErrorPop
<1>7. L - 1 <= MaxDepth /\ (L - 1) - 1 = L - 2
  BY <1>1, ErrorContextAssumption
<1> QED
  <2>1. g_depth' = Len(trail') /\ g_depth' <= MaxDepth
    BY <1>3, <1>4, <1>7, Zenon
  <2>2. \A d \in 0..(g_depth' - 1) : /\ g_stack'[d].status = trail'[d + 1][1]
                                     /\ Reads(g_stack'[d].message, trail'[d + 1][2])
    BY <1>4, <1>5, <1>7, Zenon
  <2>3. \A r \in readable' : r.slot \in 0..(MaxDepth - 1) /\ Reads(g_stack'[r.slot].message, r.message)
    BY <1>4, <1>6, Zenon
  <2>4. TrailKept'
    BY <2>1, <2>2, <2>3, Zenon DEF TrailKept, Reads
  <2> QED
    BY <1>3, <1>4, <2>3, <2>4, Zenon DEF ErrorInv

\* The trail is kept: the frames are the earliest pushes, and the pointer that pop
\* hands out reads as it was pushed until a push at its depth or a clear.
THEOREM TrailIsKept == ErrorSpec => []TrailKept
<1>1. ErrorStart => ErrorInv
  BY ErrorContextAssumption DEF ErrorStart, ErrorInv, TrailKept
<1>2. ErrorInv /\ [ErrorNext]_errorVars => ErrorInv'
  <2> SUFFICES ASSUME ErrorInv, [ErrorNext]_errorVars PROVE ErrorInv'
    OBVIOUS
  <2>1. ASSUME NEW s \in Statuses, NEW m \in Messages \cup {NoMessage}, ErrorPush(s, m)
        PROVE  ErrorInv'
    BY <2>1, PushKeeps
  <2>2. CASE ErrorPop
    BY <2>2, PopKeeps
  <2>3. CASE ErrorClear
    BY <2>3, ErrorContextAssumption DEF ErrorClear, ErrorInv, TrailKept
  <2>4. CASE UNCHANGED errorVars
    BY <2>4, Zenon DEF ErrorInv, TrailKept, Reads, errorVars
  <2> QED
    BY <2>1, <2>2, <2>3, <2>4 DEF ErrorNext
<1>3. ErrorInv => TrailKept
  BY Zenon DEF ErrorInv
<1> QED
  BY <1>1, <1>2, <1>3, PTL DEF ErrorSpec

-----------------------------------------------------------------------------
(* The list *)

\* What is at place k of the circle.
Place(o, k) == IF k \in 1..Len(o) THEN o[k] ELSE Sentinel

Ends == Nodes \cup {Sentinel}

\* next leads along the places 0 to m + 1 of c, and prev back.
Circular(c, m, nx, pv) == \A k \in 0..m : nx[c[k]] = c[k + 1] /\ pv[c[k + 1]] = c[k]

OneToOne(c, a, b) == \A j, k \in a..b : c[j] = c[k] => j = k

\* d is c, which runs from a to b, with n inserted behind i.
Gained(c, d, a, b, i, n) ==
    /\ \A k \in a..i : d[k] = c[k]
    /\ d[i + 1] = n
    /\ \A k \in (i + 1)..b : d[k + 1] = c[k]

\* d is c, which runs from a to b, without what was at i.
Lost(c, d, a, b, i) ==
    /\ \A k \in a..(i - 1) : d[k] = c[k]
    /\ \A k \in i..(b - 1) : d[k] = c[k + 1]

\* Each of the first l of o is among the first m of q.
Covers(q, m, o, l) == \A k \in 1..l : \E j \in 1..m : q[j] = o[k]

CoversBut(q, m, o, l, i) == \A k \in 1..l : k # i => \E j \in 1..m : q[j] = o[k]

ListInv ==
    /\ next \in [Ends -> Ends \cup {NoNode}] /\ prev \in [Ends -> Ends \cup {NoNode}]
    /\ order \in Seq(Nodes) /\ listLen = Len(order)
    /\ OneToOne(order, 1, Len(order))
    /\ \A k \in 0..Len(order) : /\ next[Place(order, k)] = Place(order, k + 1)
                                /\ prev[Place(order, k + 1)] = Place(order, k)
    /\ \A n \in Nodes \ Range(order) : prev[n] = NoNode /\ next[n] = NoNode

\* n is linked in between the places i and i + 1 of c.
Splice(c, m, i, n, nx, pv, nx2, pv2) ==
    /\ nx2[n] = c[i + 1] /\ nx2[c[i]] = n
    /\ pv2[n] = c[i] /\ pv2[c[i + 1]] = n
    /\ \A k \in 0..m : k # i => nx2[c[k]] = nx[c[k]]
    /\ \A k \in 1..(m + 1) : k # i + 1 => pv2[c[k]] = pv[c[k]]

\* The links lead around the place i of c.
Bypass(c, m, i, nx, pv, nx2, pv2) ==
    /\ nx2[c[i - 1]] = c[i + 1] /\ pv2[c[i + 1]] = c[i - 1]
    /\ \A k \in 0..m : k # i - 1 /\ k # i => nx2[c[k]] = nx[c[k]]
    /\ \A k \in 1..(m + 1) : k # i /\ k # i + 1 => pv2[c[k]] = pv[c[k]]

\* link_between, between places i and i + 1, makes the circle with n there.
LEMMA Spliced ==
    ASSUME NEW L \in Nat, NEW i \in 0..L, NEW c, NEW d, NEW n, NEW nx, NEW pv, NEW nx2, NEW pv2,
           Circular(c, L, nx, pv), Gained(c, d, 0, L + 1, i, n),
           Splice(c, L, i, n, nx, pv, nx2, pv2)
    PROVE  Circular(d, L + 1, nx2, pv2)
<1> SUFFICES ASSUME NEW k \in 0..(L + 1)
             PROVE  nx2[d[k]] = d[k + 1] /\ pv2[d[k + 1]] = d[k]
  BY Zenon DEF Circular
<1> USE DEF Circular, Gained, Splice
<1>1. CASE k < i
  <2>1. k \in 0..L /\ k # i /\ k \in 0..i /\ k + 1 \in 0..i /\ k + 1 \in 1..(L + 1) /\ k + 1 # i + 1
    BY <1>1
  <2>2. d[k] = c[k] /\ d[k + 1] = c[k + 1]
    BY <2>1, Zenon
  <2>3. nx2[c[k]] = nx[c[k]] /\ pv2[c[k + 1]] = pv[c[k + 1]]
    BY <2>1, Zenon
  <2>4. nx[c[k]] = c[k + 1] /\ pv[c[k + 1]] = c[k]
    BY <2>1, Zenon
  <2> QED
    BY <2>2, <2>3, <2>4, Zenon
<1>2. CASE k = i
  <2>1. i \in 0..i
    OBVIOUS
  <2> QED
    BY <1>2, <2>1, Zenon
<1>3. CASE k = i + 1
  <2>1. i + 1 \in (i + 1)..(L + 1)
    OBVIOUS
  <2>2. d[(i + 1) + 1] = c[i + 1]
    BY <2>1, Zenon
  <2> QED
    BY <1>3, <2>2, Zenon
<1>4. CASE k > i + 1
  <2>1. PICK j \in (i + 1)..L : k = j + 1
    <3>1. k - 1 \in (i + 1)..L /\ k = (k - 1) + 1
      BY <1>4
    <3> QED
      BY <3>1, Zenon
  <2>2. /\ j \in (i + 1)..(L + 1) /\ j + 1 \in (i + 1)..(L + 1) /\ j \in 0..L /\ j # i
        /\ j + 1 \in 1..(L + 1) /\ j + 1 # i + 1
    BY <2>1
  <2>3. d[k] = c[j] /\ d[k + 1] = c[j + 1]
    BY <2>1, <2>2, Zenon
  <2>4. nx2[c[j]] = nx[c[j]] /\ pv2[c[j + 1]] = pv[c[j + 1]]
    BY <2>2, Zenon
  <2>5. nx[c[j]] = c[j + 1] /\ pv[c[j + 1]] = c[j]
    BY <2>2, Zenon
  <2> QED
    BY <2>3, <2>4, <2>5, Zenon
<1> QED
  BY <1>1, <1>2, <1>3, <1>4

\* unlink of the node at place i makes the circle without it.
LEMMA Bypassed ==
    ASSUME NEW L \in Nat, NEW i \in 1..L, NEW c, NEW d, NEW nx, NEW pv, NEW nx2, NEW pv2,
           Circular(c, L, nx, pv), Lost(c, d, 0, L + 1, i),
           Bypass(c, L, i, nx, pv, nx2, pv2)
    PROVE  Circular(d, L - 1, nx2, pv2)
<1> SUFFICES ASSUME NEW k \in 0..(L - 1)
             PROVE  nx2[d[k]] = d[k + 1] /\ pv2[d[k + 1]] = d[k]
  BY Zenon DEF Circular
<1>0. \A j \in i..L : d[j] = c[j + 1]
  BY DEF Lost
<1> USE DEF Circular, Lost, Bypass
<1>1. CASE k < i - 1
  <2>1. /\ k \in 0..L /\ k # i - 1 /\ k # i /\ k \in 0..(i - 1) /\ k + 1 \in 0..(i - 1)
        /\ k + 1 \in 1..(L + 1) /\ k + 1 # i /\ k + 1 # i + 1
    BY <1>1
  <2>2. d[k] = c[k] /\ d[k + 1] = c[k + 1]
    BY <2>1, Zenon
  <2>3. nx2[c[k]] = nx[c[k]] /\ pv2[c[k + 1]] = pv[c[k + 1]]
    BY <2>1, Zenon
  <2>4. nx[c[k]] = c[k + 1] /\ pv[c[k + 1]] = c[k]
    BY <2>1, Zenon
  <2> QED
    BY <2>2, <2>3, <2>4, Zenon
<1>2. CASE k = i - 1
  <2>1. i - 1 \in 0..(i - 1) /\ (i - 1) + 1 = i /\ i \in i..L
    OBVIOUS
  <2>2. d[k] = c[i - 1] /\ d[k + 1] = c[i + 1]
    BY <1>0, <1>2, <2>1, Zenon
  <2> QED
    BY <2>2, Zenon
<1>3. CASE k > i - 1
  <2>1. /\ k \in i..L /\ k + 1 \in i..L /\ k + 1 \in 0..L /\ k + 1 # i - 1 /\ k + 1 # i
        /\ (k + 1) + 1 \in 1..(L + 1) /\ (k + 1) + 1 # i /\ (k + 1) + 1 # i + 1
    BY <1>3
  <2>2. d[k] = c[k + 1] /\ d[k + 1] = c[(k + 1) + 1]
    BY <1>0, <2>1, Zenon
  <2> QED
    BY <2>1, <2>2, Zenon
<1> QED
  BY <1>1, <1>2, <1>3

\* The places of the circle, as an array.
LEMMA Circle ==
    ASSUME ListInv, NEW L, L = Len(order), NEW c, c = [k \in 0..(L + 1) |-> Place(order, k)]
    PROVE  /\ L \in Nat /\ order \in [1..L -> Nodes]
           /\ c[0] = Sentinel /\ c[L + 1] = Sentinel
           /\ \A k \in 1..L : c[k] = order[k] /\ c[k] \in Nodes
           /\ \A k \in 0..(L + 1) : c[k] \in Ends /\ c[k] = Place(order, k)
           /\ OneToOne(c, 0, L) /\ OneToOne(c, 1, L + 1)
           /\ Circular(c, L, next, prev)
<1>1. L \in Nat /\ order \in [1..L -> Nodes]
  BY LenProperties, Zenon DEF ListInv
<1>2. 0 \in 0..(L + 1) /\ L + 1 \in 0..(L + 1) /\ 0 \notin 1..L /\ L + 1 \notin 1..L
  BY <1>1
<1>3. \A k \in 0..(L + 1) : c[k] = Place(order, k)
  BY Zenon
<1>4. c[0] = Sentinel /\ c[L + 1] = Sentinel
  BY <1>2, <1>3, Zenon DEF Place
<1>5. \A k \in 1..L : c[k] = order[k] /\ c[k] \in Nodes
  <2>1. \A k \in 1..L : k \in 0..(L + 1)
    BY <1>1
  <2> QED
    BY <1>1, <1>3, <2>1, Zenon DEF Place
<1>6. Sentinel \notin Nodes
  BY LinkedListAssumption, Zenon
<1>7. \A j, k \in 1..L : c[j] = c[k] => j = k
  <2> SUFFICES ASSUME NEW j \in 1..L, NEW k \in 1..L, c[j] = c[k] PROVE j = k
    BY Zenon
  <2>1. order[j] = order[k]
    BY <1>5
  <2> QED
    BY <2>1, Zenon DEF ListInv, OneToOne
<1>8. \A k \in 0..L : k = 0 \/ k \in 1..L
  BY <1>1
<1>9. \A k \in 1..(L + 1) : k = L + 1 \/ k \in 1..L
  BY <1>1
<1>10. \A j, k \in 0..L : c[j] = c[k] => j = k
  <2>1. \A k \in 1..L : c[k] # c[0]
    BY <1>4, <1>5, <1>6, Zenon
  <2> QED
    BY <1>7, <1>8, <2>1, Zenon
<1>11. \A j, k \in 1..(L + 1) : c[j] = c[k] => j = k
  <2>1. \A k \in 1..L : c[k] # c[L + 1]
    BY <1>4, <1>5, <1>6, Zenon
  <2> QED
    BY <1>7, <1>9, <2>1, Zenon
<1>12. \A k \in 0..(L + 1) : c[k] \in Ends
  <2>1. \A k \in 0..(L + 1) : k \in 1..L \/ k = 0 \/ k = L + 1
    BY <1>1
  <2> QED
    BY <1>4, <1>5, <2>1, Zenon DEF Ends
<1>13. \A k \in 0..L : next[c[k]] = c[k + 1] /\ prev[c[k + 1]] = c[k]
  <2>1. \A k \in 0..L : k \in 0..(L + 1) /\ k + 1 \in 0..(L + 1)
    BY <1>1
  <2> QED
    BY <1>3, <2>1, Zenon DEF ListInv
<1> QED
  BY <1>1, <1>3, <1>4, <1>5, <1>10, <1>11, <1>12, <1>13, Zenon DEF OneToOne, Circular

\* Where an element goes when n is inserted behind the place i.
LEMMA InsertedSeq ==
    ASSUME NEW L \in Nat, NEW i \in 0..L, NEW o, NEW q, NEW n,
           \A k \in 1..L : o[k] # n,
           OneToOne(o, 1, L), Gained(o, q, 1, L, i, n)
    PROVE  /\ OneToOne(q, 1, L + 1)
           /\ Covers(q, L + 1, o, L)
           /\ \E j \in 1..(L + 1) : q[j] = n
<1> USE DEF OneToOne, Gained, Covers
<1>1. ASSUME NEW j \in 1..(L + 1)
      PROVE  \/ j \in 1..i /\ j \in 1..L /\ q[j] = o[j]
             \/ j = i + 1 /\ q[j] = n
             \/ j > i + 1 /\ j - 1 \in 1..L /\ q[j] = o[j - 1]
  <2>1. CASE j > i + 1
    <3>1. j - 1 \in (i + 1)..L /\ (j - 1) + 1 = j /\ j - 1 \in 1..L
      BY <2>1
    <3>2. q[(j - 1) + 1] = o[j - 1]
      BY <3>1, Zenon
    <3> QED
      BY <2>1, <3>1, <3>2, Zenon
  <2>2. CASE j = i + 1
    BY <2>2, Zenon
  <2>3. CASE j < i + 1
    <3>1. j \in 1..i /\ j \in 1..L
      BY <2>3
    <3> QED
      BY <3>1, Zenon
  <2> QED
    BY <2>1, <2>2, <2>3
<1>2. \A j, k \in 1..(L + 1) : q[j] = q[k] => j = k
  <2> SUFFICES ASSUME NEW j \in 1..(L + 1), NEW k \in 1..(L + 1), q[j] = q[k] PROVE j = k
    BY Zenon
  <2> QED
    BY <1>1
<1>3. ASSUME NEW k \in 1..L PROVE \E j \in 1..(L + 1) : q[j] = o[k]
  <2>1. CASE k \in 1..i
    <3>1. k \in 1..(L + 1)
      OBVIOUS
    <3> QED
      BY <2>1, <3>1, Zenon
  <2>2. CASE k \notin 1..i
    <3>1. k \in (i + 1)..L /\ k + 1 \in 1..(L + 1)
      BY <2>2
    <3> QED
      BY <3>1, Zenon
  <2> QED
    BY <2>1, <2>2
<1>4. i + 1 \in 1..(L + 1)
  OBVIOUS
<1> QED
  BY <1>2, <1>3, <1>4, Zenon

\* What remains when the element at the place i is removed.
LEMMA RemovedSeq ==
    ASSUME NEW L \in Nat, NEW i \in 1..L, NEW o, NEW q,
           OneToOne(o, 1, L), Lost(o, q, 1, L, i)
    PROVE  /\ OneToOne(q, 1, L - 1)
           /\ CoversBut(q, L - 1, o, L, i)
<1> USE DEF OneToOne, Lost, CoversBut
<1>1. ASSUME NEW j \in 1..(L - 1)
      PROVE  \/ j < i /\ j \in 1..L /\ q[j] = o[j]
             \/ j >= i /\ j + 1 \in 1..L /\ q[j] = o[j + 1]
  <2>1. j < i => j \in 1..(i - 1) /\ j \in 1..L
    OBVIOUS
  <2>2. j >= i => j \in i..(L - 1) /\ j + 1 \in 1..L
    OBVIOUS
  <2>3. j < i \/ j >= i
    OBVIOUS
  <2> QED
    BY <2>1, <2>2, <2>3, Zenon
<1>2. \A j, k \in 1..(L - 1) : q[j] = q[k] => j = k
  <2> SUFFICES ASSUME NEW j \in 1..(L - 1), NEW k \in 1..(L - 1), q[j] = q[k] PROVE j = k
    BY Zenon
  <2> QED
    BY <1>1
<1>3. ASSUME NEW k \in 1..L, k # i PROVE \E j \in 1..(L - 1) : q[j] = o[k]
  <2>1. CASE k < i
    <3>1. k \in 1..(i - 1) /\ k \in 1..(L - 1)
      BY <2>1
    <3> QED
      BY <3>1, Zenon
  <2>2. CASE k > i
    <3>1. k - 1 \in i..(L - 1) /\ k - 1 \in 1..(L - 1) /\ (k - 1) + 1 = k
      BY <2>2
    <3>2. q[k - 1] = o[(k - 1) + 1]
      BY <3>1, Zenon
    <3> QED
      BY <3>1, <3>2, Zenon
  <2> QED
    BY <1>3, <2>1, <2>2
<1> QED
  BY <1>2, <1>3, Zenon

\* Linking a node between two neighbours keeps the circle.
LEMMA Inserted ==
    ASSUME ListInv, NEW n \in Nodes, n \notin Range(order), NEW i \in 0..Len(order),
           order' \in Seq(Nodes), Len(order') = Len(order) + 1,
           Gained(order, order', 1, Len(order), i, n),
           LinkBetween(n, Place(order, i), Place(order, i + 1))
    PROVE  ListInv'
<1>1. PICK L, c : L = Len(order) /\ c = [k \in 0..(L + 1) |-> Place(order, k)]
  BY Zenon
<1>2. /\ L \in Nat /\ order \in [1..L -> Nodes]
      /\ c[0] = Sentinel /\ c[L + 1] = Sentinel
      /\ \A k \in 1..L : c[k] = order[k] /\ c[k] \in Nodes
      /\ \A k \in 0..(L + 1) : c[k] \in Ends /\ c[k] = Place(order, k)
      /\ OneToOne(c, 0, L) /\ OneToOne(c, 1, L + 1)
      /\ Circular(c, L, next, prev)
  BY <1>1, Circle
<1>3. /\ i \in 0..L /\ i \in 0..(L + 1) /\ i + 1 \in 0..(L + 1) /\ i + 1 \in 1..(L + 1)
      /\ \A k \in 0..L : k \in 0..(L + 1)
      /\ \A k \in 1..(L + 1) : k \in 0..(L + 1)
  BY <1>1, <1>2
<1>4. \A k \in 1..L : order[k] # n /\ order[k] \in Range(order)
  <2>1. \A k \in 1..L : order[k] \in Range(order)
    BY <1>2, Zenon DEF Range
  <2> QED
    BY <2>1, Zenon
<1>50. \A k \in 0..(L + 1) : (k \in 1..L /\ c[k] = order[k]) \/ c[k] = Sentinel
  <2>1. \A k \in 0..(L + 1) : k \in 1..L \/ k = 0 \/ k = L + 1
    BY <1>2
  <2> QED
    BY <1>2, <2>1, Zenon
<1>5. \A k \in 0..(L + 1) : c[k] # n
  <2>1. n # Sentinel
    BY LinkedListAssumption, Zenon
  <2> QED
    BY <1>4, <1>50, <2>1, Zenon
<1>6. /\ next' = [next EXCEPT ![n] = c[i + 1], ![c[i]] = n]
      /\ prev' = [prev EXCEPT ![n] = c[i], ![c[i + 1]] = n]
      /\ listLen' = listLen + 1
  BY <1>2, <1>3, Zenon DEF LinkBetween
<1>7. /\ next \in [Ends -> Ends \cup {NoNode}] /\ prev \in [Ends -> Ends \cup {NoNode}]
      /\ n \in Ends /\ c[i] \in Ends /\ c[i + 1] \in Ends
      /\ n # c[i] /\ n # c[i + 1]
  BY <1>2, <1>3, <1>5, Zenon DEF ListInv, Ends
<1>8. /\ next' \in [Ends -> Ends \cup {NoNode}] /\ next'[n] = c[i + 1] /\ next'[c[i]] = n
      /\ \A e \in Ends : e # n /\ e # c[i] => next'[e] = next[e]
  BY <1>6, <1>7, Zenon
<1>9. /\ prev' \in [Ends -> Ends \cup {NoNode}] /\ prev'[n] = c[i] /\ prev'[c[i + 1]] = n
      /\ \A e \in Ends : e # n /\ e # c[i + 1] => prev'[e] = prev[e]
  BY <1>6, <1>7, Zenon
<1>10. PICK d : d = [k \in 0..(L + 2) |-> Place(order, k)']
  BY Zenon
<1>11. Gained(c, d, 0, L + 1, i, n)
  <2>1. /\ \A k \in 0..i : k \in 0..(L + 2) /\ k \in 0..(L + 1)
        /\ \A k \in 0..i : k # 0 => k \in 1..(L + 1) /\ k \in 1..i /\ k \in 1..L
        /\ 0 \notin 1..(L + 1) /\ i + 1 \in 0..(L + 2) /\ i + 1 \in 1..(L + 1)
        /\ \A k \in (i + 1)..(L + 1) : k + 1 \in 0..(L + 2)
        /\ \A k \in (i + 1)..(L + 1) :
             k # L + 1 => k + 1 \in 1..(L + 1) /\ k \in (i + 1)..L /\ k \in 1..L
        /\ (L + 1) + 1 \notin 1..(L + 1) /\ L + 1 \in 0..(L + 1)
    BY <1>2, <1>3
  <2>2. \A k \in 0..(L + 2) : d[k] = IF k \in 1..(L + 1) THEN order'[k] ELSE Sentinel
    BY <1>1, <1>10, Zenon DEF Place
  <2> USE DEF Gained
  <2>3. ASSUME NEW k \in 0..i PROVE d[k] = c[k]
    <3>1. CASE k = 0
      BY <1>2, <2>1, <2>2, <3>1, Zenon
    <3>2. CASE k # 0
      BY <1>2, <2>1, <2>2, <3>2, Zenon
    <3> QED
      BY <3>1, <3>2, Zenon
  <2>4. d[i + 1] = n
    BY <2>1, <2>2, Zenon
  <2>5. ASSUME NEW k \in (i + 1)..(L + 1) PROVE d[k + 1] = c[k]
    <3>1. CASE k = L + 1
      BY <1>2, <2>1, <2>2, <3>1, Zenon
    <3>2. CASE k # L + 1
      <4>1. d[k + 1] = order'[k + 1] /\ order'[k + 1] = order[k] /\ c[k] = order[k]
        BY <1>1, <1>2, <2>1, <2>2, <3>2, Zenon
      <4> QED
        BY <4>1, Zenon
    <3> QED
      BY <3>1, <3>2, Zenon
  <2> QED
    BY <2>3, <2>4, <2>5, Zenon
<1>12. Circular(d, L + 1, next', prev')
  <2>1. /\ \A k \in 0..L : k # i => next'[c[k]] = next[c[k]]
        /\ \A k \in 1..(L + 1) : k # i + 1 => prev'[c[k]] = prev[c[k]]
    BY <1>2, <1>3, <1>5, <1>8, <1>9, Zenon DEF OneToOne
  <2>2. Splice(c, L, i, n, next, prev, next', prev')
    BY <1>8, <1>9, <2>1, Zenon DEF Splice
  <2> QED
    BY <1>2, <1>3, <1>11, <2>2, Spliced, Zenon
<1>13. /\ OneToOne(order', 1, L + 1)
       /\ \A k \in 1..L : \E j \in 1..(L + 1) : order'[j] = order[k]
       /\ \E j \in 1..(L + 1) : order'[j] = n
  <2>1. OneToOne(order, 1, L) /\ Gained(order, order', 1, L, i, n)
    BY <1>1, Zenon DEF ListInv
  <2>2. \A k \in 1..L : order[k] # n
    BY <1>4, Zenon
  <2>3. PICK q : q = order'
    BY Zenon
  <2>4. OneToOne(order, 1, L) /\ Gained(order, q, 1, L, i, n)
    BY <2>1, <2>3, Zenon
  <2>5. OneToOne(q, 1, L + 1)
    BY ONLY <1>2, <1>3, <2>4, <2>2, InsertedSeq, Zenon
  <2>6. Covers(q, L + 1, order, L)
    BY ONLY <1>2, <1>3, <2>4, <2>2, InsertedSeq, Zenon
  <2>7. q[i + 1] = n
    BY <2>4, Zenon DEF Gained
  <2> QED
    BY <1>3, <2>3, <2>5, <2>6, <2>7, Zenon DEF Covers
<1>14. ASSUME NEW m \in Nodes \ Range(order)' PROVE prev'[m] = NoNode /\ next'[m] = NoNode
  <2>1. DOMAIN order = 1..L /\ DOMAIN order' = 1..(L + 1)
    BY <1>1, <1>2, LenProperties
  <2>20. /\ \A j \in 1..(L + 1) : order'[j] # m
         /\ \A r \in Range(order) : \E k \in 1..L : r = order[k]
    BY <2>1, Zenon DEF Range
  <2>2. m \notin Range(order) /\ m # n
    <3>1. \A k \in 1..L : order[k] # m
      BY <1>13, <2>20, Zenon
    <3> QED
      BY <1>13, <2>20, <3>1, Zenon
  <2>3. m # c[i] /\ m # c[i + 1]
    <3>1. m # Sentinel
      BY LinkedListAssumption, Zenon
    <3>2. \A k \in 0..(L + 1) : c[k] # m
      BY <1>4, <1>50, <2>2, <3>1, Zenon
    <3> QED
      BY <1>3, <3>2, Zenon
  <2>4. m \in Ends /\ prev[m] = NoNode /\ next[m] = NoNode
    BY <2>2, Zenon DEF Ends, ListInv
  <2> QED
    BY <1>8, <1>9, <2>2, <2>3, <2>4, Zenon
<1>15. \A k \in 0..Len(order') : /\ next'[Place(order, k)'] = Place(order, k + 1)'
                                 /\ prev'[Place(order, k + 1)'] = Place(order, k)'
  <2>1. \A k \in 0..(L + 1) : k \in 0..(L + 2) /\ k + 1 \in 0..(L + 2)
    BY <1>2
  <2> QED
    BY <1>1, <1>10, <1>12, <2>1, Zenon DEF Circular
<1>16. listLen' = Len(order')
  BY <1>6, Zenon DEF ListInv
<1> QED
  BY <1>1, <1>8, <1>9, <1>13, <1>14, <1>15, <1>16, Zenon DEF ListInv, Place, OneToOne

\* Taking the node at place i out, wherever that is, keeps the circle.
LEMMA Removed ==
    ASSUME ListInv, NEW i \in 1..Len(order),
           order' \in Seq(Nodes), Len(order') = Len(order) - 1,
           Lost(order, order', 1, Len(order), i), Unlink(order[i])
    PROVE  ListInv'
<1>1. PICK L, c : L = Len(order) /\ c = [k \in 0..(L + 1) |-> Place(order, k)]
  BY Zenon
<1>2. /\ L \in Nat /\ order \in [1..L -> Nodes]
      /\ c[0] = Sentinel /\ c[L + 1] = Sentinel
      /\ \A k \in 1..L : c[k] = order[k] /\ c[k] \in Nodes
      /\ \A k \in 0..(L + 1) : c[k] \in Ends /\ c[k] = Place(order, k)
      /\ OneToOne(c, 0, L) /\ OneToOne(c, 1, L + 1)
      /\ Circular(c, L, next, prev)
  BY <1>1, Circle
<1>3. /\ i \in 1..L /\ i \in 0..L /\ i \in 1..(L + 1) /\ i \in 0..(L + 1)
      /\ i - 1 \in 0..L /\ i - 1 \in 0..(L + 1) /\ (i - 1) + 1 = i /\ i - 1 # i
      /\ i + 1 \in 1..(L + 1) /\ i + 1 \in 0..(L + 1) /\ i + 1 # i
      /\ \A k \in 0..L : k \in 0..(L + 1)
      /\ \A k \in 1..(L + 1) : k \in 0..(L + 1)
  BY <1>1, <1>2
<1>4. \A k \in 1..L : order[k] \in Range(order)
  BY <1>2, Zenon DEF Range
<1>5. /\ prev[c[i]] = c[i - 1] /\ next[c[i]] = c[i + 1]
      /\ c[i - 1] # c[i] /\ c[i + 1] # c[i] /\ c[i] = order[i]
  <2>1. prev[c[(i - 1) + 1]] = c[i - 1] /\ next[c[i]] = c[i + 1]
    BY <1>2, <1>3, Zenon DEF Circular
  <2>2. c[i - 1] # c[i] /\ c[i + 1] # c[i]
    BY <1>2, <1>3, Zenon DEF OneToOne
  <2> QED
    BY <1>2, <1>3, <2>1, <2>2, Zenon
<1>6. /\ next' = [next EXCEPT ![c[i - 1]] = c[i + 1], ![c[i]] = NoNode]
      /\ prev' = [prev EXCEPT ![c[i + 1]] = c[i - 1], ![c[i]] = NoNode]
      /\ listLen' = listLen - 1
  BY <1>5, Zenon DEF Unlink
<1>7. /\ next \in [Ends -> Ends \cup {NoNode}] /\ prev \in [Ends -> Ends \cup {NoNode}]
      /\ c[i - 1] \in Ends /\ c[i] \in Ends /\ c[i + 1] \in Ends
  BY <1>2, <1>3, Zenon DEF ListInv
<1>8. /\ next' \in [Ends -> Ends \cup {NoNode}]
      /\ next'[c[i - 1]] = c[i + 1] /\ next'[c[i]] = NoNode
      /\ \A e \in Ends : e # c[i] /\ e # c[i - 1] => next'[e] = next[e]
  BY <1>5, <1>6, <1>7, Zenon
<1>9. /\ prev' \in [Ends -> Ends \cup {NoNode}]
      /\ prev'[c[i + 1]] = c[i - 1] /\ prev'[c[i]] = NoNode
      /\ \A e \in Ends : e # c[i] /\ e # c[i + 1] => prev'[e] = prev[e]
  BY <1>5, <1>6, <1>7, Zenon
<1>10. PICK d : d = [k \in 0..L |-> Place(order, k)']
  BY Zenon
<1>11. Lost(c, d, 0, L + 1, i)
  <2>1. /\ \A k \in 0..(i - 1) : k \in 0..L
        /\ \A k \in 0..(i - 1) : k # 0 => k \in 1..(L - 1) /\ k \in 1..(i - 1) /\ k \in 1..L
        /\ 0 \notin 1..(L - 1) /\ L \notin 1..(L - 1)
        /\ \A k \in i..L : k \in 0..L
        /\ \A k \in i..L : k # L => k \in 1..(L - 1) /\ k \in i..(L - 1) /\ k + 1 \in 1..L
        /\ (L + 1) - 1 = L
    BY <1>2, <1>3
  <2>2. \A k \in 0..L : d[k] = IF k \in 1..(L - 1) THEN order'[k] ELSE Sentinel
    BY <1>1, <1>10, Zenon DEF Place
  <2>3. /\ \A k \in 1..(i - 1) : order'[k] = order[k]
        /\ \A k \in i..(L - 1) : order'[k] = order[k + 1]
    BY <1>1, Zenon DEF Lost
  <2>4. ASSUME NEW k \in 0..(i - 1) PROVE d[k] = c[k]
    <3>1. CASE k = 0
      BY <1>2, <2>1, <2>2, <3>1, Zenon
    <3>2. CASE k # 0
      BY <1>2, <2>1, <2>2, <2>3, <3>2, Zenon
    <3> QED
      BY <3>1, <3>2, Zenon
  <2>5. ASSUME NEW k \in i..L PROVE d[k] = c[k + 1]
    <3>1. CASE k = L
      BY <1>2, <2>1, <2>2, <3>1, Zenon
    <3>2. CASE k # L
      <4>1. d[k] = order'[k] /\ order'[k] = order[k + 1] /\ c[k + 1] = order[k + 1]
        BY <1>2, <2>1, <2>2, <2>3, <3>2, Zenon
      <4> QED
        BY <4>1, Zenon
    <3> QED
      BY <3>1, <3>2, Zenon
  <2> QED
    BY <2>1, <2>4, <2>5, Zenon DEF Lost
<1>12. Circular(d, L - 1, next', prev')
  <2>1. /\ \A k \in 0..L : k # i - 1 /\ k # i => c[k] # c[i - 1] /\ c[k] # c[i]
        /\ \A k \in 1..(L + 1) : k # i /\ k # i + 1 => c[k] # c[i + 1] /\ c[k] # c[i]
    BY <1>2, <1>3, Zenon DEF OneToOne
  <2>2. Bypass(c, L, i, next, prev, next', prev')
    BY <1>2, <1>3, <1>8, <1>9, <2>1, Zenon DEF Bypass
  <2> QED
    BY <1>2, <1>3, <1>11, <2>2, Bypassed, Zenon
<1>13. /\ OneToOne(order', 1, L - 1)
       /\ \A k \in 1..L : k # i => \E j \in 1..(L - 1) : order'[j] = order[k]
  <2>1. PICK q : q = order'
    BY Zenon
  <2>2. OneToOne(order, 1, L) /\ Lost(order, q, 1, L, i)
    BY <1>1, <2>1, Zenon DEF ListInv
  <2>3. OneToOne(q, 1, L - 1) /\ CoversBut(q, L - 1, order, L, i)
    BY ONLY <1>2, <1>3, <2>2, RemovedSeq, Zenon
  <2> QED
    BY <2>1, <2>3, Zenon DEF CoversBut
<1>14. ASSUME NEW m \in Nodes \ Range(order)' PROVE prev'[m] = NoNode /\ next'[m] = NoNode
  <2>1. DOMAIN order = 1..L /\ DOMAIN order' = 1..(L - 1)
    BY <1>1, <1>2, LenProperties
  <2>2. /\ \A j \in 1..(L - 1) : order'[j] # m
        /\ \A r \in Range(order) : \E k \in 1..L : r = order[k]
    BY <2>1, Zenon DEF Range
  <2>3. \A k \in 1..L : k # i => order[k] # m
    BY <1>13, <2>2, Zenon
  <2>4. CASE m = c[i]
    BY <1>8, <1>9, <2>4, Zenon
  <2>5. CASE m # c[i]
    <3>1. \A k \in 1..L : order[k] # m
      BY <1>5, <2>3, <2>5, Zenon
    <3>2. m \notin Range(order)
      BY <2>2, <3>1, Zenon
    <3>3. m \in Ends /\ prev[m] = NoNode /\ next[m] = NoNode
      BY <3>2, Zenon DEF Ends, ListInv
    <3>4. \A k \in 0..(L + 1) : k \in 1..L \/ k = 0 \/ k = L + 1
      BY <1>2
    <3>5. m # Sentinel
      BY LinkedListAssumption, Zenon
    <3>6. \A k \in 0..(L + 1) : c[k] # m
      BY <1>2, <3>1, <3>4, <3>5, Zenon
    <3> QED
      BY <1>3, <1>8, <1>9, <3>3, <3>6, Zenon
  <2> QED
    BY <2>4, <2>5, Zenon
<1>15. \A k \in 0..Len(order') : /\ next'[Place(order, k)'] = Place(order, k + 1)'
                                 /\ prev'[Place(order, k + 1)'] = Place(order, k)'
  <2>1. \A k \in 0..(L - 1) : k \in 0..L /\ k + 1 \in 0..L
    BY <1>2
  <2> QED
    BY <1>1, <1>10, <1>12, <2>1, Zenon DEF Circular
<1>16. listLen' = Len(order')
  BY <1>6, Zenon DEF ListInv
<1> QED
  BY <1>1, <1>8, <1>9, <1>13, <1>14, <1>15, <1>16, Zenon DEF ListInv, Place, OneToOne

\* What the callers' view of the list becomes.
LEMMA Prepended ==
    ASSUME NEW S, NEW o \in Seq(S), NEW n \in S, NEW q, q = <<n>> \o o
    PROVE  q \in Seq(S) /\ Len(q) = Len(o) + 1 /\ Gained(o, q, 1, Len(o), 0, n)
<1>1. <<n>> \in Seq(S) /\ Len(<<n>>) = 1 /\ <<n>>[1] = n /\ Len(o) \in Nat
  OBVIOUS
<1>2. /\ q \in Seq(S) /\ Len(q) = 1 + Len(o)
      /\ \A k \in 1..(1 + Len(o)) : q[k] = IF k <= 1 THEN <<n>>[k] ELSE o[k - 1]
  BY <1>1, ConcatProperties
<1>3. q[1] = n
  BY <1>1, <1>2
<1>4. ASSUME NEW k \in 1..Len(o) PROVE q[k + 1] = o[k]
  <2>1. k + 1 \in 1..(1 + Len(o)) /\ ~(k + 1 <= 1) /\ (k + 1) - 1 = k
    BY <1>1
  <2> QED
    BY <1>2, <2>1, Zenon
<1>5. \A k \in 1..0 : q[k] = o[k]
  OBVIOUS
<1>6. 0 + 1 = 1 /\ Len(q) = Len(o) + 1
  BY <1>1, <1>2
<1> QED
  BY <1>2, <1>3, <1>4, <1>5, <1>6, Zenon DEF Gained

\* push_back's order.
LEMMA Appended ==
    ASSUME NEW S, NEW o \in Seq(S), NEW n \in S, NEW q, q = Append(o, n)
    PROVE  q \in Seq(S) /\ Len(q) = Len(o) + 1 /\ Gained(o, q, 1, Len(o), Len(o), n)
<1>1. /\ q \in Seq(S) /\ Len(q) = Len(o) + 1 /\ q[Len(o) + 1] = n
      /\ \A k \in 1..Len(o) : q[k] = o[k]
  BY AppendProperties
<1>2. \A k \in (Len(o) + 1)..Len(o) : q[k + 1] = o[k]
  OBVIOUS
<1> QED
  BY <1>1, <1>2, Zenon DEF Gained

\* pop_front's order.
LEMMA WithoutFirst ==
    ASSUME NEW S, NEW o \in Seq(S), Len(o) # 0, NEW q, q = Tail(o)
    PROVE  q \in Seq(S) /\ Len(q) = Len(o) - 1 /\ Lost(o, q, 1, Len(o), 1)
<1>1. o # <<>>
  BY EmptySeq
<1>2. /\ q \in Seq(S) /\ Len(q) = Len(o) - 1
      /\ \A k \in 1..Len(q) : q[k] = o[k + 1]
  BY <1>1, HeadTailProperties
<1>3. \A k \in 1..(1 - 1) : q[k] = o[k]
  OBVIOUS
<1> QED
  BY <1>2, <1>3, Zenon DEF Lost

\* remove's order, and pop_back's.
LEMMA WithoutOne ==
    ASSUME NEW S, NEW o \in Seq(S), NEW i \in 1..Len(o), NEW q, q = Without(o, i)
    PROVE  q \in Seq(S) /\ Len(q) = Len(o) - 1 /\ Lost(o, q, 1, Len(o), i)
<1>1. PICK L : L = Len(o) /\ L \in Nat
  BY LenProperties
<1>2. PICK a, b : a = SubSeq(o, 1, i - 1) /\ b = SubSeq(o, i + 1, L)
  BY Zenon
<1>3. q = a \o b
  BY <1>1, <1>2, Zenon DEF Without
<1>4. /\ i \in 1..L /\ i - 1 \in Int /\ i + 1 \in Int /\ 1 \in Int /\ L \in Int
      /\ \A k \in 1..(i - 1) : o[k] \in S
      /\ \A k \in (i + 1)..L : o[k] \in S
  BY <1>1, ElementOfSeq
<1>5. PICK e \in Int, f \in Int : e = i - 1 /\ f = i + 1
  BY <1>4
<1>6. /\ a \in Seq(S) /\ Len(a) = IF 1 <= e THEN e - 1 + 1 ELSE 0
      /\ \A k \in 1..(e - 1 + 1) : a[k] = o[1 + k - 1]
  BY <1>2, <1>4, <1>5, SubSeqProperties
<1>7. /\ b \in Seq(S) /\ Len(b) = IF f <= L THEN L - f + 1 ELSE 0
      /\ \A k \in 1..(L - f + 1) : b[k] = o[f + k - 1]
  BY <1>2, <1>4, <1>5, SubSeqProperties
<1>8. Len(a) = i - 1 /\ \A k \in 1..(i - 1) : a[k] = o[k]
  BY <1>4, <1>5, <1>6
<1>9. Len(b) = L - i /\ \A k \in 1..(L - i) : b[k] = o[i + k]
  BY <1>4, <1>5, <1>7
<1>10. /\ q \in Seq(S) /\ Len(q) = (i - 1) + (L - i)
       /\ \A k \in 1..((i - 1) + (L - i)) : q[k] = IF k <= i - 1 THEN a[k] ELSE b[k - (i - 1)]
  <2>1. a \in Seq(S) /\ b \in Seq(S)
    BY <1>6, <1>7, Zenon
  <2>2. /\ q \in Seq(S) /\ Len(q) = Len(a) + Len(b)
        /\ \A k \in 1..(Len(a) + Len(b)) : q[k] = IF k <= Len(a) THEN a[k] ELSE b[k - Len(a)]
    BY ONLY <1>3, <2>1, ConcatProperties
  <2> QED
    BY <1>8, <1>9, <2>2, Zenon
<1>11. (i - 1) + (L - i) = L - 1
  BY <1>1, <1>4
<1>12. ASSUME NEW k \in 1..(i - 1) PROVE q[k] = o[k]
  <2>1. k \in 1..(L - 1) /\ k <= i - 1
    BY <1>4
  <2> QED
    BY <1>8, <1>10, <1>11, <2>1, Zenon
<1>13. ASSUME NEW k \in i..(L - 1) PROVE q[k] = o[k + 1]
  <2>1. k \in 1..(L - 1) /\ ~(k <= i - 1) /\ k - (i - 1) \in 1..(L - i) /\ i + (k - (i - 1)) = k + 1
    BY <1>4
  <2> QED
    BY <1>9, <1>10, <1>11, <2>1, Zenon
<1> QED
  BY <1>1, <1>10, <1>11, <1>12, <1>13, Zenon DEF Lost

\* The circle says what the traversals visit.
LEMMA DequeOfCircle ==
    ASSUME ListInv
    PROVE  ListIsDeque
<1>1. PICK L, c : L = Len(order) /\ c = [k \in 0..(L + 1) |-> Place(order, k)]
  BY Zenon
<1>2. /\ L \in Nat /\ order \in [1..L -> Nodes]
      /\ c[0] = Sentinel /\ c[L + 1] = Sentinel
      /\ \A k \in 1..L : c[k] = order[k] /\ c[k] \in Nodes
      /\ \A k \in 0..(L + 1) : c[k] \in Ends /\ c[k] = Place(order, k)
      /\ OneToOne(c, 0, L) /\ OneToOne(c, 1, L + 1)
      /\ Circular(c, L, next, prev)
  BY <1>1, Circle
<1>3. Sentinel \notin Nodes /\ IsFiniteSet(Nodes)
  BY LinkedListAssumption, Zenon
<1>4. OneToOne(order, 1, L) /\ order \in Seq(Nodes)
  BY <1>1, Zenon DEF ListInv
<1>5. PICK r : r = Backwards(order)
  BY Zenon
<1>6. r = [k \in 1..L |-> order[(L - k) + 1]]
  BY <1>1, <1>5, Zenon DEF Backwards
<1>7. \A k \in 1..L : (L - k) + 1 \in 1..L /\ r[k] = order[(L - k) + 1]
  <2>1. L \in Nat
    BY <1>2, Zenon
  <2>2. \A k \in 1..L : (L - k) + 1 \in 1..L
    BY ONLY <2>1
  <2> QED
    BY <1>6, <2>2, Zenon
<1>8. r \in Seq(Nodes) /\ Len(r) = L
  <2>1. r \in [1..L -> Nodes]
    BY <1>2, <1>6, <1>7, Zenon
  <2>2. r \in Seq(Nodes)
    BY <1>2, <2>1, SeqDef
  <2>3. DOMAIN r = 1..L /\ DOMAIN r = 1..Len(r) /\ Len(r) \in Nat
    BY <2>1, <2>2, LenProperties
  <2> QED
    BY <1>2, <2>2, <2>3
<1>9. CASE L = 0
  <2>1. order = <<>> /\ r = <<>>
    BY <1>1, <1>4, <1>8, <1>9, EmptySeq
  <2>2. next[Sentinel] = Sentinel /\ prev[Sentinel] = Sentinel
    <3>1. 0 \in 0..L /\ 0 + 1 = L + 1
      BY <1>9
    <3>2. next[c[0]] = c[0 + 1] /\ prev[c[0 + 1]] = c[0]
      BY <1>2, <3>1, Zenon DEF Circular
    <3> QED
      BY <1>2, <3>1, <3>2, Zenon
  <2>3. ForEach(next) = <<>> /\ ForEach(prev) = <<>>
    BY <1>3, <2>2, AlongNothing, Zenon DEF ForEach
  <2> QED
    BY <1>5, <2>1, <2>3, Zenon DEF ListIsDeque, ListInv
<1>10. CASE L # 0
  <2>1. /\ 0 \in 0..L /\ L \in 0..L /\ 1 \in 1..L /\ L \in 1..L /\ 0 + 1 = 1
        /\ \A k \in 1..(L - 1) : k \in 0..L /\ k \in 1..L /\ k + 1 \in 1..L
    <3>1. L \in Nat /\ L # 0
      BY <1>2, <1>10, Zenon
    <3> QED
      BY ONLY <3>1
  <2>2. order # <<>> /\ r # <<>>
    BY <1>1, <1>8, <1>10, EmptySeq
  <2>3. /\ order[1] = next[Sentinel] /\ next[order[L]] = Sentinel
        /\ order[L] = prev[Sentinel] /\ prev[order[1]] = Sentinel
    <3>1. /\ next[c[0]] = c[0 + 1] /\ next[c[L]] = c[L + 1]
          /\ prev[c[0 + 1]] = c[0] /\ prev[c[L + 1]] = c[L]
      BY <1>2, <2>1, Zenon DEF Circular
    <3>2. c[0 + 1] = order[1] /\ c[L] = order[L]
      BY <1>2, <2>1, Zenon
    <3> QED
      BY <1>2, <2>1, <3>1, <3>2, Zenon
  <2>4. \A k \in 1..(L - 1) : next[order[k]] = order[k + 1] /\ prev[order[k + 1]] = order[k]
    BY <1>2, <2>1, Zenon DEF Circular
  <2>5. Path(order, next[Sentinel], next, Nodes)
    BY <1>1, <1>3, <1>4, <2>2, <2>3, <2>4, Zenon DEF Path, OneToOne
  <2>6. r[1] = prev[Sentinel] /\ prev[r[L]] = Sentinel
    <3>1. L \in Nat
      BY <1>2, Zenon
    <3>2. (L - 1) + 1 = L /\ (L - L) + 1 = 1
      BY ONLY <3>1
    <3> QED
      BY <1>7, <2>1, <2>3, <3>2, Zenon
  <2>7. ASSUME NEW k \in 1..(L - 1) PROVE prev[r[k]] = r[k + 1]
    <3>1. L \in Nat
      BY <1>2, Zenon
    <3>2. PICK m \in 1..(L - 1) : (L - k) + 1 = m + 1 /\ (L - (k + 1)) + 1 = m
      <4>1. L - k \in 1..(L - 1) /\ (L - (k + 1)) + 1 = L - k
        BY ONLY <3>1, k \in 1..(L - 1)
      <4> QED
        BY <4>1, Zenon
    <3>3. r[k] = order[m + 1] /\ r[k + 1] = order[m]
      BY <1>7, <2>1, <3>2, Zenon
    <3> QED
      BY <2>4, <3>2, <3>3, Zenon
  <2>8. ASSUME NEW j \in 1..L, NEW k \in 1..L, r[j] = r[k] PROVE j = k
    <3>1. (L - j) + 1 = (L - k) + 1
      BY <1>4, <1>7, <2>8, Zenon DEF OneToOne
    <3>2. L \in Nat
      BY <1>2, Zenon
    <3> QED
      BY ONLY <3>1, <3>2, j \in 1..L, k \in 1..L
  <2>9. Path(r, prev[Sentinel], prev, Nodes)
    BY <1>3, <1>8, <2>2, <2>6, <2>7, <2>8, Zenon DEF Path
  <2>10. ForEach(next) = order /\ ForEach(prev) = r
    BY <1>3, <2>5, <2>9, AlongPath, Zenon DEF ForEach
  <2> QED
    BY <1>5, <2>10, Zenon DEF ListIsDeque, ListInv
<1> QED
  BY <1>9, <1>10, Zenon

\* init makes the circle of the sentinel alone.
LEMMA ListStarts == ListStart => ListInv
<1> SUFFICES ASSUME ListStart PROVE ListInv
  OBVIOUS
<1>1. order = <<>> /\ Len(order) = 0 /\ listLen = 0 /\ order \in Seq(Nodes)
  BY EmptySeq DEF ListStart
<1>2. /\ next \in [Ends -> Ends \cup {NoNode}] /\ prev \in [Ends -> Ends \cup {NoNode}]
      /\ next[Sentinel] = Sentinel /\ prev[Sentinel] = Sentinel
      /\ \A n \in Nodes : prev[n] = NoNode /\ next[n] = NoNode
  BY LinkedListAssumption, Zenon DEF ListStart, Ends
<1>3. \A k : Place(order, k) = Sentinel
  <2>1. \A k : k \notin 1..0
    OBVIOUS
  <2> QED
    BY <1>1, <2>1, Zenon DEF Place
<1>4. \A j, k \in 1..0 : order[j] = order[k] => j = k
  OBVIOUS
<1>5. OneToOne(order, 1, Len(order))
  BY <1>1, <1>4, Zenon DEF OneToOne
<1>6. \A k \in 0..Len(order) : /\ next[Place(order, k)] = Place(order, k + 1)
                              /\ prev[Place(order, k + 1)] = Place(order, k)
  BY <1>2, <1>3, Zenon
<1> QED
  BY <1>1, <1>2, <1>5, <1>6, Zenon DEF ListInv

\* The neighbours of the sentinel are the first and the last place.
LEMMA ListEnds ==
    ASSUME ListInv
    PROVE  /\ Len(order) \in Nat
           /\ Place(order, 0) = Sentinel /\ Place(order, Len(order) + 1) = Sentinel
           /\ next[Sentinel] = Place(order, 1) /\ prev[Sentinel] = Place(order, Len(order))
           /\ Len(order) # 0 => Place(order, 1) = order[1] /\ Place(order, Len(order)) = order[Len(order)]
<1>1. Len(order) \in Nat
  BY LenProperties, Zenon DEF ListInv
<1>2. /\ 0 \notin 1..Len(order) /\ Len(order) + 1 \notin 1..Len(order) /\ 0 + 1 = 1
      /\ 0 \in 0..Len(order) /\ Len(order) \in 0..Len(order)
      /\ Len(order) # 0 => 1 \in 1..Len(order) /\ Len(order) \in 1..Len(order)
  BY <1>1
<1>3. Place(order, 0) = Sentinel /\ Place(order, Len(order) + 1) = Sentinel
  BY <1>2, Zenon DEF Place
<1>4. next[Place(order, 0)] = Place(order, 0 + 1) /\ prev[Place(order, Len(order) + 1)] = Place(order, Len(order))
  BY <1>2, Zenon DEF ListInv
<1> QED
  BY <1>1, <1>2, <1>3, <1>4, Zenon DEF Place

\* Every operation of the list keeps the circle.
LEMMA ListStep ==
    ASSUME ListInv, [ListNext]_listVars
    PROVE  ListInv'
<1>0. order \in Seq(Nodes) /\ listLen = Len(order)
  BY Zenon DEF ListInv
<1>1. /\ Len(order) \in Nat
      /\ Place(order, 0) = Sentinel /\ Place(order, Len(order) + 1) = Sentinel
      /\ next[Sentinel] = Place(order, 1) /\ prev[Sentinel] = Place(order, Len(order))
      /\ Len(order) # 0 => Place(order, 1) = order[1] /\ Place(order, Len(order)) = order[Len(order)]
  BY ListEnds, Zenon
<1>2. /\ 0 \in 0..Len(order) /\ Len(order) \in 0..Len(order) /\ 0 + 1 = 1
      /\ Len(order) # 0 => 1 \in 1..Len(order) /\ Len(order) \in 1..Len(order)
  BY <1>1
<1>3. ASSUME NEW n \in Nodes, PushFront(n) PROVE ListInv'
  <2>1. n \notin Range(order) /\ order' = <<n>> \o order
    BY <1>3, Zenon DEF PushFront
  <2>2. LinkBetween(n, Place(order, 0), Place(order, 0 + 1))
    BY <1>1, <1>2, <1>3, Zenon DEF PushFront
  <2>3. /\ order' \in Seq(Nodes) /\ Len(order') = Len(order) + 1
        /\ Gained(order, order', 1, Len(order), 0, n)
    BY <1>0, <2>1, Prepended, Zenon
  <2> QED
    BY <1>2, <2>1, <2>2, <2>3, Inserted, Zenon
<1>4. ASSUME NEW n \in Nodes, PushBack(n) PROVE ListInv'
  <2>1. n \notin Range(order) /\ order' = Append(order, n)
    BY <1>4, Zenon DEF PushBack
  <2>2. LinkBetween(n, Place(order, Len(order)), Place(order, Len(order) + 1))
    BY <1>1, <1>4, Zenon DEF PushBack
  <2>3. /\ order' \in Seq(Nodes) /\ Len(order') = Len(order) + 1
        /\ Gained(order, order', 1, Len(order), Len(order), n)
    BY <1>0, <2>1, Appended, Zenon
  <2> QED
    BY <1>2, <2>1, <2>2, <2>3, Inserted, Zenon
<1>5. ASSUME NEW n \in Nodes, ListRemove(n) PROVE ListInv'
  <2>1. PICK i \in DOMAIN order : order[i] = n /\ order' = Without(order, i)
    BY <1>5, Zenon DEF ListRemove
  <2>2. i \in 1..Len(order)
    BY <1>0, <2>1, LenProperties
  <2>3. /\ order' \in Seq(Nodes) /\ Len(order') = Len(order) - 1
        /\ Lost(order, order', 1, Len(order), i)
    BY <1>0, <2>1, <2>2, WithoutOne, Zenon
  <2>4. Unlink(order[i])
    BY <1>5, <2>1, Zenon DEF ListRemove
  <2> QED
    BY <2>2, <2>3, <2>4, Removed, Zenon
<1>6. ASSUME PopFront PROVE ListInv'
  <2>1. Len(order) # 0 /\ order' = Tail(order)
    BY <1>0, <1>6, Zenon DEF PopFront
  <2>2. Unlink(order[1])
    BY <1>1, <1>6, <2>1, Zenon DEF PopFront
  <2>3. /\ order' \in Seq(Nodes) /\ Len(order') = Len(order) - 1
        /\ Lost(order, order', 1, Len(order), 1)
    BY <1>0, <2>1, WithoutFirst, Zenon
  <2> QED
    BY <1>2, <2>1, <2>2, <2>3, Removed, Zenon
<1>7. ASSUME PopBack PROVE ListInv'
  <2>1. Len(order) # 0 /\ order' = Without(order, Len(order))
    BY <1>0, <1>7, Zenon DEF PopBack
  <2>2. Unlink(order[Len(order)])
    BY <1>1, <1>7, <2>1, Zenon DEF PopBack
  <2>3. /\ order' \in Seq(Nodes) /\ Len(order') = Len(order) - 1
        /\ Lost(order, order', 1, Len(order), Len(order))
    <3>1. Len(order) \in 1..Len(order)
      BY <1>1, <2>1
    <3> QED
      BY <1>0, <2>1, <3>1, WithoutOne, Zenon
  <2> QED
    BY <1>2, <2>1, <2>2, <2>3, Removed, Zenon
<1>8. ASSUME UNCHANGED listVars PROVE ListInv'
  BY <1>8, Zenon DEF ListInv, listVars, OneToOne, Place, Range
<1> QED
  BY <1>3, <1>4, <1>5, <1>6, <1>7, <1>8, Zenon DEF ListNext

\* Whatever is pushed, popped and removed, at either end or in the middle, the
\* list of linked_list.c reads forwards as its nodes in order and backwards as
\* their reverse, counts them, and keeps no link in a node that left it, for
\* every number of nodes.
THEOREM ListDeque == ListSpec => []ListIsDeque
<1>1. ListStart => ListInv
  BY ListStarts
<1>2. ListInv /\ [ListNext]_listVars => ListInv'
  BY ListStep
<1>3. ListInv => ListIsDeque
  BY DequeOfCircle
<1> QED
  BY <1>1, <1>2, <1>3, PTL DEF ListSpec
=============================================================================
