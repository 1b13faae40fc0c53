----------------------------- MODULE FileStore ------------------------------
(***************************************************************************)
(* The whole-file helpers of io/file.c, d4np_file_write_all and            *)
(* d4np_file_read_all, over a POSIX file system with a page cache.  Every  *)
(* library call is one step, may fail, and interleaves with the other      *)
(* processes; the machine may crash between any two.  A file is a sequence *)
(* of blocks, each stamped with the version it belongs to; version v whole *)
(* is Size blocks of v.                                                    *)
(***************************************************************************)
EXTENDS Naturals, Sequences, FiniteSets

CONSTANTS
    Writers, Readers,
    Inodes, None,
    Size,           \* blocks in a version
    Chunk,          \* D4NP_FILE_CHUNK, in blocks
    MaxVersion      \* bounds the number of write_all calls

ASSUME FileAssumption ==
    /\ None \notin Inodes /\ IsFiniteSet(Inodes)
    /\ Size \in Nat \ {0} /\ Chunk \in Nat \ {0} /\ MaxVersion \in Nat

VARIABLES
    dir, dirDisk,       \* the entries "path" and "tmp": as seen, as on disk
    data, disk,         \* the blocks of each inode: as seen, as on disk
    version,            \* the last version a write was called with
    wpc, wf, off, wv, wret, \* write_all: step, inode behind f and its offset,
                        \* version, result
    acked,              \* the last version a write_all returned OK for
    rpc, rf, buf, cap, rret \* read_all: step, inode behind f, bytes read, cap,
                        \* result

fs      == <<dir, dirDisk, data, disk>>
writing == <<version, wpc, wf, off, wv, wret, acked>>
reading == <<rpc, rf, buf, cap, rret>>
fileVars    == <<fs, writing, reading>>

Whole(v) == [b \in 1..Size |-> v]
Versions == 0..MaxVersion
Hole == MaxVersion + 1   \* a block of zeros, of no version
InUse == {dir[n] : n \in DOMAIN dir} \cup {dirDisk[n] : n \in DOMAIN dirDisk}
         \cup {wf[w] : w \in Writers} \cup {rf[r] : r \in Readers}

FileInit ==
    /\ \E i \in Inodes :
        /\ dir = [path |-> i, tmp |-> None] /\ dirDisk = dir
        /\ data = [j \in Inodes |-> IF j = i THEN Whole(0) ELSE <<>>] /\ disk = data
    /\ version = 0 /\ acked = 0
    /\ wpc = [w \in Writers |-> "idle"] /\ wf = [w \in Writers |-> None]
    /\ off = [w \in Writers |-> 0] /\ wv = [w \in Writers |-> 0]
    /\ wret = [w \in Writers |-> "none"]
    /\ rpc = [r \in Readers |-> "idle"] /\ rf = [r \in Readers |-> None]
    /\ buf = [r \in Readers |-> <<>>] /\ cap = [r \in Readers |-> 0]
    /\ rret = [r \in Readers |-> "none"]

-----------------------------------------------------------------------------
(* d4np_file_write_all *)

WriterAt(w, from) == wpc[w] = from /\ UNCHANGED <<dirDisk, disk, reading>>
WriterGoes(w, to) == wpc' = [wpc EXCEPT ![w] = to] /\ UNCHANGED <<wret, acked>>

\* A step failed: what is left is to close f and remove the temp file.
WriterFails(w, to) == WriterGoes(w, to) /\ UNCHANGED <<dir, data, wf, off, version, wv>>

\* fopen(tmp, "wb") truncates an existing temp file, or creates one.
WriteOpen(w) ==
    /\ WriterAt(w, "idle") /\ version < MaxVersion
    /\ version' = version + 1 /\ wv' = [wv EXCEPT ![w] = version']
    /\ \/ \E i \in IF dir.tmp # None THEN {dir.tmp} ELSE Inodes \ InUse :
            /\ dir' = [dir EXCEPT !.tmp = i]
            /\ data' = [data EXCEPT ![i] = <<>>]
            /\ wf' = [wf EXCEPT ![w] = i] /\ off' = [off EXCEPT ![w] = 0]
            /\ WriterGoes(w, "write")
       \/ /\ wret' = [wret EXCEPT ![w] = "error"]
          /\ UNCHANGED <<dir, data, wf, off, wpc, acked>>

\* Seeded fault: the result of fwrite is not checked.
WriteBlockUnchecked(w) ==
    /\ WriterAt(w, "write")
    /\ \/ /\ data' = [data EXCEPT ![wf[w]] = Append(@, wv[w])]
          /\ off' = [off EXCEPT ![w] = @ + 1]
          /\ WriterGoes(w, IF off[w] + 1 = Size THEN "sync" ELSE "write")
          /\ UNCHANGED <<dir, wf, version, wv>>
       \/ WriterFails(w, "sync")

\* fwrite and fflush: block after block reaches the file, each at f's own
\* offset; a file truncated in the meantime gets a hole before it.
WriteBlock(w) ==
    LET old == data[wf[w]]
        n   == off[w] + 1
    IN
    /\ WriterAt(w, "write")
    /\ \/ /\ data' = [data EXCEPT ![wf[w]] =
                        [b \in 1..(IF Len(old) > n THEN Len(old) ELSE n) |->
                            IF b = n THEN wv[w] ELSE IF b <= Len(old) THEN old[b] ELSE Hole]]
          /\ off' = [off EXCEPT ![w] = n]
          /\ WriterGoes(w, IF n = Size THEN "sync" ELSE "write")
          /\ UNCHANGED <<dir, wf, version, wv>>
       \/ WriterFails(w, "close")

\* Seeded fault: the data is not flushed to disk before the rename.
SyncSkipped(w) ==
    /\ wpc[w] = "sync"
    /\ WriterGoes(w, "fclose")
    /\ UNCHANGED <<fs, wf, off, version, wv, reading>>

\* file_sync
WriteSync(w) ==
    /\ wpc[w] = "sync"
    /\ \/ disk' = [disk EXCEPT ![wf[w]] = data[wf[w]]] /\ WriterGoes(w, "fclose")
       \/ WriterGoes(w, "close") /\ UNCHANGED disk
    /\ UNCHANGED <<dir, dirDisk, data, wf, off, version, wv, reading>>

\* The fclose on the success path; f is gone even when it fails.
WriteClose(w) ==
    /\ WriterAt(w, "fclose")
    /\ wf' = [wf EXCEPT ![w] = None]
    /\ \E to \in {"rename", "remove"} : WriterGoes(w, to)
    /\ UNCHANGED <<dir, data, off, version, wv>>

\* rename over the target; fails when another process renamed or removed tmp.
WriteRename(w) ==
    /\ WriterAt(w, "rename")
    /\ \/ /\ dir.tmp # None
          /\ dir' = [path |-> dir.tmp, tmp |-> None]
          /\ wret' = [wret EXCEPT ![w] = "ok"] /\ acked' = wv[w]
          /\ wpc' = [wpc EXCEPT ![w] = "idle"]
          /\ UNCHANGED <<data, wf, off, version, wv>>
       \/ WriterFails(w, "remove")

WriteCloseFailed(w) ==
    /\ WriterAt(w, "close")
    /\ wf' = [wf EXCEPT ![w] = None]
    /\ WriterGoes(w, "remove")
    /\ UNCHANGED <<dir, data, off, version, wv>>

\* remove(tmp); its own failure is ignored.
WriteRemove(w) ==
    /\ WriterAt(w, "remove")
    /\ dir' \in {dir, [dir EXCEPT !.tmp = None]}
    /\ wpc' = [wpc EXCEPT ![w] = "idle"] /\ wret' = [wret EXCEPT ![w] = "error"]
    /\ UNCHANGED <<data, wf, off, version, wv, acked>>

Write(w) ==
    \/ WriteOpen(w) \/ WriteBlock(w) \/ WriteSync(w) \/ WriteClose(w)
    \/ WriteRename(w) \/ WriteCloseFailed(w) \/ WriteRemove(w)

-----------------------------------------------------------------------------
(* d4np_file_read_all *)

ReadEnds(r, res) ==
    /\ rpc' = [rpc EXCEPT ![r] = "idle"] /\ rf' = [rf EXCEPT ![r] = None]
    /\ rret' = [rret EXCEPT ![r] = res]

ReadOpen(r) ==
    /\ rpc[r] = "idle"
    /\ buf' = [buf EXCEPT ![r] = <<>>] /\ cap' = [cap EXCEPT ![r] = 0]
    /\ \/ /\ dir.path # None
          /\ rf' = [rf EXCEPT ![r] = dir.path] /\ rpc' = [rpc EXCEPT ![r] = "read"]
          /\ rret' = [rret EXCEPT ![r] = "none"]
       \/ ReadEnds(r, "error")
    /\ UNCHANGED <<fs, writing>>

\* Seeded fault: a short read is taken for the end of the file.
ReadStopsShort(r) ==
    LET file == data[rf[r]] IN
    /\ rpc[r] = "read"
    /\ cap' = [cap EXCEPT ![r] = Chunk]
    /\ buf' = [buf EXCEPT ![r] = SubSeq(file, 1, Chunk)]
    /\ rpc' = [rpc EXCEPT ![r] = "trim"]
    /\ UNCHANGED <<rf, rret, fs, writing>>

\* One turn of the loop: grow a full buffer, then fread.  Both may fail, and
\* then the buffer is freed; fread may return less than was asked for.
ReadChunk(r) ==
    LET file == data[rf[r]]
        len  == Len(buf[r])
        ncap == IF len < cap[r] THEN cap[r] ELSE IF cap[r] = 0 THEN Chunk ELSE 2 * cap[r]
    IN
    /\ rpc[r] = "read"
    /\ \/ ReadEnds(r, "error") /\ UNCHANGED <<buf, cap>>
       \/ /\ cap' = [cap EXCEPT ![r] = ncap]
          /\ \/ \E n \in (len + 1)..ncap :
                    /\ n <= Len(file)
                    /\ buf' = [buf EXCEPT ![r] = @ \o SubSeq(file, len + 1, n)]
                    /\ UNCHANGED rpc
             \/ len >= Len(file) /\ rpc' = [rpc EXCEPT ![r] = "trim"] /\ UNCHANGED buf
          /\ UNCHANGED <<rf, rret>>
    /\ UNCHANGED <<fs, writing>>

\* An empty file gives no buffer.  Otherwise the buffer is trimmed, or kept as
\* it is when the realloc fails; the result is the same.
ReadTrim(r) ==
    /\ rpc[r] = "trim"
    /\ ReadEnds(r, "ok")
    /\ UNCHANGED <<buf, cap, fs, writing>>

Read(r) == ReadOpen(r) \/ ReadChunk(r) \/ ReadTrim(r)

-----------------------------------------------------------------------------
(* The file system *)

\* The kernel writes the directory or a file back when it likes.
Writeback ==
    /\ \/ dirDisk' = dir /\ UNCHANGED disk
       \/ \E i \in Inodes : disk' = [disk EXCEPT ![i] = data[i]] /\ UNCHANGED dirDisk
    /\ UNCHANGED <<dir, data, writing, reading>>

\* Every process dies, and what was not on disk is lost.
Crash ==
    /\ dir' = dirDisk /\ data' = disk
    /\ wpc' = [w \in Writers |-> "idle"] /\ wf' = [w \in Writers |-> None]
    /\ wret' = [w \in Writers |-> "none"]
    /\ rpc' = [r \in Readers |-> "idle"] /\ rf' = [r \in Readers |-> None]
    /\ buf' = [r \in Readers |-> <<>>] /\ cap' = [r \in Readers |-> 0]
    /\ rret' = [r \in Readers |-> "none"]
    /\ UNCHANGED <<dirDisk, disk, version, off, wv, acked>>

FileNext ==
    \/ \E w \in Writers : Write(w)
    \/ \E r \in Readers : Read(r)
    \/ Writeback \/ Crash

FileSpec == FileInit /\ [][FileNext]_fileVars

-----------------------------------------------------------------------------
\* "A reader never observes a half-written file": the target always names one
\* whole version, through errors, removals of the temp file and crashes.
NeverHalfWritten ==
    dir.path # None /\ \E v \in Versions : data[dir.path] = Whole(v)

\* A read_all that succeeds returns one whole version, though it reads in
\* chunks while writers replace the file.
ReadsOneVersion ==
    \A r \in Readers : rret[r] = "ok" => \E v \in Versions : buf[r] = Whole(v)

\* A write_all that returns OK has just put its own version at the target.
InstallsOwnVersion ==
    [][\A w \in Writers : wret'[w] = "ok" /\ wpc[w] = "rename" /\ wpc'[w] = "idle"
          => data'[dir'.path] = Whole(wv[w])]_fileVars

\* "Writes are durable": the version at the target is never older than the last
\* one write_all returned OK for.
Durable == data[dir.path][1] >= acked
=============================================================================
