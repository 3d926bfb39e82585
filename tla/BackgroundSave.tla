--------------------------- MODULE BackgroundSave ---------------------------
(***************************************************************************)
(* SAVE, BGSAVE and GOBLIN.DUMPWORLD: one snapshot at a time, written by   *)
(* the server itself or by a forked child into path.tmp and renamed, or    *)
(* streamed through a pipe to a client (src/store.cpp: save_to_file ..     *)
(* reap_background_save; src/server.cpp: DumpWorldRuntime).                *)
(*                                                                         *)
(* The store's content is a number, new with every write.  An image of it  *)
(* is Chunks chunks, each tagged with that number; 0 is a chunk that was   *)
(* never written or that a power failure took away.  The server may crash  *)
(* while its child goes on, and the machine may lose power.                *)
(***************************************************************************)
EXTENDS Naturals, Sequences

CONSTANTS
  Chunks,          \* writes it takes to store an image
  PipeChunks,      \* chunks the pipe holds
  Inodes,          \* files of the directory, 0 not among them
  SharedListener,  \* a child keeps the listeners it inherits, so no server can start
  MaxContent,      \* bound: contents the store ever has
  MaxFaults        \* bound: errors, crashes and power failures

ASSUME ChunksAssumption == Chunks \in Nat \ {0} /\ PipeChunks \in Nat \ {0}
ASSUME InodesAssumption == Inodes \subseteq Nat \ {0}

VARIABLES
  up,       \* the server runs
  store,    \* the content of the store
  drawn,    \* contents ever drawn
  disk,     \* external: the files, by inode
  tmp,      \* external: the inode path.tmp names, or 0
  file,     \* external: the inode path names, or 0
  prev,     \* external: the inode path named before the last rename
  proc,     \* save_to_file in the server, and the child process
  saving,   \* background_save_child_ > 0
  dumping,  \* background_dump_child_ > 0
  suspended,\* background_snapshot_compaction_suspension_
  dump,     \* DumpWorldRuntime: session_, read_fd_, pipe_eof_, read_failed_
  pipe,     \* external: the chunks in the pipe
  client,   \* the client of the dump
  acked,    \* history: the content of the last SAVE answered OK
  faults    \* faults so far

vars == <<up, store, drawn, disk, tmp, file, prev, proc, saving, dumping, suspended, dump,
          pipe, client, acked, faults>>
diskVars == <<disk, tmp, file, prev>>
dumpVars == <<dump, pipe, client>>
parentVars == <<saving, dumping, suspended>>
-----------------------------------------------------------------------------
Chunk == 1..Chunks
Procs == {"server", "child"}
\* none; open .. undo: in save_to_file; stream: in the child of a dump; ok, bad: has
\* exited, or has returned to the command.
Steps == {"none", "open", "write", "sync", "rename", "undo", "stream", "ok", "bad"}
None == [pc |-> "none", img |-> 0, ino |-> 0, k |-> 0]
Job(pc, img) == [pc |-> pc, img |-> img, ino |-> 0, k |-> 0]
Proc == [pc : Steps, img : Nat, ino : Inodes \cup {0}, k : 0..Chunks]
Blank == [data |-> [c \in Chunk |-> 0], synced |-> FALSE]
Inode == [data : [Chunk -> Nat], synced : BOOLEAN]

\* out: what waits in the session's output; got: what the client has read.  End is the
\* terminator ";0".
End == [img |-> 0, k |-> 0]
Piece == [img : Nat, k : Nat]
NoClient == [status |-> "idle", out |-> <<>>, got |-> <<>>]
Client == [status : {"idle", "stream", "quit", "close"}, out : Seq(Piece), got : Seq(Piece)]
NoDump == [session |-> FALSE, reading |-> FALSE, pipe_eof |-> FALSE, read_failed |-> FALSE]
Dump == [session : BOOLEAN, reading : BOOLEAN, pipe_eof : BOOLEAN, read_failed : BOOLEAN]

\* The types; the pipe holds at most PipeChunks.
TypeOK ==
  /\ up \in BOOLEAN /\ store \in Nat /\ drawn \in Nat
  /\ disk \in [Inodes -> Inode]
  /\ tmp \in Inodes \cup {0} /\ file \in Inodes \cup {0} /\ prev \in Inodes \cup {0}
  /\ proc \in [Procs -> Proc]
  /\ saving \in BOOLEAN /\ dumping \in BOOLEAN /\ suspended \in BOOLEAN
  /\ dump \in Dump /\ client \in Client
  /\ pipe \in Seq(Piece) /\ Len(pipe) <= PipeChunks
  /\ acked \in Nat /\ faults \in Nat

Init ==
  /\ up = TRUE /\ store = 1 /\ drawn = 1
  /\ disk = [i \in Inodes |-> Blank] /\ tmp = 0 /\ file = 0 /\ prev = 0
  /\ proc = [p \in Procs |-> None]
  /\ saving = FALSE /\ dumping = FALSE /\ suspended = FALSE
  /\ dump = NoDump /\ pipe = <<>> /\ client = NoClient
  /\ acked = 0 /\ faults = 0

Fault == faults < MaxFaults /\ faults' = faults + 1
NoFault == UNCHANGED faults
Running(p) == proc[p].pc \in {"open", "write", "sync", "rename", "undo", "stream"}
\* The serving thread is not inside SAVE.
Idle == up /\ proc["server"] = None
background_snapshot_in_progress == saving \/ dumping
Go(p, pc) == proc' = [proc EXCEPT ![p].pc = pc]
Exit(p, pc) == proc' = [proc EXCEPT ![p].pc = pc, ![p].ino = 0, ![p].k = 0]
-----------------------------------------------------------------------------
(* save_to_file, in process p. *)

Free(i) == i \notin {tmp, file, prev} /\ \A p \in Procs : proc[p].ino # i
FirstFree(i) == Free(i) /\ \A j \in Inodes : Free(j) => i <= j

\* open(temp, O_CREAT | O_TRUNC)
Open(p) ==
  /\ proc[p].pc = "open"
  /\ \/ /\ NoFault
        /\ \E i \in Inodes :
             /\ IF tmp # 0 THEN i = tmp ELSE FirstFree(i)
             /\ disk' = [disk EXCEPT ![i] = Blank]
             /\ tmp' = i
             /\ proc' = [proc EXCEPT ![p].pc = "write", ![p].ino = i]
     \/ Fault /\ Exit(p, "bad") /\ UNCHANGED <<disk, tmp>>
  /\ UNCHANGED <<file, prev>>

WriteChunk(p) ==
  /\ proc[p].pc = "write"
  /\ LET k == proc[p].k + 1
     IN \/ /\ NoFault
           /\ disk' = [disk EXCEPT ![proc[p].ino] =
                         [data |-> [@.data EXCEPT ![k] = proc[p].img], synced |-> FALSE]]
           /\ proc' = [proc EXCEPT ![p].k = k, ![p].pc = IF k = Chunks THEN "sync" ELSE "write"]
        \/ Fault /\ Go(p, "undo") /\ UNCHANGED disk
  /\ UNCHANGED <<tmp, file, prev>>

\* (mutant of Sync) close without fsync.
SyncNothing(p) ==
  /\ proc[p].pc = "sync"
  /\ NoFault /\ Go(p, "rename") /\ UNCHANGED diskVars

\* fsync and close
Sync(p) ==
  /\ proc[p].pc = "sync"
  /\ \/ NoFault /\ disk' = [disk EXCEPT ![proc[p].ino].synced = TRUE] /\ Go(p, "rename")
     \/ Fault /\ Go(p, "undo") /\ UNCHANGED disk
  /\ UNCHANGED <<tmp, file, prev>>

Rename(p) ==
  /\ proc[p].pc = "rename"
  /\ \/ /\ tmp # 0 /\ NoFault
        /\ prev' = file /\ file' = tmp /\ tmp' = 0
        /\ Exit(p, "ok")
     \/ /\ IF tmp # 0 THEN Fault ELSE NoFault
        /\ Go(p, "undo") /\ UNCHANGED <<tmp, file, prev>>
  /\ UNCHANGED disk

\* unlink(temp)
Undo(p) ==
  /\ proc[p].pc = "undo" /\ NoFault
  /\ tmp' = 0 /\ Exit(p, "bad")
  /\ UNCHANGED <<disk, file, prev>>

save_to_file(p) ==
  /\ Open(p) \/ WriteChunk(p) \/ Sync(p) \/ Rename(p) \/ Undo(p)
  /\ UNCHANGED <<up, store, drawn, parentVars, dumpVars, acked>>
-----------------------------------------------------------------------------
(* Commands. *)

\* Any command that writes.
Mutate ==
  /\ Idle /\ drawn < MaxContent
  /\ store' = drawn + 1 /\ drawn' = drawn + 1
  /\ UNCHANGED <<diskVars, up, proc, parentVars, dumpVars, acked, faults>>

\* SAVE: the serving thread is inside save_to_file until it answers.
save_file ==
  /\ Idle /\ ~background_snapshot_in_progress
  /\ proc' = [proc EXCEPT !["server"] = Job("open", store)]
  /\ UNCHANGED <<up, store, drawn, diskVars, parentVars, dumpVars, acked, faults>>

\* (mutant of AnswerSave) OK whatever save_to_file returned.
AnswerOk ==
  /\ proc["server"].pc \in {"ok", "bad"}
  /\ acked' = proc["server"].img
  /\ proc' = [proc EXCEPT !["server"] = None]
  /\ UNCHANGED <<up, store, drawn, diskVars, parentVars, dumpVars, faults>>
AnswerSave ==
  /\ proc["server"].pc \in {"ok", "bad"}
  /\ acked' = IF proc["server"].pc = "ok" THEN proc["server"].img ELSE acked
  /\ proc' = [proc EXCEPT !["server"] = None]
  /\ UNCHANGED <<up, store, drawn, diskVars, parentVars, dumpVars, faults>>

\* SAVE, BGSAVE and GOBLIN.DUMPWORLD are refused while a child is known.
AlreadyRunning == Idle /\ background_snapshot_in_progress /\ UNCHANGED vars

\* BGSAVE
start_background_save ==
  /\ Idle /\ ~background_snapshot_in_progress /\ proc["child"] = None
  /\ proc' = [proc EXCEPT !["child"] = Job("open", store)]
  /\ saving' = TRUE /\ suspended' = TRUE
  /\ UNCHANGED <<up, store, drawn, diskVars, dumping, dumpVars, acked, faults>>

\* GOBLIN.DUMPWORLD: start_background_dump and DumpWorldRuntime::start.
start_background_dump ==
  /\ Idle /\ ~background_snapshot_in_progress /\ proc["child"] = None
  /\ client.status = "idle"
  /\ proc' = [proc EXCEPT !["child"] = Job("stream", store)]
  /\ dumping' = TRUE /\ suspended' = TRUE
  /\ dump' = [NoDump EXCEPT !.session = TRUE, !.reading = TRUE]
  /\ pipe' = <<>>
  /\ client' = [NoClient EXCEPT !.status = "stream"]
  /\ UNCHANGED <<up, store, drawn, diskVars, saving, acked, faults>>
-----------------------------------------------------------------------------
(* The child of a dump, and the pump that forwards what it writes. *)

PipeRoom == Len(pipe) < PipeChunks

\* The child writes to the pipe until it is done, fails, or nobody reads.
Stream ==
  /\ proc["child"].pc = "stream"
  /\ LET j == proc["child"]
         next == [img |-> j.img, k |-> j.k + 1]
     IN \/ /\ NoFault /\ dump.reading /\ j.k < Chunks /\ PipeRoom
           /\ pipe' = Append(pipe, next)
           /\ proc' = [proc EXCEPT !["child"].k = @ + 1]
        \/ NoFault /\ j.k = Chunks /\ Exit("child", "ok") /\ UNCHANGED pipe
        \/ NoFault /\ ~dump.reading /\ j.k < Chunks /\ Exit("child", "bad") /\ UNCHANGED pipe
        \/ Fault /\ Exit("child", "bad") /\ UNCHANGED pipe
  /\ UNCHANGED <<up, store, drawn, diskVars, parentVars, dump, client, acked>>

\* waitpid(WNOHANG): the child has exited.
Exited == proc["child"].pc \in {"ok", "bad"}
Reaped == proc' = [proc EXCEPT !["child"] = None] /\ suspended' = FALSE

\* reap_background_save, in network_iteration.
reap_background_save ==
  /\ Idle /\ saving /\ Exited
  /\ Reaped /\ saving' = FALSE
  /\ UNCHANGED <<up, store, drawn, diskVars, dumping, dumpVars, acked, faults>>

\* pump: the pipe is read only when the session has nothing left to send.  The child closes
\* its end just before it exits, so the reap that follows may find it one round later.
PumpRead ==
  /\ dump.session /\ ~dump.pipe_eof /\ client.out = <<>>
  /\ \/ /\ NoFault /\ pipe # <<>>
        /\ client' = [client EXCEPT !.out = pipe] /\ pipe' = <<>>
        /\ UNCHANGED <<dump, proc, dumping, suspended>>
     \/ /\ Fault   \* read() fails
        /\ dump' = [dump EXCEPT !.reading = FALSE, !.pipe_eof = TRUE, !.read_failed = TRUE]
        /\ UNCHANGED <<client, pipe, proc, dumping, suspended>>
     \/ /\ NoFault /\ pipe = <<>> /\ Exited
        /\ dump' = [dump EXCEPT !.reading = FALSE, !.pipe_eof = TRUE]
        /\ UNCHANGED <<client, pipe, proc, dumping, suspended>>

\* (mutant of Complete) end of file is taken for the end of the image.
CompleteAtEof == ~dump.read_failed
\* The terminator is sent only for a child that exited with 0 and was read to the end.
Complete == proc["child"].pc = "ok" /\ ~dump.read_failed

PumpReap ==
  /\ dump.session /\ dump.pipe_eof /\ client.out = <<>> /\ Exited
  /\ Reaped /\ dumping' = FALSE
  /\ dump' = [dump EXCEPT !.session = FALSE, !.pipe_eof = FALSE]
  /\ client' = IF Complete THEN [client EXCEPT !.out = <<End>>, !.status = "quit"]
               ELSE [client EXCEPT !.status = "close"]
  /\ NoFault /\ UNCHANGED pipe

\* (mutant of PumpOrphan) without a session there is nothing to do.
PumpNobody == FALSE /\ NoFault /\ UNCHANGED <<proc, suspended, dumping, dumpVars>>
\* The client has left: only the child is waited for.
PumpOrphan ==
  /\ ~dump.session /\ dumping /\ Exited
  /\ Reaped /\ dumping' = FALSE
  /\ dump' = [dump EXCEPT !.pipe_eof = FALSE]
  /\ NoFault /\ UNCHANGED <<client, pipe>>

pump ==
  /\ Idle
  /\ PumpRead \/ PumpReap \/ PumpOrphan
  /\ UNCHANGED <<up, store, drawn, diskVars, saving, acked>>

\* write_client: everything that waits goes out; after the terminator the server closes.
write_client ==
  /\ Idle /\ client.out # <<>>
  /\ client' = [client EXCEPT !.got = @ \o client.out, !.out = <<>>]
  /\ UNCHANGED <<up, store, drawn, diskVars, proc, parentVars, dump, pipe, acked, faults>>

\* DumpWorldRuntime::remove
remove ==
  /\ dump' = IF dump.session
             THEN [dump EXCEPT !.session = FALSE, !.reading = FALSE, !.pipe_eof = TRUE]
             ELSE dump
  /\ pipe' = IF dump.session THEN <<>> ELSE pipe
  /\ UNCHANGED dumping

\* The client leaves, or the server closes it: network_iteration, remove.
close_client ==
  /\ Idle /\ client.status # "idle"
  /\ remove
  /\ client' = NoClient
  /\ UNCHANGED <<up, store, drawn, diskVars, proc, saving, suspended, acked, faults>>
-----------------------------------------------------------------------------
(* Crashes. *)

\* The server dies; a child that runs is left to itself, with nobody at the pipe.
Crash ==
  /\ up /\ Fault
  /\ up' = FALSE
  /\ proc' = [proc EXCEPT !["server"] = None, !["child"] = IF Running("child") THEN @ ELSE None]
  /\ saving' = FALSE /\ dumping' = FALSE /\ suspended' = FALSE
  /\ dump' = NoDump /\ pipe' = <<>> /\ client' = NoClient
  /\ UNCHANGED <<store, drawn, diskVars, acked>>

\* A child without a parent is reaped by init.
OrphanGone ==
  /\ Exited /\ ~background_snapshot_in_progress
  /\ proc' = [proc EXCEPT !["child"] = None]
  /\ UNCHANGED <<up, store, drawn, diskVars, parentVars, dumpVars, acked, faults>>

\* Chunks that were not synced may be lost, and so may the last rename: the directory is
\* never synced.
PowerLoss ==
  /\ Fault
  /\ \E lost \in [{tmp, file} \ {0} -> SUBSET Chunk] :
       disk' = [i \in Inodes |->
         IF disk[i].synced \/ i \notin {tmp, file} THEN disk[i]
         ELSE [disk[i] EXCEPT !.data = [c \in Chunk |-> IF c \in lost[i] THEN 0 ELSE @[c]]]]
  /\ \/ UNCHANGED <<tmp, file>>
     \/ file # prev /\ tmp' = file /\ file' = prev
  /\ prev' = file'
  /\ up' = FALSE /\ proc' = [p \in Procs |-> None]
  /\ saving' = FALSE /\ dumping' = FALSE /\ suspended' = FALSE
  /\ dump' = NoDump /\ pipe' = <<>> /\ client' = NoClient
  /\ acked' = 0   \* nothing is promised across a power failure
  /\ UNCHANGED <<store, drawn>>

Whole(i) == \E v \in 1..drawn : \A c \in Chunk : disk[i].data[c] = v

\* main, with --load when there is a file: one that is not whole fails its checksum and the
\* server exits.
Restart ==
  /\ ~up
  /\ SharedListener => ~Running("child")
  /\ up' = TRUE
  /\ IF file = 0 THEN store' = drawn + 1 /\ drawn' = drawn + 1
     ELSE Whole(file) /\ store' = disk[file].data[1] /\ UNCHANGED drawn
  /\ UNCHANGED <<diskVars, proc, parentVars, dumpVars, acked, faults>>
-----------------------------------------------------------------------------
Next ==
  \/ Mutate \/ save_file \/ AnswerSave \/ AlreadyRunning
  \/ start_background_save \/ start_background_dump
  \/ \E p \in Procs : save_to_file(p)
  \/ Stream \/ pump \/ reap_background_save \/ write_client \/ close_client
  \/ Crash \/ OrphanGone \/ PowerLoss \/ Restart

\* Processes run, the loop goes round, and the client of a dump reads what it is sent.
Fairness ==
  /\ \A p \in Procs : WF_vars(NoFault /\ save_to_file(p))
  /\ WF_vars(NoFault /\ Stream)
  /\ WF_vars(AnswerSave) /\ WF_vars(reap_background_save)
  /\ WF_vars(NoFault /\ pump) /\ WF_vars(write_client)
Spec == Init /\ [][Next]_vars /\ Fairness
-----------------------------------------------------------------------------
(* Properties. *)

\* The snapshot at the final path is one whole image of the store as it was at one moment,
\* at every moment: during a save, after one that failed, after a crash of the server with
\* or without its child, and after a power failure (save_to_file).
SnapshotWhole == file # 0 => Whole(file)

\* After SAVE was answered OK, the path holds that image or a later one, whatever became of
\* the saves before it and after it (save_file, start_background_save).
SavedStays == acked # 0 => file # 0 /\ \A c \in Chunk : disk[file].data[c] >= acked

\* While a child shares the server's pages, the server knows of it, compaction is suspended
\* and no other snapshot is under way (background_snapshot_in_progress).
ChildKnown ==
  /\ up /\ Running("child") =>
       /\ saving # dumping /\ suspended /\ proc["server"] = None
       /\ dumping <=> proc["child"].pc = "stream"
  /\ suspended => saving \/ dumping

\* A client that has the terminator of a dump has the whole image, of one moment, in order
\* (pump: the child's exit status and the read error decide, not the end of the pipe).
DumpWhole ==
  \A n \in DOMAIN client.got :
    client.got[n] = End =>
      /\ n = Chunks + 1 /\ Len(client.got) = n
      /\ \A c \in Chunk : client.got[c].img = client.got[1].img /\ client.got[c].k = c

\* A snapshot that was started gets out of the way of the next one, also when its client
\* leaves or its child fails (reap_background_save, pump).
SnapshotsResume == background_snapshot_in_progress ~> ~background_snapshot_in_progress
=============================================================================
