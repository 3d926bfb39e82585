------------------------ MODULE BackgroundSaveProofs ------------------------
(***************************************************************************)
(* Proofs about BackgroundSave: the installed snapshot is whole, what SAVE *)
(* has answered stays, and the server knows of the child it shares its     *)
(* pages with.  They need SharedListener: an orphan keeps a new server     *)
(* from starting, and so from writing the same path.tmp.                   *)
(***************************************************************************)
EXTENDS BackgroundSave, SequenceTheorems, TLAPS

CoreOK ==
  /\ up \in BOOLEAN /\ store \in Nat /\ drawn \in Nat
  /\ disk \in [Inodes -> Inode]
  /\ tmp \in Inodes \cup {0} /\ file \in Inodes \cup {0} /\ prev \in Inodes \cup {0}
  /\ proc \in [Procs -> Proc]
  /\ saving \in BOOLEAN /\ dumping \in BOOLEAN /\ suspended \in BOOLEAN
  /\ acked \in Nat /\ faults \in Nat
DumpOK ==
  /\ dump \in Dump /\ client \in Client
  /\ pipe \in Seq(Piece) /\ Len(pipe) <= PipeChunks

\* SAVE is executed by a server that runs, and never beside a child.
Alone ==
  /\ proc["server"] # None => up /\ ~Running("child")
  /\ proc["server"].pc # "stream"

\* What process p has written so far is in path.tmp.
Written(p) ==
  /\ Running(p) => proc[p].img \in 1..drawn /\ acked <= proc[p].img
  /\ proc[p].pc = "open" => proc[p].k = 0
  /\ proc[p].pc \in {"write", "sync", "rename"} => tmp # 0 /\ proc[p].ino = tmp
  /\ proc[p].pc = "write" =>
       proc[p].k < Chunks /\ \A c \in 1..proc[p].k : disk[tmp].data[c] = proc[p].img
  /\ proc[p].pc \in {"sync", "rename"} => \A c \in Chunk : disk[tmp].data[c] = proc[p].img
  /\ proc[p].pc = "rename" => disk[tmp].synced

\* A file that was installed is whole, synced, and not the one being written.
Sound(i) == i # tmp /\ disk[i].synced /\ Whole(i)
Installed == \A i \in {file, prev} \ {0} : Sound(i)

\* The store is not older than the last SAVE answered, nor is the file a SAVE about to be
\* answered has installed.
Promised ==
  /\ store \in 1..drawn /\ acked <= store
  /\ SavedStays
  /\ proc["server"] # None => proc["server"].img = store
  /\ proc["server"].pc = "ok" => file # 0 /\ \A c \in Chunk : disk[file].data[c] = store

Core == CoreOK /\ Alone /\ ChildKnown /\ (\A p \in Procs : Written(p)) /\ Installed /\ Promised
IInv == Core /\ DumpOK
-----------------------------------------------------------------------------
\* TypeOK, in two parts.
LEMMA Types == TypeOK <=> CoreOK /\ DumpOK
  BY DEF TypeOK, CoreOK, DumpOK

\* The records of the model have their types.
LEMMA Records ==
  /\ None \in Proc /\ None.pc = "none" /\ None.k = 0
  /\ Blank \in Inode
  /\ NoDump \in Dump /\ NoClient \in Client
  /\ End \in Piece
<1>1. 0 \in 0..Chunks /\ 0 \in Nat
  BY ChunksAssumption
<1>2. None \in Proc /\ None.pc = "none" /\ None.k = 0
  BY <1>1 DEF None, Proc, Steps
<1>3. Blank \in Inode
  BY DEF Blank, Inode
<1>4. NoDump \in Dump
  BY DEF NoDump, Dump
<1>5. NoClient \in Client
  <2>1. <<>> \in Seq(Piece)
    OBVIOUS
  <2>. QED  BY <2>1 DEF NoClient, Client
<1>6. End \in Piece
  BY DEF End, Piece
<1>. QED  BY <1>2, <1>3, <1>4, <1>5, <1>6

\* A file that was installed stays sound as long as nobody writes to it.
LEMMA SoundStays ==
  ASSUME NEW i, Sound(i), i # tmp', disk'[i] = disk[i],
         drawn \in Nat, drawn' \in Nat, drawn <= drawn'
  PROVE  Sound(i)'
<1>1. PICK v \in 1..drawn : \A c \in Chunk : disk[i].data[c] = v
  BY DEF Sound, Whole
<1>2. v \in 1..drawn'
  BY <1>1
<1>. QED  BY <1>1, <1>2 DEF Sound, Whole

\* The initial state satisfies IInv.
LEMMA InitIInv ==
  ASSUME Init
  PROVE  IInv
<1>1. /\ up = TRUE /\ store = 1 /\ drawn = 1 /\ tmp = 0 /\ file = 0 /\ prev = 0 /\ acked = 0
      /\ \A p \in Procs : proc[p] = None
      /\ "server" \in Procs /\ "child" \in Procs
  BY DEF Init, Procs
<1>2. CoreOK
  BY Records, Zenon DEF Init, CoreOK
<1>3. DumpOK
  BY Records, ChunksAssumption DEF Init, DumpOK
<1>4. \A p \in Procs : ~Running(p) /\ proc[p].pc = "none"
  BY <1>1, Records DEF Running
<1>5. Alone
  BY <1>1, <1>4 DEF Alone
<1>6. ChildKnown
  BY <1>1, <1>4 DEF ChildKnown, Init
<1>7. \A p \in Procs : Written(p)
  BY <1>4 DEF Written
<1>8. Installed
  BY <1>1 DEF Installed
<1>9. Promised
  BY <1>1, <1>4 DEF Promised, SavedStays
<1>. QED  BY <1>2, <1>3, <1>5, <1>6, <1>7, <1>8, <1>9 DEF IInv, Core
-----------------------------------------------------------------------------
(* Steps that do not touch the files. *)

\* The written part of a process that stays as it is, or that does not write.
LEMMA WrittenStays ==
  ASSUME NEW p \in Procs, Written(p), UNCHANGED <<diskVars, acked>>,
         drawn \in Nat, drawn' \in Nat, drawn <= drawn',
         proc'[p] = proc[p] \/ proc'[p].pc \in {"none", "ok", "bad"}
  PROVE  Written(p)'
<1>1. CASE proc'[p] = proc[p]
  <2>1. Running(p) => proc[p].img \in 1..drawn'
    BY DEF Written
  <2>. QED  BY <1>1, <2>1 DEF Written, Running, diskVars
<1>2. CASE proc'[p].pc \in {"none", "ok", "bad"}
  BY <1>2 DEF Written, Running
<1>. QED  BY <1>1, <1>2

\* Files that nobody touches stay installed.
LEMMA InstalledStays ==
  ASSUME CoreOK, Installed, UNCHANGED diskVars, drawn' \in Nat, drawn <= drawn'
  PROVE  Installed'
<1>. SUFFICES ASSUME NEW i \in {file, prev} \ {0}
              PROVE  Sound(i)'
  BY DEF Installed, diskVars
<1>1. Sound(i) /\ i # tmp
  BY DEF Installed, Sound
<1>. QED  BY <1>1, SoundStays DEF diskVars, CoreOK

\* A write draws a new content.
LEMMA MutateCore ==
  ASSUME Core, Mutate
  PROVE  Core'
<1>1. /\ up /\ proc["server"] = None
      /\ store' = drawn + 1 /\ drawn' = drawn + 1 /\ UNCHANGED diskVars
      /\ up' = up /\ proc' = proc /\ saving' = saving /\ dumping' = dumping
      /\ suspended' = suspended /\ acked' = acked /\ faults' = faults
  BY DEF Mutate, Idle, parentVars
<1>2. CoreOK'
  BY <1>1 DEF Core, CoreOK, diskVars
<1>3. drawn \in Nat /\ drawn' \in Nat /\ drawn <= drawn'
  BY <1>1 DEF Core, CoreOK
<1>4. Alone'
  BY <1>1 DEF Core, Alone, Running
<1>5. ChildKnown'
  BY <1>1 DEF Core, ChildKnown, Running
<1>6. \A p \in Procs : Written(p)'
  BY <1>1, <1>3, WrittenStays DEF Core
<1>7. Installed'
  BY <1>1, <1>3, InstalledStays DEF Core
<1>8. Promised'
  <2>1. store' \in 1..drawn' /\ acked' <= store'
    BY <1>1, <1>3 DEF Core, CoreOK, Promised
  <2>2. SavedStays'
    BY <1>1 DEF Core, Promised, SavedStays, diskVars
  <2>3. proc'["server"] = None /\ None.pc = "none"
    BY <1>1, Records
  <2>. QED  BY <2>1, <2>2, <2>3 DEF Promised
<1>. QED  BY <1>2, <1>4, <1>5, <1>6, <1>7, <1>8 DEF Core

\* The job of a process that begins.
LEMMA JobBegins ==
  ASSUME Core, NEW p \in Procs, NEW pc \in {"open", "stream"},
         proc' = [proc EXCEPT ![p] = Job(pc, store)]
  PROVE  /\ proc' \in [Procs -> Proc] /\ proc'[p] = Job(pc, store)
         /\ \A q \in Procs : q # p => proc'[q] = proc[q]
         /\ Job(pc, store).pc = pc /\ Job(pc, store).img = store /\ Job(pc, store).k = 0
<1>1. Job(pc, store).pc = pc /\ Job(pc, store).img = store /\ Job(pc, store).k = 0
  BY DEF Job
<1>2. Job(pc, store) \in Proc
  BY ChunksAssumption DEF Job, Proc, Steps, Core, CoreOK
<1>. QED  BY <1>1, <1>2 DEF Core, CoreOK

\* SAVE begins, and finds no child that runs (background_snapshot_in_progress).
LEMMA SaveCore ==
  ASSUME Core, save_file
  PROVE  Core'
<1>1. /\ up /\ proc["server"] = None /\ ~saving /\ ~dumping
      /\ proc' = [proc EXCEPT !["server"] = Job("open", store)]
      /\ store' = store /\ drawn' = drawn /\ UNCHANGED diskVars
      /\ up' = up /\ saving' = saving /\ dumping' = dumping
      /\ suspended' = suspended /\ acked' = acked /\ faults' = faults
  BY DEF save_file, Idle, parentVars, background_snapshot_in_progress
<1>2. "server" \in Procs /\ "child" \in Procs /\ \A q \in Procs : q # "server" => q = "child"
  BY DEF Procs
<1>3. /\ proc' \in [Procs -> Proc] /\ proc'["child"] = proc["child"]
      /\ proc'["server"].pc = "open" /\ proc'["server"].img = store /\ proc'["server"].k = 0
  BY <1>1, <1>2, JobBegins, Zenon
<1>4. CoreOK'
  BY <1>1, <1>3 DEF Core, CoreOK, diskVars
<1>5. ~Running("child")
  BY <1>1 DEF Core, ChildKnown
<1>6. ~Running("child")'
  BY <1>3, <1>5 DEF Running
<1>7. Alone'
  BY <1>1, <1>3, <1>6 DEF Alone
<1>8. ChildKnown'
  BY <1>1, <1>6 DEF Core, ChildKnown
<1>9. drawn \in Nat /\ drawn' \in Nat /\ drawn <= drawn'
  BY <1>1 DEF Core, CoreOK
<1>10. \A p \in Procs : Written(p)'
  <2>1. Written("child")'
    BY <1>1, <1>2, <1>3, <1>9, WrittenStays DEF Core
  <2>2. Written("server")'
    BY <1>1, <1>3 DEF Written, Core, Promised
  <2>. QED  BY <2>1, <2>2, <1>2
<1>11. Installed'
  BY <1>1, <1>9, InstalledStays DEF Core
<1>12. Promised'
  BY <1>1, <1>3 DEF Core, Promised, SavedStays, diskVars
<1>. QED  BY <1>4, <1>7, <1>8, <1>10, <1>11, <1>12 DEF Core

\* SAVE is answered.
LEMMA AnswerCore ==
  ASSUME Core, AnswerSave
  PROVE  Core'
<1>1. /\ proc["server"].pc \in {"ok", "bad"}
      /\ acked' = IF proc["server"].pc = "ok" THEN proc["server"].img ELSE acked
      /\ proc' = [proc EXCEPT !["server"] = None]
      /\ store' = store /\ drawn' = drawn /\ UNCHANGED diskVars
      /\ up' = up /\ saving' = saving /\ dumping' = dumping
      /\ suspended' = suspended /\ faults' = faults
  BY DEF AnswerSave, parentVars
<1>2. "server" \in Procs /\ "child" \in Procs /\ \A q \in Procs : q # "server" => q = "child"
  BY DEF Procs
<1>3. proc["server"] # None /\ None.pc = "none" /\ None \in Proc
  BY <1>1, Records
<1>4. /\ proc' \in [Procs -> Proc] /\ proc'["child"] = proc["child"] /\ proc'["server"] = None
  BY <1>1, <1>2, <1>3 DEF Core, CoreOK
<1>5. proc["server"].img = store /\ ~Running("child")
  BY <1>3 DEF Core, Promised, Alone
<1>6. ~Running("child")'
  BY <1>4, <1>5 DEF Running
<1>7. CoreOK'
  BY <1>1, <1>4, <1>5 DEF Core, CoreOK, diskVars
<1>8. Alone'
  BY <1>3, <1>4 DEF Alone
<1>9. ChildKnown'
  BY <1>1, <1>6 DEF Core, ChildKnown
<1>10. \A p \in Procs : Written(p)'
  <2>1. Written("child")'
    BY <1>1, <1>2, <1>4, <1>6 DEF Core, Written, Running, diskVars
  <2>2. Written("server")'
    BY <1>3, <1>4 DEF Written, Running
  <2>. QED  BY <2>1, <2>2, <1>2
<1>11. Installed'
  BY <1>1, InstalledStays DEF Core, CoreOK
<1>12. Promised'
  <2>1. SavedStays'
    <3>1. CASE proc["server"].pc = "ok"
      <4>1. file' # 0 /\ \A c \in Chunk : disk'[file'].data[c] = store
        BY <3>1, <1>1 DEF Core, Promised, diskVars
      <4>2. store \in Nat /\ acked' = store
        BY <3>1, <1>1, <1>5 DEF Core, CoreOK
      <4>. QED  BY <4>1, <4>2 DEF SavedStays
    <3>2. CASE proc["server"].pc # "ok"
      BY <3>2, <1>1 DEF Core, Promised, SavedStays, diskVars
    <3>. QED  BY <3>1, <3>2
  <2>2. store' \in 1..drawn' /\ acked' <= store'
    BY <1>1, <1>5 DEF Core, CoreOK, Promised
  <2>. QED  BY <2>1, <2>2, <1>3, <1>4 DEF Promised
<1>. QED  BY <1>7, <1>8, <1>9, <1>10, <1>11, <1>12 DEF Core
-----------------------------------------------------------------------------
(* The child. *)

\* A child is forked: by BGSAVE, or for a dump.
LEMMA ForkCore ==
  ASSUME Core, NEW pc \in {"open", "stream"}, Idle, ~saving, ~dumping,
         proc' = [proc EXCEPT !["child"] = Job(pc, store)],
         saving' = (pc = "open"), dumping' = (pc = "stream"), suspended' = TRUE,
         UNCHANGED <<up, store, drawn, diskVars, acked, faults>>
  PROVE  Core'
<1>1. up /\ proc["server"] = None
  BY DEF Idle
<1>2. "server" \in Procs /\ "child" \in Procs /\ \A q \in Procs : q # "child" => q = "server"
  BY DEF Procs
<1>3. /\ proc' \in [Procs -> Proc] /\ proc'["server"] = proc["server"]
      /\ proc'["child"].pc = pc /\ proc'["child"].img = store /\ proc'["child"].k = 0
  BY <1>2, JobBegins, ZenonT(30)
<1>4. CoreOK'
  BY <1>3 DEF Core, CoreOK, diskVars
<1>5. Alone'
  BY <1>1, <1>3 DEF Core, Alone
<1>6. ChildKnown'
  BY <1>1, <1>3, Zenon DEF ChildKnown
<1>7. \A p \in Procs : Written(p)'
  <2>1. Written("server")'
    BY <1>2, <1>3, WrittenStays DEF Core, CoreOK
  <2>2. Written("child")'
    BY <1>3 DEF Written, Core, Promised
  <2>. QED  BY <2>1, <2>2, <1>2
<1>8. Installed'
  BY InstalledStays DEF Core, CoreOK
<1>9. Promised'
  BY <1>3 DEF Core, Promised, SavedStays, diskVars
<1>. QED  BY <1>4, <1>5, <1>6, <1>7, <1>8, <1>9 DEF Core

\* A child that goes on streaming, exits or is reaped.
LEMMA ChildCore ==
  ASSUME Core, UNCHANGED <<up, store, drawn, diskVars, acked>>, faults' \in Nat,
         proc' \in [Procs -> Proc], proc'["server"] = proc["server"],
         \/ proc'["child"] = proc["child"] \/ proc'["child"].pc \in {"none", "ok", "bad"}
         \/ /\ proc["child"].pc = "stream" /\ proc'["child"].pc = "stream"
            /\ proc'["child"].img = proc["child"].img,
         saving' \in BOOLEAN, dumping' \in BOOLEAN, suspended' \in BOOLEAN, ChildKnown'
  PROVE  Core'
<1>1. "server" \in Procs /\ "child" \in Procs /\ \A q \in Procs : q # "child" => q = "server"
  BY DEF Procs
<1>2. CoreOK'
  BY DEF Core, CoreOK, diskVars
<1>3. Alone'
  BY DEF Core, Alone, Running
<1>4. \A p \in Procs : Written(p)'
  <2>1. Written("server")'
    BY <1>1, WrittenStays DEF Core, CoreOK
  <2>2. Written("child")'
    <3>1. CASE proc'["child"] = proc["child"] \/ proc'["child"].pc \in {"none", "ok", "bad"}
      BY <3>1, <1>1, WrittenStays DEF Core, CoreOK
    <3>2. CASE /\ proc["child"].pc = "stream" /\ proc'["child"].pc = "stream"
               /\ proc'["child"].img = proc["child"].img
      BY <3>2, <1>1 DEF Core, Written, Running
    <3>. QED  BY <3>1, <3>2
  <2>. QED  BY <2>1, <2>2, <1>1
<1>5. Installed'
  BY InstalledStays DEF Core, CoreOK
<1>6. Promised'
  BY DEF Core, Promised, SavedStays, diskVars
<1>. QED  BY <1>2, <1>3, <1>4, <1>5, <1>6 DEF Core

\* The child is waited for: it has exited, so whatever becomes of the parent's notes no
\* running child is forgotten.
LEMMA ReapCore ==
  ASSUME Core, UNCHANGED <<up, store, drawn, diskVars, acked>>, faults' \in Nat,
         Reaped, saving' \in BOOLEAN, dumping' \in BOOLEAN
  PROVE  Core'
<1>1. "server" \in Procs /\ "child" \in Procs /\ None \in Proc /\ None.pc = "none"
  BY Records DEF Procs
<1>2. /\ proc' \in [Procs -> Proc] /\ proc'["server"] = proc["server"] /\ proc'["child"] = None
      /\ suspended' = FALSE
  BY <1>1 DEF Reaped, Core, CoreOK
<1>3. ChildKnown'
  BY <1>1, <1>2 DEF ChildKnown, Running
<1>. QED  BY <1>1, <1>2, <1>3, ChildCore, Zenon

\* Nothing changes but the client, the pipe and what the pump knows.
LEMMA QuietCore ==
  ASSUME Core, UNCHANGED <<up, store, drawn, diskVars, acked, proc, parentVars>>, faults' \in Nat
  PROVE  Core'
<1>1. ChildKnown'
  BY DEF Core, ChildKnown, Running, parentVars
<1>. QED  BY <1>1, ChildCore DEF Core, CoreOK, parentVars

\* A process that exits keeps only its image.
LEMMA Exits ==
  ASSUME CoreOK, NEW p \in Procs, NEW pc \in {"ok", "bad"}, Exit(p, pc)
  PROVE  /\ proc' \in [Procs -> Proc] /\ proc'[p].pc = pc /\ proc'[p].img = proc[p].img
         /\ \A q \in Procs : q # p => proc'[q] = proc[q]
<1>1. proc[p] \in Proc /\ 0 \in 0..Chunks /\ pc \in Steps
  BY ChunksAssumption DEF CoreOK, Steps
<1>2. proc' = [proc EXCEPT ![p] = [[[@ EXCEPT !.pc = pc] EXCEPT !.ino = 0] EXCEPT !.k = 0]]
  BY <1>1, Zenon DEF Exit, CoreOK
<1>3. [proc[p] EXCEPT !.pc = pc] \in Proc
  BY <1>1 DEF Proc
<1>4. [[proc[p] EXCEPT !.pc = pc] EXCEPT !.ino = 0] \in Proc
  BY <1>3, Zenon DEF Proc
<1>5. [[[proc[p] EXCEPT !.pc = pc] EXCEPT !.ino = 0] EXCEPT !.k = 0] \in Proc
  BY <1>1, <1>4, Zenon DEF Proc
<1>. QED  BY <1>1, <1>2, <1>5 DEF CoreOK, Proc

\* The faults are counted.
LEMMA FaultsNat ==
  ASSUME Core, Fault \/ NoFault
  PROVE  faults' \in Nat
  BY DEF Core, CoreOK, Fault, NoFault

\* The child of a dump writes to the pipe or exits.
LEMMA StreamCore ==
  ASSUME Core, Stream
  PROVE  Core'
<1>. DEFINE j == proc["child"]
<1>1. /\ j.pc = "stream" /\ UNCHANGED <<up, store, drawn, diskVars, acked, parentVars>>
      /\ \/ NoFault /\ j.k < Chunks /\ proc' = [proc EXCEPT !["child"].k = @ + 1]
         \/ NoFault /\ Exit("child", "ok")
         \/ (Fault \/ NoFault) /\ Exit("child", "bad")
  BY DEF Stream
<1>2. "server" \in Procs /\ "child" \in Procs /\ faults' \in Nat /\ j \in Proc
  BY <1>1, FaultsNat DEF Procs, Core, CoreOK
<1>3. /\ proc' \in [Procs -> Proc] /\ proc'["server"] = proc["server"]
      /\ \/ proc'["child"].pc \in {"ok", "bad"}
         \/ proc'["child"].pc = "stream" /\ proc'["child"].img = j.img
  <2>1. CASE NoFault /\ j.k < Chunks /\ proc' = [proc EXCEPT !["child"].k = @ + 1]
    <3>1. j.k + 1 \in 0..Chunks
      BY <2>1, <1>2, ChunksAssumption DEF Proc
    <3>2. [j EXCEPT !.k = j.k + 1] \in Proc
      BY <3>1, <1>2 DEF Proc
    <3>. QED  BY <2>1, <3>2, <1>1, <1>2 DEF Core, CoreOK, Proc
  <2>2. ASSUME NEW pc \in {"ok", "bad"}, Exit("child", pc)
        PROVE  /\ proc' \in [Procs -> Proc] /\ proc'["server"] = proc["server"]
               /\ proc'["child"].pc \in {"ok", "bad"}
    BY <2>2, <1>2, Exits DEF Core
  <2>. QED  BY <1>1, <2>1, <2>2
<1>4. ChildKnown'
  BY <1>1, <1>3 DEF Core, ChildKnown, Running, parentVars
<1>. QED  BY <1>1, <1>2, <1>3, <1>4, ChildCore DEF Core, CoreOK, parentVars

\* The pump forwards, or reaps the child.
LEMMA PumpCore ==
  ASSUME Core, pump
  PROVE  Core'
<1>1. UNCHANGED <<up, store, drawn, diskVars, saving, acked>>
  BY DEF pump
<1>2. CASE PumpRead
  <2>1. UNCHANGED <<proc, dumping, suspended>> /\ (Fault \/ NoFault)
    BY <1>2 DEF PumpRead
  <2>. QED  BY <2>1, <1>1, FaultsNat, QuietCore DEF parentVars
<1>3. CASE PumpReap \/ PumpOrphan
  <2>1. Reaped /\ dumping' = FALSE /\ NoFault
    BY <1>3 DEF PumpReap, PumpOrphan
  <2>. QED  BY <2>1, <1>1, FaultsNat, ReapCore, Zenon DEF Core, CoreOK
<1>. QED  BY <1>2, <1>3 DEF pump
-----------------------------------------------------------------------------
(* save_to_file. *)

InSave == {"open", "write", "sync", "rename", "undo"}
\* What a step of save_to_file leaves alone outside the files.
Outside == UNCHANGED <<up, store, drawn, parentVars, acked>>

\* Whoever is in save_to_file is the only one that writes.
LEMMA OnlyWriter ==
  ASSUME Core, NEW p \in Procs, proc[p].pc \in InSave, NEW q \in Procs, q # p
  PROVE  ~Running(q) /\ (p = "child" => proc["server"] = None)
         /\ (p = "server" => q = "child" /\ proc["server"] # None)
<1>1. proc[p] # None /\ Running(p)
  BY Records DEF InSave, Running
<1>2. CASE p = "server"
  BY <1>1, <1>2 DEF Core, Alone, Procs
<1>3. CASE p = "child"
  <2>1. proc["server"] = None /\ q = "server"
    BY <1>1, <1>3 DEF Core, Alone, Procs
  <2>. QED  BY <2>1, <1>3, Records DEF Running
<1>. QED  BY <1>2, <1>3 DEF Procs

\* A step of save_to_file concerns the process that takes it and the files.
LEMMA SaverCore ==
  ASSUME Core, NEW p \in Procs, proc[p].pc \in InSave, Outside, faults' \in Nat,
         proc' \in [Procs -> Proc], \A q \in Procs : q # p => proc'[q] = proc[q],
         proc'[p].img = proc[p].img,
         proc'[p].pc \in {"write", "sync", "rename", "undo", "ok", "bad"},
         disk' \in [Inodes -> Inode], tmp' \in Inodes \cup {0}, file' \in Inodes \cup {0},
         prev' \in Inodes \cup {0}, Written(p)', Installed', SavedStays',
         proc'[p].pc = "ok" => file' # 0 /\ \A c \in Chunk : disk'[file'].data[c] = proc[p].img
  PROVE  Core'
<1>1. CoreOK'
  BY DEF Core, CoreOK, Outside, parentVars
<1>2. "server" \in Procs /\ "child" \in Procs /\ Running(p) /\ proc[p].pc # "stream"
  BY DEF Procs, InSave, Running
<1>3. \A q \in Procs : q # p => ~Running(q) /\ proc'[q] = proc[q]
  BY OnlyWriter
<1>4. \A q \in Procs : Written(q)'
  BY <1>3 DEF Written, Running
<1>5. CASE p = "server"
  <2>1. proc["server"] # None /\ ~Running("child") /\ up /\ proc'["child"] = proc["child"]
    BY <1>2, <1>3, <1>5, OnlyWriter, Zenon DEF Core, Alone
  <2>2. ~Running("child")'
    BY <2>1, Zenon DEF Running
  <2>3. Alone'
    BY <2>1, <2>2, <1>5, Zenon DEF Alone, Outside
  <2>4. ChildKnown'
    BY <2>2 DEF Core, ChildKnown, Outside, parentVars
  <2>5. Promised'
    BY <2>1, <1>5, Zenon DEF Core, Promised, Outside
  <2>. QED  BY <1>1, <1>4, <2>3, <2>4, <2>5, Zenon DEF Core
<1>6. CASE p = "child"
  <2>1. proc["server"] = None /\ proc'["server"] = None /\ None.pc = "none"
    BY <1>2, <1>6, OnlyWriter, Records, Zenon
  <2>2. Alone'
    BY <2>1, Zenon DEF Alone
  <2>3. ChildKnown'
    BY <2>1, <1>2, <1>6, Zenon DEF Core, ChildKnown, Outside, parentVars
  <2>4. Promised'
    BY <2>1 DEF Core, Promised, Outside
  <2>. QED  BY <1>1, <1>4, <2>2, <2>3, <2>4 DEF Core
<1>. QED  BY <1>5, <1>6 DEF Procs

\* A step that fails, or ends without a file, changes no installed file.
LEMMA GiveUpCore ==
  ASSUME Core, NEW p \in Procs, proc[p].pc \in InSave, Outside, faults' \in Nat,
         Go(p, "undo") \/ Exit(p, "bad"),
         UNCHANGED <<disk, file, prev>>, tmp' = tmp \/ tmp' = 0
  PROVE  Core'
<1>1. /\ proc' \in [Procs -> Proc] /\ \A q \in Procs : q # p => proc'[q] = proc[q]
      /\ proc'[p].img = proc[p].img /\ proc'[p].pc \in {"undo", "bad"}
  <2>1. CASE Go(p, "undo")
    <3>1. [proc[p] EXCEPT !.pc = "undo"] \in Proc
      BY DEF Core, CoreOK, Proc, Steps
    <3>. QED  BY <2>1, <3>1 DEF Go, Core, CoreOK, Proc
  <2>2. CASE Exit(p, "bad")
    BY <2>2, Exits, Zenon DEF Core
  <2>. QED  BY <2>1, <2>2
<1>2. Written(p)'
  <2>1. Running(p)
    BY DEF InSave, Running
  <2>. QED  BY <2>1, <1>1 DEF Core, Written, Outside
<1>3. Installed'
  <2>. SUFFICES ASSUME NEW i \in {file, prev} \ {0}
                PROVE  Sound(i)'
    BY DEF Installed
  <2>1. Sound(i) /\ i # tmp'
    BY Zenon DEF Core, Installed, Sound
  <2>. QED  BY <2>1, SoundStays DEF Outside, Core, CoreOK
<1>4. SavedStays'
  BY DEF Core, Promised, SavedStays, Outside
<1>5. /\ disk' \in [Inodes -> Inode] /\ tmp' \in Inodes \cup {0} /\ file' \in Inodes \cup {0}
      /\ prev' \in Inodes \cup {0}
  BY DEF Core, CoreOK
<1>. QED  BY <1>1, <1>2, <1>3, <1>4, <1>5, SaverCore

\* A step that writes to path.tmp changes no installed file.
LEMMA WritesTmp ==
  ASSUME Core, Outside, NEW i \in Inodes, i \notin {file, prev}, NEW x,
         disk' = [disk EXCEPT ![i] = x], tmp' = i, UNCHANGED <<file, prev>>
  PROVE  Installed' /\ SavedStays'
<1>1. ASSUME NEW f \in {file, prev} \ {0}
      PROVE  Sound(f)' /\ disk'[f] = disk[f]
  <2>1. Sound(f) /\ f # i /\ f \in Inodes
    BY DEF Core, CoreOK, Installed
  <2>2. disk'[f] = disk[f]
    BY <2>1 DEF Core, CoreOK
  <2>. QED  BY <2>1, <2>2, SoundStays DEF Outside, Core, CoreOK
<1>2. Installed'
  BY <1>1 DEF Installed
<1>3. SavedStays'
  BY <1>1 DEF Core, Promised, SavedStays, Outside
<1>. QED  BY <1>2, <1>3

\* open: path.tmp is emptied or created.
LEMMA OpenCore ==
  ASSUME Core, NEW p \in Procs, Open(p), Outside
  PROVE  Core'
<1>1. proc[p].pc = "open" /\ proc[p].pc \in InSave /\ UNCHANGED <<file, prev>>
  BY DEF Open, InSave
<1>2. CASE Fault /\ Exit(p, "bad") /\ UNCHANGED <<disk, tmp>>
  BY <1>1, <1>2, FaultsNat, GiveUpCore
<1>3. CASE /\ NoFault
           /\ \E i \in Inodes :
                /\ IF tmp # 0 THEN i = tmp ELSE FirstFree(i)
                /\ disk' = [disk EXCEPT ![i] = Blank]
                /\ tmp' = i
                /\ proc' = [proc EXCEPT ![p].pc = "write", ![p].ino = i]
  <2>1. PICK i \in Inodes :
                /\ IF tmp # 0 THEN i = tmp ELSE FirstFree(i)
                /\ disk' = [disk EXCEPT ![i] = Blank]
                /\ tmp' = i
                /\ proc' = [proc EXCEPT ![p].pc = "write", ![p].ino = i]
    BY <1>3, Zenon
  <2>2. i \notin {file, prev} /\ i # 0
    BY <2>1, InodesAssumption DEF FirstFree, Free, Core, Installed, Sound
  <2>3. Installed' /\ SavedStays'
    BY <2>1, <2>2, <1>1, WritesTmp, Zenon
  <2>4. /\ proc' \in [Procs -> Proc] /\ \A q \in Procs : q # p => proc'[q] = proc[q]
        /\ proc'[p].img = proc[p].img /\ proc'[p].pc = "write" /\ proc'[p].ino = i
        /\ proc'[p].k = proc[p].k
    <3>1. proc[p] \in Proc
      BY DEF Core, CoreOK
    <3>2. [[proc[p] EXCEPT !.pc = "write"] EXCEPT !.ino = i] \in Proc
      BY <3>1, Zenon DEF Proc, Steps
    <3>3. proc' = [proc EXCEPT ![p] = [[@ EXCEPT !.pc = "write"] EXCEPT !.ino = i]]
      BY <2>1, Zenon
    <3>. QED  BY <3>1, <3>2, <3>3 DEF Core, CoreOK, Proc
  <2>5. Written(p)'
    <3>1. proc[p].k = 0 /\ Running(p)
      BY <1>1, Zenon DEF Core, Written, Running
    <3>2. proc[p].img \in 1..drawn' /\ acked' <= proc[p].img
      BY <3>1 DEF Core, Written, Outside
    <3>3. 1..proc[p].k = {} /\ 0 < Chunks
      BY <3>1, ChunksAssumption
    <3>. QED  BY <2>1, <2>2, <2>4, <3>1, <3>2, <3>3, Zenon DEF Written
  <2>6. disk' \in [Inodes -> Inode]
    BY <2>1, Records DEF Core, CoreOK
  <2>7. faults' \in Nat
    BY <1>3, FaultsNat
  <2>. QED  BY <1>1, <2>1, <2>3, <2>4, <2>5, <2>6, <2>7, SaverCore DEF Core, CoreOK
<1>. QED  BY <1>2, <1>3 DEF Open

\* A chunk is written.
LEMMA WriteCore ==
  ASSUME Core, NEW p \in Procs, WriteChunk(p), Outside
  PROVE  Core'
<1>. DEFINE k == proc[p].k + 1
            v == proc[p].img
            data == [disk[tmp].data EXCEPT ![k] = v]
<1>1. proc[p].pc = "write" /\ proc[p].pc \in InSave /\ UNCHANGED <<tmp, file, prev>>
  BY DEF WriteChunk, InSave
<1>2. CASE Fault /\ Go(p, "undo") /\ UNCHANGED disk
  BY <1>1, <1>2, FaultsNat, GiveUpCore, SMTT(30)
<1>3. CASE /\ NoFault
           /\ disk' = [disk EXCEPT ![proc[p].ino] =
                                      [data |-> [@.data EXCEPT ![k] = v], synced |-> FALSE]]
           /\ proc' = [proc EXCEPT ![p].k = k, ![p].pc = IF k = Chunks THEN "sync" ELSE "write"]
  <2>1. /\ tmp # 0 /\ proc[p].ino = tmp /\ proc[p].k < Chunks
        /\ \A c \in 1..proc[p].k : disk[tmp].data[c] = v
    BY <1>1, Zenon DEF Core, Written
  <2>2. tmp \in Inodes /\ tmp \notin {file, prev}
    BY <2>1 DEF Core, CoreOK, Installed, Sound
  <2>3. proc[p] \in Proc /\ proc[p].k \in 0..Chunks /\ v \in Nat /\ disk[tmp] \in Inode
        /\ disk[tmp].data \in [Chunk -> Nat]
    BY <2>2 DEF Core, CoreOK, Proc, Inode
  <2>4. k \in Chunk /\ k \in 0..Chunks /\ k \in Nat /\ Chunks \in Nat
    <3>1. \A n \in 0..Chunks :
            n < Chunks => n + 1 \in 1..Chunks /\ n + 1 \in 0..Chunks /\ n + 1 \in Nat
      BY ChunksAssumption
    <3>. QED  BY <3>1, <2>1, <2>3, ChunksAssumption, Zenon DEF Chunk
  <2>5. data \in [Chunk -> Nat] /\ \A c \in Chunk : data[c] = IF c = k THEN v ELSE disk[tmp].data[c]
    BY <2>3, <2>4
  <2>6. disk' = [disk EXCEPT ![tmp] = [data |-> data, synced |-> FALSE]]
    BY <1>3, <2>1, <2>2 DEF Core, CoreOK
  <2>7. disk' \in [Inodes -> Inode] /\ disk'[tmp].data = data
    BY <2>2, <2>5, <2>6 DEF Core, CoreOK, Inode
  <2>8. Installed' /\ SavedStays'
    BY <2>2, <2>6, <1>1, WritesTmp, Zenon
  <2>9. /\ proc' \in [Procs -> Proc] /\ \A q \in Procs : q # p => proc'[q] = proc[q]
        /\ proc'[p].img = v /\ proc'[p].ino = tmp /\ proc'[p].k = k
        /\ proc'[p].pc = IF k = Chunks THEN "sync" ELSE "write"
    <3>. DEFINE next == IF k = Chunks THEN "sync" ELSE "write"
    <3>1. next \in Steps
      BY DEF Steps
    <3>. HIDE DEF k, next
    <3>2. [[proc[p] EXCEPT !.k = k] EXCEPT !.pc = next] \in Proc
      BY <3>1, <2>3, <2>4, Zenon DEF Proc
    <3>3. proc' = [proc EXCEPT ![p] = [[@ EXCEPT !.k = k] EXCEPT !.pc = next]]
      BY <1>3, ZenonT(30) DEF next
    <3>4. proc'[p] = [[proc[p] EXCEPT !.k = k] EXCEPT !.pc = next]
      BY <3>3 DEF Core, CoreOK
    <3>5. proc \in [Procs -> Proc]
      BY DEF Core, CoreOK
    <3>6. proc' \in [Procs -> Proc] /\ \A q \in Procs : q # p => proc'[q] = proc[q]
      BY <3>2, <3>3, <3>5
    <3>7. proc'[p].img = v /\ proc'[p].ino = tmp /\ proc'[p].k = k /\ proc'[p].pc = next
      BY <3>4, <2>1, <2>3, Zenon DEF Proc
    <3>. QED  BY <3>6, <3>7 DEF next
  <2>10. \A c \in 1..k : disk'[tmp].data[c] = v
    BY <2>1, <2>3, <2>4, <2>5, <2>7 DEF Chunk
  <2>11. Written(p)'
    <3>1. v \in 1..drawn' /\ acked' <= v
      BY <1>1, Zenon DEF Core, Written, Running, Outside
    <3>2. k = Chunks \/ k < Chunks
      BY <2>4 DEF Chunk
    <3>3. tmp' = tmp
      BY <1>1
    <3>. HIDE DEF k, v
    <3>. QED  BY <3>1, <3>2, <3>3, <2>1, <2>9, <2>10, Zenon DEF Written, Chunk
  <2>12. faults' \in Nat
    BY <1>3, FaultsNat, Zenon
  <2>13. proc'[p].pc \in {"write", "sync"}
    BY <2>9
  <2>14. /\ tmp' \in Inodes \cup {0} /\ file' \in Inodes \cup {0} /\ prev' \in Inodes \cup {0}
         /\ proc'[p].pc \in {"write", "sync", "rename", "undo", "ok", "bad"} /\ proc'[p].pc # "ok"
    BY <1>1, <2>13 DEF Core, CoreOK
  <2>. QED  BY <1>1, <2>7, <2>8, <2>9, <2>11, <2>12, <2>14, SaverCore, Zenon
<1>. QED  BY <1>2, <1>3 DEF WriteChunk

\* fsync
LEMMA SyncCore ==
  ASSUME Core, NEW p \in Procs, Sync(p), Outside
  PROVE  Core'
<1>1. proc[p].pc = "sync" /\ proc[p].pc \in InSave /\ UNCHANGED <<tmp, file, prev>>
  BY DEF Sync, InSave
<1>2. CASE Fault /\ Go(p, "undo") /\ UNCHANGED disk
  BY <1>1, <1>2, FaultsNat, GiveUpCore, Zenon
<1>3. CASE NoFault /\ disk' = [disk EXCEPT ![proc[p].ino].synced = TRUE] /\ Go(p, "rename")
  <2>1. /\ tmp # 0 /\ proc[p].ino = tmp /\ \A c \in Chunk : disk[tmp].data[c] = proc[p].img
    BY <1>1, Zenon DEF Core, Written
  <2>2. tmp \in Inodes /\ tmp \notin {file, prev} /\ disk[tmp] \in Inode
    BY <2>1 DEF Core, CoreOK, Installed, Sound
  <2>3. disk' = [disk EXCEPT ![tmp] = [disk[tmp] EXCEPT !.synced = TRUE]]
    BY <1>3, <2>1, <2>2 DEF Core, CoreOK
  <2>4. [disk[tmp] EXCEPT !.synced = TRUE] \in Inode
    BY <2>2, Zenon DEF Inode
  <2>5. disk' \in [Inodes -> Inode] /\ disk'[tmp].data = disk[tmp].data /\ disk'[tmp].synced
    BY <2>2, <2>3, <2>4 DEF Core, CoreOK, Inode
  <2>6. Installed' /\ SavedStays'
    BY <2>2, <2>3, <1>1, WritesTmp, Zenon
  <2>7. /\ proc' \in [Procs -> Proc] /\ \A q \in Procs : q # p => proc'[q] = proc[q]
        /\ proc'[p].img = proc[p].img /\ proc'[p].ino = tmp /\ proc'[p].pc = "rename"
    <3>1. [proc[p] EXCEPT !.pc = "rename"] \in Proc
      BY Zenon DEF Core, CoreOK, Proc, Steps
    <3>2. proc' = [proc EXCEPT ![p] = [proc[p] EXCEPT !.pc = "rename"]]
      BY <1>3 DEF Go
    <3>. QED  BY <3>1, <3>2, <2>1 DEF Core, CoreOK, Proc
  <2>8. Written(p)'
    <3>1. proc[p].img \in 1..drawn' /\ acked' <= proc[p].img
      BY <1>1 DEF Core, Written, Running, Outside
    <3>. QED  BY <3>1, <1>1, <2>1, <2>5, <2>7, Zenon DEF Written
  <2>9. faults' \in Nat
    BY <1>3, FaultsNat, Zenon
  <2>. QED  BY <1>1, <2>5, <2>6, <2>7, <2>8, <2>9, SaverCore, Zenon DEF Core, CoreOK
<1>. QED  BY <1>2, <1>3 DEF Sync

\* rename: the file that was just written and synced becomes the snapshot.
LEMMA RenameCore ==
  ASSUME Core, NEW p \in Procs, Rename(p), Outside
  PROVE  Core'
<1>1. /\ proc[p].pc = "rename" /\ proc[p].pc \in InSave /\ disk' = disk
      /\ \/ tmp # 0 /\ NoFault /\ prev' = file /\ file' = tmp /\ tmp' = 0 /\ Exit(p, "ok")
         \/ (Fault \/ NoFault) /\ Go(p, "undo") /\ UNCHANGED <<tmp, file, prev>>
  BY DEF Rename, InSave
<1>2. CASE (Fault \/ NoFault) /\ Go(p, "undo") /\ UNCHANGED <<tmp, file, prev>>
  BY <1>1, <1>2, FaultsNat, GiveUpCore, Zenon
<1>3. CASE tmp # 0 /\ NoFault /\ prev' = file /\ file' = tmp /\ tmp' = 0 /\ Exit(p, "ok")
  <2>1. /\ tmp # 0 /\ disk[tmp].synced /\ \A c \in Chunk : disk[tmp].data[c] = proc[p].img
        /\ proc[p].img \in 1..drawn /\ acked <= proc[p].img
    BY <1>1, Zenon DEF Core, Written, Running
  <2>2. /\ proc' \in [Procs -> Proc] /\ \A q \in Procs : q # p => proc'[q] = proc[q]
        /\ proc'[p].img = proc[p].img /\ proc'[p].pc = "ok"
    BY <1>3, Exits DEF Core
  <2>3. Installed'
    <3>. SUFFICES ASSUME NEW i \in {tmp, file} \ {0}
                  PROVE  Sound(i)'
      BY <1>3 DEF Installed
    <3>1. CASE i = tmp
      BY <3>1, <2>1, <1>1, <1>3 DEF Sound, Whole, Outside
    <3>2. CASE i = file
      <4>1. Sound(i) /\ i # tmp'
        BY <3>2, <1>3, Zenon DEF Core, Installed
      <4>. QED  BY <4>1, <1>1, SoundStays DEF Outside, Core, CoreOK
    <3>. QED  BY <3>1, <3>2
  <2>4. SavedStays'
    BY <2>1, <1>1, <1>3, Zenon DEF SavedStays, Outside, Core, CoreOK
  <2>5. Written(p)'
    BY <2>2 DEF Written, Running
  <2>6. faults' \in Nat
    BY <1>3, FaultsNat, Zenon
  <2>7. file' # 0 /\ \A c \in Chunk : disk'[file'].data[c] = proc[p].img
    BY <2>1, <1>1, <1>3
  <2>8. /\ disk' \in [Inodes -> Inode] /\ tmp' \in Inodes \cup {0} /\ file' \in Inodes \cup {0}
        /\ prev' \in Inodes \cup {0}
    BY <1>1, <1>3 DEF Core, CoreOK
  <2>. QED  BY <1>1, <2>2, <2>3, <2>4, <2>5, <2>6, <2>7, <2>8, SaverCore, Zenon
<1>. QED  BY <1>1, <1>2, <1>3

\* unlink
LEMMA UndoCore ==
  ASSUME Core, NEW p \in Procs, Undo(p), Outside
  PROVE  Core'
  BY FaultsNat, GiveUpCore DEF Undo, InSave

\* Every step of save_to_file.
LEMMA SaveToFileCore ==
  ASSUME Core, NEW p \in Procs, save_to_file(p)
  PROVE  Core'
<1>1. Outside
  BY DEF save_to_file, Outside
<1>. QED  BY <1>1, OpenCore, WriteCore, SyncCore, RenameCore, UndoCore DEF save_to_file
-----------------------------------------------------------------------------
(* Crashes. *)

\* The server crashes; a child that runs goes on.
LEMMA CrashCore ==
  ASSUME Core, Crash
  PROVE  Core'
<1>1. /\ up' = FALSE /\ saving' = FALSE /\ dumping' = FALSE /\ suspended' = FALSE
      /\ proc' = [proc EXCEPT !["server"] = None, !["child"] = IF Running("child") THEN @ ELSE None]
      /\ UNCHANGED <<store, drawn, diskVars, acked>> /\ Fault
  BY DEF Crash
<1>2. "server" \in Procs /\ "child" \in Procs /\ None \in Proc /\ None.pc = "none"
      /\ \A q \in Procs : q \in {"server", "child"}
  BY Records DEF Procs
<1>3. /\ proc' \in [Procs -> Proc] /\ proc'["server"] = None
      /\ proc'["child"] = proc["child"] \/ proc'["child"] = None
  BY <1>1, <1>2 DEF Core, CoreOK
<1>4. CoreOK'
  BY <1>1, <1>3, FaultsNat, Zenon DEF Core, CoreOK, diskVars
<1>5. Alone' /\ ChildKnown'
  BY <1>1, <1>2, <1>3 DEF Alone, ChildKnown
<1>6. \A p \in Procs : Written(p)'
  BY <1>1, <1>2, <1>3, WrittenStays DEF Core, CoreOK
<1>7. Installed'
  BY <1>1, InstalledStays DEF Core, CoreOK
<1>8. Promised'
  BY <1>1, <1>2, <1>3 DEF Core, Promised, SavedStays, diskVars
<1>. QED  BY <1>4, <1>5, <1>6, <1>7, <1>8 DEF Core

\* A power failure: what is installed is synced and survives, under its old name or its new.
LEMMA PowerLossCore ==
  ASSUME Core, PowerLoss
  PROVE  Core'
<1>1. /\ up' = FALSE /\ saving' = FALSE /\ dumping' = FALSE /\ suspended' = FALSE
      /\ proc' = [p \in Procs |-> None] /\ acked' = 0 /\ Fault
      /\ store' = store /\ drawn' = drawn /\ prev' = file'
      /\ \/ UNCHANGED <<tmp, file>>
         \/ file # prev /\ tmp' = file /\ file' = prev
  BY DEF PowerLoss
<1>2. PICK lost \in [{tmp, file} \ {0} -> SUBSET Chunk] :
       disk' = [i \in Inodes |->
         IF disk[i].synced \/ i \notin {tmp, file} THEN disk[i]
         ELSE [disk[i] EXCEPT !.data = [c \in Chunk |-> IF c \in lost[i] THEN 0 ELSE @[c]]]]
  BY Zenon DEF PowerLoss
<1>3. "server" \in Procs /\ "child" \in Procs /\ None \in Proc /\ None.pc = "none"
      /\ \A p \in Procs : proc'[p] = None
  BY <1>1, Records DEF Procs
<1>4. disk' \in [Inodes -> Inode]
  <2>1. ASSUME NEW i \in Inodes
        PROVE  disk'[i] \in Inode
    <3>1. disk[i] \in Inode /\ disk[i].data \in [Chunk -> Nat]
      BY DEF Core, CoreOK, Inode
    <3>. DEFINE d == [c \in Chunk |-> IF c \in lost[i] THEN 0 ELSE disk[i].data[c]]
    <3>2. d \in [Chunk -> Nat]
      BY <3>1
    <3>3. [disk[i] EXCEPT !.data = d] \in Inode
      BY <3>1, <3>2 DEF Inode
    <3>4. disk'[i] = disk[i] \/ disk'[i] = [disk[i] EXCEPT !.data = d]
      BY <1>2
    <3>. QED  BY <3>1, <3>3, <3>4
  <2>. QED  BY <2>1, <1>2
<1>5. CoreOK'
  BY <1>1, <1>3, <1>4, FaultsNat, ZenonT(30) DEF Core, CoreOK
<1>6. Alone' /\ ChildKnown' /\ \A p \in Procs : Written(p)'
  BY <1>1, <1>3 DEF Alone, ChildKnown, Written, Running
<1>7. Installed'
  <2>1. ASSUME NEW i \in {file, prev} \ {0}
        PROVE  Sound(i) /\ disk'[i] = disk[i]
    BY <1>2 DEF Core, CoreOK, Installed, Sound
  <2>. SUFFICES ASSUME NEW i \in {file', prev'} \ {0}
                PROVE  Sound(i)'
    BY Zenon DEF Installed
  <2>2. i \in {file, prev} \ {0} /\ i # tmp'
    BY <1>1, <2>1, Zenon DEF Sound
  <2>. QED  BY <2>1, <2>2, <1>1, SoundStays DEF Core, CoreOK
<1>8. Promised'
  BY <1>1, <1>3 DEF Core, CoreOK, Promised, SavedStays
<1>. QED  BY <1>5, <1>6, <1>7, <1>8 DEF Core

\* A restart: no orphan runs, and what is loaded is not older than what SAVE answered.
LEMMA RestartCore ==
  ASSUME SharedListener, Core, Restart
  PROVE  Core'
<1>1. /\ ~up /\ ~Running("child") /\ up' = TRUE
      /\ IF file = 0 THEN store' = drawn + 1 /\ drawn' = drawn + 1
         ELSE Whole(file) /\ store' = disk[file].data[1] /\ drawn' = drawn
      /\ UNCHANGED diskVars /\ proc' = proc /\ saving' = saving /\ dumping' = dumping
      /\ suspended' = suspended /\ acked' = acked /\ faults' = faults
  BY Zenon DEF Restart, parentVars
<1>2. proc["server"] = None /\ proc'["server"] = None /\ None.pc = "none"
  BY <1>1, Records DEF Core, Alone
<1>3. store' \in 1..drawn' /\ acked' <= store' /\ drawn' \in Nat /\ drawn <= drawn'
  <2>1. CASE file = 0
    BY <2>1, <1>1 DEF Core, CoreOK, Promised, SavedStays
  <2>2. CASE file # 0
    <3>1. 1 \in Chunk
      BY ChunksAssumption DEF Chunk
    <3>2. disk[file].data[1] \in 1..drawn
      BY <2>2, <3>1, <1>1 DEF Whole
    <3>3. acked # 0 => disk[file].data[1] >= acked
      BY <2>2, <3>1, Zenon DEF Core, Promised, SavedStays
    <3>. QED  BY <2>2, <3>2, <3>3, <1>1 DEF Core, CoreOK
  <2>. QED  BY <2>1, <2>2, Zenon
<1>4. CoreOK'
  BY <1>1, <1>3 DEF Core, CoreOK, diskVars
<1>5. Alone'
  BY <1>2, Zenon DEF Alone
<1>6. ChildKnown'
  BY <1>1, Zenon DEF Core, ChildKnown, Running
<1>7. \A p \in Procs : Written(p)'
  BY <1>1, <1>3, WrittenStays DEF Core, CoreOK
<1>8. Installed'
  BY <1>1, <1>3, InstalledStays, Zenon DEF Core
<1>9. Promised'
  BY <1>1, <1>2, <1>3 DEF Core, Promised, SavedStays, diskVars
<1>. QED  BY <1>4, <1>5, <1>6, <1>7, <1>8, <1>9, SMTT(30) DEF Core
-----------------------------------------------------------------------------
(* The dump, and all steps together. *)

\* What is forwarded to a client keeps its type, and the pipe its limit.
LEMMA DumpTypes ==
  ASSUME CoreOK, DumpOK, [Next]_vars
  PROVE  DumpOK'
<1>1. CASE UNCHANGED dumpVars
  BY <1>1, SMTT(30) DEF DumpOK, dumpVars
<1>2. CASE UNCHANGED vars \/ Mutate \/ save_file \/ AnswerSave \/ AlreadyRunning
           \/ start_background_save \/ (\E p \in Procs : save_to_file(p))
           \/ reap_background_save \/ OrphanGone \/ Restart
  BY <1>1, <1>2 DEF vars, Mutate, save_file, AnswerSave, AlreadyRunning,
       start_background_save, save_to_file, reap_background_save, OrphanGone, Restart, dumpVars
<1>3. <<>> \in Seq(Piece) /\ Len(<<>>) = 0 /\ 0 <= PipeChunks
  BY ChunksAssumption
<1>4. CASE start_background_dump
  <2>1. [NoDump EXCEPT !.session = TRUE, !.reading = TRUE] \in Dump
    BY Zenon DEF NoDump, Dump
  <2>2. [NoClient EXCEPT !.status = "stream"] \in Client
    BY Records DEF Client
  <2>. QED  BY <2>1, <2>2, <1>3, <1>4 DEF start_background_dump, DumpOK
<1>5. CASE Crash \/ PowerLoss
  BY <1>3, <1>5, Records, Zenon DEF Crash, PowerLoss, DumpOK
<1>6. CASE Stream
  <2>. DEFINE j == proc["child"]
              next == [img |-> j.img, k |-> j.k + 1]
  <2>1. dump' = dump /\ client' = client
        /\ (pipe' = pipe \/ (PipeRoom /\ pipe' = Append(pipe, next)))
    BY <1>6 DEF Stream
  <2>2. next \in Piece
    <3>1. j \in Proc
      BY DEF CoreOK, Procs
    <3>2. j.img \in Nat /\ j.k \in Nat
      BY <3>1, ChunksAssumption DEF Proc
    <3>. QED  BY <3>2 DEF Piece
  <2>. HIDE DEF next
  <2>3. PipeRoom => Len(Append(pipe, next)) <= PipeChunks
    BY <2>2, ChunksAssumption DEF PipeRoom, DumpOK
  <2>. QED  BY <2>1, <2>2, <2>3 DEF DumpOK
<1>7. CASE write_client
  <2>1. client.got \in Seq(Piece) /\ client.out \in Seq(Piece) /\ client \in Client
    BY DEF DumpOK, Client
  <2>2. client.got \o client.out \in Seq(Piece)
    BY <2>1
  <2>3. [[client EXCEPT !.got = client.got \o client.out] EXCEPT !.out = <<>>] \in Client
    BY <2>1, <2>2, <1>3, Zenon DEF Client
  <2>4. client' = [[client EXCEPT !.got = client.got \o client.out] EXCEPT !.out = <<>>]
        /\ dump' = dump /\ pipe' = pipe
    BY <1>7 DEF write_client
  <2>. QED  BY <2>3, <2>4 DEF DumpOK
<1>8. CASE close_client
  <2>1. client' = NoClient /\ dump' \in Dump /\ (pipe' = pipe \/ pipe' = <<>>)
    BY <1>8, Zenon DEF close_client, remove, DumpOK, Dump
  <2>. QED  BY <2>1, <1>3, Records, Zenon DEF DumpOK
<1>9. CASE pump
  <2>1. CASE PumpRead
    <3>1. dump' \in Dump
      BY <2>1, Zenon DEF PumpRead, DumpOK, Dump
    <3>2. client' \in Client
      BY <2>1 DEF PumpRead, DumpOK, Client
    <3>3. pipe' = pipe \/ pipe' = <<>>
      BY <2>1 DEF PumpRead
    <3>. QED  BY <3>1, <3>2, <3>3, <1>3, Zenon DEF DumpOK
  <2>2. CASE PumpReap
    <3>1. dump' \in Dump /\ pipe' = pipe
      BY <2>2, Zenon DEF PumpReap, DumpOK, Dump
    <3>2. client' \in Client
      <4>1. <<End>> \in Seq(Piece)
        BY Records
      <4>. QED  BY <2>2, <4>1, Zenon DEF PumpReap, DumpOK, Client
    <3>. QED  BY <3>1, <3>2 DEF DumpOK
  <2>3. CASE PumpOrphan
    BY <2>3, Zenon DEF PumpOrphan, DumpOK, Dump
  <2>. QED  BY <2>1, <2>2, <2>3, <1>9 DEF pump
<1>. QED  BY <1>2, <1>4, <1>5, <1>6, <1>7, <1>8, <1>9 DEF Next

\* Every step preserves IInv.
LEMMA NextIInv ==
  ASSUME SharedListener, IInv, [Next]_vars
  PROVE  IInv'
<1>. USE DEF IInv
<1>1. CASE UNCHANGED vars \/ AlreadyRunning
  <2>1. UNCHANGED vars
    BY <1>1 DEF AlreadyRunning
  <2>2. UNCHANGED <<up, store, drawn, diskVars, acked, proc, parentVars>> /\ faults' \in Nat
    BY <2>1 DEF vars, diskVars, parentVars, Core, CoreOK
  <2>. QED  BY <2>2, QuietCore, DumpTypes DEF Core
<1>2. CASE Mutate \/ save_file \/ AnswerSave
  BY <1>2, MutateCore, SaveCore, AnswerCore, DumpTypes DEF Core
<1>3. CASE start_background_save
  <2>1. /\ Idle /\ ~saving /\ ~dumping /\ dumping' = FALSE /\ saving' = TRUE /\ suspended' = TRUE
        /\ proc' = [proc EXCEPT !["child"] = Job("open", store)]
        /\ UNCHANGED <<up, store, drawn, diskVars, acked, faults>>
    BY <1>3 DEF start_background_save, background_snapshot_in_progress, Core, CoreOK
  <2>2. Core'
    BY <2>1, ForkCore, Zenon
  <2>. QED  BY <2>2, DumpTypes DEF Core
<1>4. CASE start_background_dump
  <2>1. /\ Idle /\ ~saving /\ ~dumping /\ dumping' = TRUE /\ saving' = FALSE /\ suspended' = TRUE
        /\ proc' = [proc EXCEPT !["child"] = Job("stream", store)]
        /\ UNCHANGED <<up, store, drawn, diskVars, acked, faults>>
    BY <1>4 DEF start_background_dump, background_snapshot_in_progress, Core, CoreOK
  <2>2. Core'
    BY <2>1, ForkCore, Zenon
  <2>. QED  BY <2>2, DumpTypes DEF Core
<1>5. CASE \E p \in Procs : save_to_file(p)
  BY <1>5, SaveToFileCore, DumpTypes DEF Core
<1>6. CASE Stream \/ pump
  BY <1>6, StreamCore, PumpCore, DumpTypes DEF Core
<1>7. CASE reap_background_save
  <2>1. /\ Reaped /\ saving' = FALSE /\ dumping' = dumping
        /\ UNCHANGED <<up, store, drawn, diskVars, acked, faults>>
    BY <1>7, SMTT(30) DEF reap_background_save
  <2>2. Core'
    BY <2>1, ReapCore, ZenonT(30) DEF Core, CoreOK
  <2>. QED  BY <2>2, DumpTypes DEF Core
<1>8. CASE write_client
  <2>1. UNCHANGED <<up, store, drawn, diskVars, acked, proc, parentVars>> /\ faults' \in Nat
    BY <1>8 DEF write_client, Core, CoreOK
  <2>. QED  BY <2>1, QuietCore, DumpTypes DEF Core
<1>9. CASE close_client
  <2>1. UNCHANGED <<up, store, drawn, diskVars, acked, proc, parentVars>> /\ faults' \in Nat
    BY <1>9 DEF close_client, remove, parentVars, Core, CoreOK
  <2>. QED  BY <2>1, QuietCore, DumpTypes DEF Core
<1>10. CASE OrphanGone
  <2>1. /\ UNCHANGED <<up, store, drawn, diskVars, acked, faults, parentVars>>
        /\ proc' = [proc EXCEPT !["child"] = None] /\ ~saving /\ ~dumping
    BY <1>10 DEF OrphanGone, background_snapshot_in_progress
  <2>2. "server" \in Procs /\ "child" \in Procs /\ None \in Proc /\ None.pc = "none"
    BY Records DEF Procs
  <2>3. /\ proc' \in [Procs -> Proc] /\ proc'["server"] = proc["server"] /\ proc'["child"] = None
    BY <2>1, <2>2 DEF Core, CoreOK
  <2>4. ChildKnown'
    BY <2>1, <2>2, <2>3, Zenon DEF Core, ChildKnown, Running, parentVars
  <2>5. Core'
    BY <2>1, <2>2, <2>3, <2>4, ChildCore DEF Core, CoreOK, parentVars
  <2>. QED  BY <2>5, DumpTypes DEF Core
<1>11. CASE Crash \/ PowerLoss \/ Restart
  BY <1>11, CrashCore, PowerLossCore, RestartCore, DumpTypes DEF Core
<1>. QED
  BY <1>1, <1>2, <1>3, <1>4, <1>5, <1>6, <1>7, <1>8, <1>9, <1>10, <1>11 DEF Next
-----------------------------------------------------------------------------
(* What the client of a dump has got. *)

\* Piece n, and the pieces a+1 .. b of image v.
At(v, n) == [img |-> v, k |-> n]
Seg(v, a, b) == [i \in 1..(b - a) |-> At(v, a + i)]

\* The client has the pieces up to a, its session those up to b, the pipe those up to n.
Flow(v, a, b, n) ==
  /\ a <= b /\ b <= n
  /\ client.got = Seg(v, 0, a) /\ client.out = Seg(v, a, b) /\ pipe = Seg(v, b, n)

InFlight ==
  LET j == proc["child"]
  IN /\ j.pc \in {"stream", "ok", "bad"}
     /\ \E a, b, n \in Nat :
          /\ Flow(j.img, a, b, n)
          /\ j.pc = "stream" => n = j.k
          /\ j.pc = "ok" => n = Chunks
     /\ dump.pipe_eof /\ ~dump.read_failed => pipe = <<>> /\ j.pc # "stream"

Ended(v) ==
  \/ client.got = Seg(v, 0, Chunks) /\ client.out = <<End>>
  \/ client.got = Append(Seg(v, 0, Chunks), End) /\ client.out = <<>>

\* As long as the dump has a session the image is in flight, in order; then the client has all
\* of it and the terminator, or a part and no terminator.
Delivered ==
  /\ client.status = "stream" <=> dump.session
  /\ client.status = "idle" => client = NoClient
  /\ dump.session => dumping /\ InFlight
  /\ client.status = "quit" => \E v : Ended(v)
  /\ client.status = "close" => client.out = <<>> /\ \E v : \E n \in Nat : client.got = Seg(v, 0, n)
  /\ dumping => ~saving

\* A function on 1 .. n with values in S is a sequence of n elements of S.
LEMMA SeqOfFunction ==
  ASSUME NEW S, NEW n \in Nat, NEW f \in [1 .. n -> S]
  PROVE  f \in Seq(S) /\ Len(f) = n
  OBVIOUS

\* A segment is a sequence of pieces of its image.
LEMMA SegSeq ==
  ASSUME NEW v, NEW a \in Nat, NEW b \in Nat, a <= b
  PROVE  /\ Seg(v, a, b) \in Seq([img : {v}, k : Nat]) /\ Len(Seg(v, a, b)) = b - a
         /\ \A i \in 1..(b - a) : Seg(v, a, b)[i] = At(v, a + i)
<1>. DEFINE P == [img : {v}, k : Nat]
            m == b - a
<1>1. m \in Nat /\ Seg(v, a, b) = [i \in 1..m |-> At(v, a + i)]
  BY DEF Seg
<1>2. \A i \in 1..m : At(v, a + i) \in P
  BY DEF At
<1>. HIDE DEF m, P
<1>3. Seg(v, a, b) \in [1..m -> P]
  BY <1>1, <1>2
<1>4. Seg(v, a, b) \in Seq(P) /\ Len(Seg(v, a, b)) = m
  BY <1>1, <1>3, SeqOfFunction, Zenon
<1>. QED  BY <1>1, <1>4 DEF m, P

\* Segments of an image join.
LEMMA SegJoin ==
  ASSUME NEW v, NEW a \in Nat, NEW b \in Nat, a <= b
  PROVE  Seg(v, 0, a) \o Seg(v, a, b) = Seg(v, 0, b)
<1>. DEFINE P == [img : {v}, k : Nat]
            l == Seg(v, 0, a)
            r == Seg(v, a, b)
            t == Seg(v, 0, b)
<1>1. l \in Seq(P) /\ Len(l) = a /\ \A i \in 1..a : l[i] = At(v, i)
  <2>1. 0 \in Nat /\ 0 <= a /\ a - 0 = a
    OBVIOUS
  <2>2. l \in Seq(P) /\ Len(l) = a - 0 /\ \A i \in 1..(a - 0) : l[i] = At(v, 0 + i)
    BY <2>1, SegSeq, Zenon
  <2>3. ASSUME NEW i \in 1..a PROVE 0 + i = i
    OBVIOUS
  <2>. QED  BY <2>1, <2>2, <2>3
<1>2. r \in Seq(P) /\ Len(r) = b - a /\ \A i \in 1..(b - a) : r[i] = At(v, a + i)
  BY SegSeq, Zenon
<1>3. t \in Seq(P) /\ Len(t) = b /\ \A i \in 1..b : t[i] = At(v, i)
  <2>1. 0 \in Nat /\ 0 <= b /\ b - 0 = b
    OBVIOUS
  <2>2. t \in Seq(P) /\ Len(t) = b - 0 /\ \A i \in 1..(b - 0) : t[i] = At(v, 0 + i)
    BY <2>1, SegSeq, Zenon
  <2>3. ASSUME NEW i \in 1..b PROVE 0 + i = i
    OBVIOUS
  <2>. QED  BY <2>1, <2>2, <2>3
<1>. HIDE DEF l, r, t, P
<1>4. l \o r \in Seq(P) /\ Len(l \o r) = Len(l) + Len(r)
      /\ \A i \in 1 .. Len(l) + Len(r) : (l \o r)[i] = IF i <= Len(l) THEN l[i] ELSE r[i - Len(l)]
  BY <1>1, <1>2, ConcatProperties, Zenon
<1>5. Len(l) + Len(r) = b
  BY <1>1, <1>2
<1>6. ASSUME NEW i \in 1..b
      PROVE  (l \o r)[i] = t[i]
  <2>1. CASE i <= a
    BY <2>1, <1>1, <1>3, <1>4, <1>5
  <2>2. CASE ~(i <= a)
    <3>1. i - a \in 1..(b - a) /\ a + (i - a) = i
      BY <2>2
    <3>2. (l \o r)[i] = r[i - a]
      BY <2>2, <1>1, <1>4, <1>5
    <3>. QED  BY <3>1, <3>2, <1>2, <1>3
  <2>. QED  BY <2>1, <2>2, Zenon
<1>7. l \o r = t
  BY <1>3, <1>4, <1>5, <1>6, SeqEqual, Zenon
<1>. QED  BY <1>7 DEF l, r, t

\* A segment grows by a piece.
LEMMA SegAppend ==
  ASSUME NEW v, NEW a \in Nat, NEW b \in Nat, a <= b
  PROVE  Append(Seg(v, a, b), At(v, b + 1)) = Seg(v, a, b + 1)
<1>. DEFINE P == [img : {v}, k : Nat]
            x == At(v, b + 1)
            l == Seg(v, a, b)
            t == Seg(v, a, b + 1)
            m == b - a
<1>1. /\ m \in Nat /\ b + 1 - a = m + 1 /\ a + (m + 1) = b + 1 /\ b + 1 \in Nat /\ a <= b + 1
      /\ x \in P
  BY DEF At
<1>2. l \in Seq(P) /\ Len(l) = m /\ \A i \in 1..m : l[i] = At(v, a + i)
  BY SegSeq, Zenon
<1>3. t \in Seq(P) /\ Len(t) = m + 1 /\ \A i \in 1..(m + 1) : t[i] = At(v, a + i)
  <2>1. PICK e \in Nat : e = b + 1 /\ a <= e
    BY <1>1
  <2>2. Seg(v, a, e) \in Seq(P) /\ Len(Seg(v, a, e)) = e - a
        /\ \A i \in 1..(e - a) : Seg(v, a, e)[i] = At(v, a + i)
    BY <2>1, SegSeq, Zenon
  <2>3. e - a = m + 1
    BY <2>1, <1>1
  <2>. QED  BY <2>1, <2>2, <2>3, Zenon
<1>4. t[m + 1] = x
  <2>1. m + 1 \in 1..(m + 1)
    BY <1>1
  <2>. QED  BY <2>1, <1>1, <1>3, Zenon
<1>. HIDE DEF l, t, P, m, x
<1>5. Append(l, x) \in Seq(P) /\ Len(Append(l, x)) = m + 1
      /\ (\A i \in 1..m : Append(l, x)[i] = l[i]) /\ Append(l, x)[m + 1] = x
  BY <1>1, <1>2, AppendProperties
<1>6. ASSUME NEW i \in 1..(m + 1)
      PROVE  Append(l, x)[i] = t[i]
  <2>1. i = m + 1 \/ i \in 1..m
    BY <1>1
  <2>2. i \in 1..m => t[i] = l[i]
    BY <1>2, <1>3
  <2>. QED  BY <2>1, <2>2, <1>4, <1>5
<1>7. Append(l, x) = t
  BY <1>3, <1>5, <1>6, SeqEqual
<1>. QED  BY <1>7 DEF l, t, x

\* A segment without pieces.
LEMMA SegEmpty ==
  ASSUME NEW v, NEW a \in Nat
  PROVE  Seg(v, a, a) = <<>>
<1>1. 1..(a - a) = {}
  OBVIOUS
<1>. QED  BY <1>1 DEF Seg

\* A segment that is empty ends where it begins.
LEMMA SegNonempty ==
  ASSUME NEW v, NEW a \in Nat, NEW b \in Nat, a <= b, Seg(v, a, b) = <<>>
  PROVE  a = b
<1>1. DOMAIN Seg(v, a, b) = 1..(b - a) /\ DOMAIN <<>> = {}
  BY DEF Seg
<1>2. a < b => 1 \in 1..(b - a)
  BY SMTT(30)
<1>. QED  BY <1>1, <1>2

\* Nothing is delivered or lost while neither the dump nor its child changes.
LEMMA DeliveredQuiet ==
  ASSUME Delivered, UNCHANGED dumpVars, dumping' = dumping, saving' = saving,
         proc'["child"] = proc["child"]
  PROVE  Delivered'
<1>1. client' = client /\ dump' = dump /\ pipe' = pipe
  BY DEF dumpVars
<1>2. dump.session => dumping' /\ InFlight'
  BY <1>1, Zenon DEF Delivered, InFlight, Flow
<1>3. client.status = "quit" => \E v : Ended(v)'
  BY <1>1, Zenon DEF Delivered, Ended
<1>. QED  BY <1>1, <1>2, <1>3, Zenon DEF Delivered

\* Without a session the child does not matter.
LEMMA DeliveredAlone ==
  ASSUME Delivered, ~dump.session, dump' = dump, client' = client, dumping' => ~saving'
  PROVE  Delivered'
  BY DEF Delivered, Ended

\* A dump begins with nothing in flight.
LEMMA DeliveredStart ==
  ASSUME IInv, Delivered, start_background_dump
  PROVE  Delivered'
<1>1. /\ client.status = "idle" /\ ~saving /\ saving' = saving /\ dumping' = TRUE
      /\ proc' = [proc EXCEPT !["child"] = Job("stream", store)]
      /\ dump' = [NoDump EXCEPT !.session = TRUE, !.reading = TRUE]
      /\ pipe' = <<>> /\ client' = [NoClient EXCEPT !.status = "stream"]
  BY DEF start_background_dump, background_snapshot_in_progress
<1>2. /\ client'.status = "stream" /\ client'.got = <<>> /\ client'.out = <<>>
      /\ dump'.session /\ dump'.pipe_eof = FALSE
  BY <1>1 DEF NoClient, NoDump
<1>3. proc'["child"].pc = "stream" /\ proc'["child"].k = 0
  BY <1>1 DEF IInv, Core, CoreOK, Procs, Job
<1>4. \A v : Seg(v, 0, 0) = <<>>
  BY SegEmpty, SMTT(30)
<1>5. InFlight'
  <2>1. Flow(proc["child"].img, 0, 0, 0)'
    BY <1>1, <1>2, <1>4, SMTT(30) DEF Flow
  <2>2. \E a, b, n \in Nat :
          (Flow(proc["child"].img, a, b, n) /\ (proc["child"].pc = "stream" => n = proc["child"].k)
             /\ (proc["child"].pc = "ok" => n = Chunks))'
    BY <2>1, <1>3
  <2>. QED  BY <2>2, <1>2, <1>3, Zenon DEF InFlight
<1>. QED  BY <1>1, <1>2, <1>5 DEF Delivered

\* The child writes the next piece, or exits.
LEMMA DeliveredStream ==
  ASSUME IInv, Delivered, Stream
  PROVE  Delivered'
<1>. DEFINE j == proc["child"]
<1>1. /\ j.pc = "stream" /\ dump' = dump /\ client' = client
      /\ dumping' = dumping /\ saving' = saving
      /\ \/ /\ pipe' = Append(pipe, [img |-> j.img, k |-> j.k + 1])
            /\ proc' = [proc EXCEPT !["child"].k = @ + 1]
         \/ j.k = Chunks /\ Exit("child", "ok") /\ pipe' = pipe
         \/ Exit("child", "bad") /\ pipe' = pipe
  BY DEF Stream, parentVars
<1>2. CASE ~dump.session
  BY <1>1, <1>2, DeliveredAlone DEF Delivered
<1>3. CASE dump.session
  <2>1. dumping /\ InFlight
    BY <1>3 DEF Delivered
  <2>2. PICK a \in Nat, b \in Nat, n \in Nat : Flow(j.img, a, b, n) /\ n = j.k
    BY <2>1, <1>1 DEF InFlight
  <2>3. ~(dump.pipe_eof /\ ~dump.read_failed)
    BY <2>1, <1>1 DEF InFlight
  <2>4. CASE /\ pipe' = Append(pipe, [img |-> j.img, k |-> j.k + 1])
             /\ proc' = [proc EXCEPT !["child"].k = @ + 1]
    <3>1. proc'["child"].pc = "stream" /\ proc'["child"].img = j.img /\ proc'["child"].k = n + 1
      BY <2>2, <2>4, <1>1, Zenon DEF IInv, Core, CoreOK, Procs, Proc
    <3>2. pipe = Seg(j.img, b, n) /\ a <= b /\ b <= n
      BY <2>2 DEF Flow
    <3>3. pipe' = Seg(j.img, b, n + 1)
      BY <2>2, <2>4, <3>2, SegAppend, Zenon DEF At
    <3>4. n + 1 \in Nat /\ b <= n + 1
      BY <3>2
    <3>5. Flow(proc["child"].img, a, b, n + 1)'
      BY <2>2, <3>1, <3>2, <3>3, <3>4, <1>1 DEF Flow
    <3>6. InFlight'
      BY <3>1, <3>4, <3>5, <2>3, <1>1, Zenon DEF InFlight
    <3>. QED  BY <3>6, <1>1 DEF Delivered, Ended
  <2>5. CASE /\ pipe' = pipe
             /\ (j.k = Chunks /\ Exit("child", "ok")) \/ Exit("child", "bad")
    <3>1. /\ proc'["child"].img = j.img /\ proc'["child"].pc \in {"ok", "bad"}
          /\ proc'["child"].pc = "ok" => n = Chunks
      BY <2>2, <2>5, Exits DEF IInv, Core, Procs
    <3>2. Flow(proc["child"].img, a, b, n)'
      BY <2>2, <2>5, <3>1, <1>1 DEF Flow
    <3>3. InFlight'
      BY <3>1, <3>2, <2>3, <1>1 DEF InFlight
    <3>. QED  BY <3>3, <1>1 DEF Delivered, Ended
  <2>. QED  BY <2>4, <2>5, <1>1
<1>. QED  BY <1>2, <1>3

\* The session's output goes to the client.
LEMMA DeliveredWrite ==
  ASSUME IInv, Delivered, write_client
  PROVE  Delivered'
<1>1. /\ client.out # <<>> /\ dump' = dump /\ pipe' = pipe /\ dumping' = dumping /\ saving' = saving
      /\ proc' = proc
      /\ client' = [client EXCEPT !.got = @ \o client.out, !.out = <<>>]
  BY DEF write_client, parentVars
<1>2. client \in Client
  BY DEF IInv, DumpOK
<1>3. client'.status = client.status /\ client'.got = client.got \o client.out /\ client'.out = <<>>
  BY <1>1, <1>2 DEF Client
<1>4. CASE client.status = "stream"
  <2>1. dump.session /\ InFlight /\ dumping
    BY <1>4, Zenon DEF Delivered
  <2>. DEFINE j == proc["child"]
  <2>2. PICK a \in Nat, b \in Nat, n \in Nat :
          Flow(j.img, a, b, n) /\ (j.pc = "stream" => n = j.k) /\ (j.pc = "ok" => n = Chunks)
    BY <2>1 DEF InFlight
  <2>3. client'.got = Seg(j.img, 0, b)
    BY <2>2, <1>3, SegJoin, Zenon DEF Flow
  <2>4. client'.out = Seg(j.img, b, b)
    BY <1>3, SegEmpty
  <2>5. Flow(proc["child"].img, b, b, n)'
    BY <2>2, <2>3, <2>4, <1>1 DEF Flow
  <2>6. InFlight'
    BY <2>1, <2>2, <2>5, <1>1 DEF InFlight
  <2>. QED  BY <2>1, <2>6, <1>1, <1>3, <1>4, Zenon DEF Delivered
<1>5. CASE client.status = "quit"
  <2>1. PICK v : Ended(v)
    BY <1>5 DEF Delivered
  <2>2. client.got = Seg(v, 0, Chunks) /\ client.out = <<End>>
    BY <2>1, <1>1 DEF Ended
  <2>3. client.got \in Seq(Piece) /\ End \in Piece
    BY <1>2, Records, Zenon DEF Client
  <2>4. client'.got = Append(Seg(v, 0, Chunks), End)
    BY <2>2, <2>3, <1>3, AppendIsConcat
  <2>5. Ended(v)'
    BY <2>4, <1>3 DEF Ended
  <2>. QED  BY <2>5, <1>1, <1>3, <1>5, Zenon DEF Delivered
<1>6. client.status \notin {"close", "idle"}
  BY <1>1 DEF Delivered, NoClient
<1>. QED  BY <1>2, <1>4, <1>5, <1>6 DEF Client

\* The pump moves what is in the pipe to the session, or ends the dump.
LEMMA DeliveredPump ==
  ASSUME IInv, Delivered, pump
  PROVE  Delivered'
<1>. DEFINE j == proc["child"]
<1>1. saving' = saving /\ client \in Client /\ dump \in Dump /\ "child" \in Procs
  BY DEF pump, IInv, DumpOK, Procs
<1>2. CASE PumpRead
  <2>1. /\ dump.session /\ ~dump.pipe_eof /\ client.out = <<>>
        /\ proc' = proc /\ dumping' = dumping
    BY <1>2, Zenon DEF PumpRead
  <2>2. client.status = "stream" /\ dumping /\ InFlight
    BY <2>1, Zenon DEF Delivered
  <2>3. PICK a \in Nat, b \in Nat, n \in Nat :
          Flow(j.img, a, b, n) /\ (j.pc = "stream" => n = j.k) /\ (j.pc = "ok" => n = Chunks)
    BY <2>2 DEF InFlight
  <2>4. CASE client' = [client EXCEPT !.out = pipe] /\ pipe' = <<>> /\ dump' = dump
    <3>1. client'.status = "stream" /\ client'.got = client.got /\ client'.out = pipe
      BY <2>2, <2>4, <1>1, Zenon DEF Client
    <3>2. a = b /\ b <= n
      BY <2>1, <2>3, SegNonempty DEF Flow
    <3>3. Flow(proc["child"].img, a, n, n)'
      BY <2>1, <2>3, <2>4, <3>1, <3>2, SegEmpty DEF Flow
    <3>4. InFlight'
      BY <2>1, <2>2, <2>3, <2>4, <3>3, Zenon DEF InFlight
    <3>. QED  BY <2>1, <2>2, <2>4, <3>1, <3>4, <1>1 DEF Delivered
  <2>5. CASE /\ client' = client /\ pipe' = pipe /\ dump'.session = dump.session
             /\ dump'.read_failed \/ (pipe = <<>> /\ Exited)
    <3>1. Flow(proc["child"].img, a, b, n)'
      BY <2>1, <2>3, <2>5, Zenon DEF Flow
    <3>2. InFlight'
      BY <2>1, <2>2, <2>3, <2>5, <3>1 DEF InFlight, Exited
    <3>. QED  BY <2>1, <2>2, <2>5, <3>2, <1>1, Zenon DEF Delivered, Ended
  <2>6. \/ client' = [client EXCEPT !.out = pipe] /\ pipe' = <<>> /\ dump' = dump
        \/ /\ client' = client /\ pipe' = pipe
           /\ dump' = [dump EXCEPT !.reading = FALSE, !.pipe_eof = TRUE, !.read_failed = TRUE]
        \/ /\ client' = client /\ pipe' = pipe /\ pipe = <<>> /\ Exited
           /\ dump' = [dump EXCEPT !.reading = FALSE, !.pipe_eof = TRUE]
    BY <1>2 DEF PumpRead
  <2>. QED  BY <2>4, <2>5, <2>6, <1>1, Zenon DEF Dump
<1>3. CASE PumpReap
  <2>1. /\ dump.session /\ dump.pipe_eof /\ client.out = <<>> /\ dumping' = FALSE
        /\ dump' = [dump EXCEPT !.session = FALSE, !.pipe_eof = FALSE]
        /\ client' = IF Complete THEN [client EXCEPT !.out = <<End>>, !.status = "quit"]
                     ELSE [client EXCEPT !.status = "close"]
    BY <1>3 DEF PumpReap
  <2>2. InFlight /\ ~dump'.session
    BY <2>1, <1>1, Zenon DEF Delivered, Dump
  <2>3. PICK a \in Nat, b \in Nat, n \in Nat :
          Flow(j.img, a, b, n) /\ (j.pc = "stream" => n = j.k) /\ (j.pc = "ok" => n = Chunks)
    BY <2>2 DEF InFlight
  <2>4. a = b
    BY <2>1, <2>3, SegNonempty DEF Flow
  <2>5. CASE Complete
    <3>1. j.pc = "ok" /\ pipe = <<>>
      BY <2>1, <2>2, <2>5 DEF Complete, InFlight
    <3>2. b = n
      BY <2>3, <3>1, SegNonempty, Zenon DEF Flow
    <3>3. client'.status = "quit" /\ client'.out = <<End>> /\ client'.got = Seg(j.img, 0, Chunks)
      BY <2>1, <2>3, <2>4, <2>5, <3>1, <3>2, <1>1, Zenon DEF Flow, Client
    <3>4. \E v : Ended(v)'
      BY <3>3 DEF Ended
    <3>. QED  BY <2>1, <2>2, <3>3, <3>4 DEF Delivered
  <2>6. CASE ~Complete
    <3>1. client'.status = "close" /\ client'.out = <<>> /\ client'.got = Seg(j.img, 0, a)
      BY <2>1, <2>3, <2>6, <1>1 DEF Flow, Client
    <3>. QED  BY <2>1, <2>2, <3>1 DEF Delivered
  <2>. QED  BY <2>5, <2>6
<1>4. CASE PumpOrphan
  <2>1. ~dump.session /\ dumping' = FALSE /\ client' = client
        /\ dump' = [dump EXCEPT !.pipe_eof = FALSE]
    BY <1>4 DEF PumpOrphan
  <2>2. ~dump'.session
    BY <2>1, <1>1 DEF Dump
  <2>. QED  BY <2>1, <2>2 DEF Delivered, Ended
<1>. QED  BY <1>2, <1>3, <1>4 DEF pump

\* Every step keeps the image in order.
LEMMA NextDelivered ==
  ASSUME IInv, Delivered, [Next]_vars
  PROVE  Delivered'
<1>1. CASE \/ UNCHANGED vars \/ Mutate \/ save_file \/ AnswerSave \/ AlreadyRunning \/ Restart
  <2>1. UNCHANGED <<dumpVars, dumping, saving>> /\ proc'["child"] = proc["child"]
    BY <1>1, SMTT(30) DEF vars, Mutate, save_file, AnswerSave, AlreadyRunning, Restart, dumpVars,
         parentVars, IInv, Core, CoreOK, Procs
  <2>. QED  BY <2>1, DeliveredQuiet, Zenon
<1>2. CASE start_background_save \/ reap_background_save \/ OrphanGone
  <2>1. UNCHANGED dumpVars /\ dumping' = dumping
    BY <1>2, Zenon DEF start_background_save, reap_background_save, OrphanGone, parentVars
  <2>2. ~background_snapshot_in_progress \/ saving
    BY <1>2, Zenon DEF start_background_save, reap_background_save, OrphanGone
  <2>3. dump' = dump /\ client' = client /\ ~dumping /\ ~dumping'
    BY <2>1, <2>2, Zenon DEF dumpVars, background_snapshot_in_progress, Delivered
  <2>. QED  BY <2>3, DeliveredAlone, ZenonT(30) DEF Delivered
<1>3. ASSUME NEW p \in Procs, save_to_file(p)
      PROVE  Delivered'
  <2>1. UNCHANGED <<dumpVars, dumping, saving>> /\ proc[p].pc \in InSave
    BY <1>3 DEF save_to_file, parentVars, Open, WriteChunk, Sync, Rename, Undo, InSave
  <2>2. CASE dump.session
    <3>1. p # "child"
      BY <2>1, <2>2, ZenonT(30) DEF Delivered, InFlight, InSave
    <3>2. proc'["child"] = proc["child"]
      <4>1. proc \in [Procs -> Proc] /\ "child" \in Procs
        BY Zenon DEF IInv, Core, CoreOK, Procs
      <4>2. ASSUME NEW next, Go(p, next) \/ Exit(p, next)
            PROVE  proc'["child"] = proc["child"]
        BY <3>1, <4>1, <4>2 DEF Go, Exit
      <4>3. CASE Open(p)
        BY <3>1, <4>1, <4>2, <4>3, Zenon DEF Open
      <4>4. CASE WriteChunk(p)
        BY <3>1, <4>1, <4>2, <4>4, Zenon DEF WriteChunk
      <4>5. CASE Sync(p) \/ Rename(p) \/ Undo(p)
        BY <4>2, <4>5, Zenon DEF Sync, Rename, Undo
      <4>. QED  BY <1>3, <4>3, <4>4, <4>5, Zenon DEF save_to_file
    <3>. QED  BY <2>1, <3>2, DeliveredQuiet, Zenon
  <2>3. CASE ~dump.session
    BY <2>1, <2>3, DeliveredAlone, Zenon DEF Delivered, dumpVars
  <2>. QED  BY <2>2, <2>3, Zenon
<1>4. CASE close_client
  <2>1. client' = NoClient /\ saving' = saving /\ dumping' = dumping /\ ~dump'.session
    BY <1>4, Zenon DEF close_client, remove, IInv, DumpOK, Dump
  <2>. QED  BY <2>1 DEF Delivered, NoClient
<1>5. CASE Crash \/ PowerLoss
  <2>1. client' = NoClient /\ dump' = NoDump /\ dumping' = FALSE
    BY <1>5, Zenon DEF Crash, PowerLoss
  <2>. QED  BY <2>1 DEF Delivered, NoClient, NoDump
<1>. QED
  BY <1>1, <1>2, <1>3, <1>4, <1>5, DeliveredStart, DeliveredStream, DeliveredWrite,
     DeliveredPump, Zenon DEF Next

\* The pieces of an image, numbered from 1, are not the terminator.
LEMMA SegNoEnd ==
  ASSUME NEW v, NEW n \in Nat
  PROVE  /\ Seg(v, 0, n) \in Seq([img : {v}, k : Nat]) /\ Len(Seg(v, 0, n)) = n
         /\ DOMAIN Seg(v, 0, n) = 1..n
         /\ \A i \in 1..n : Seg(v, 0, n)[i] = At(v, i) /\ Seg(v, 0, n)[i] # End
<1>1. 0 \in Nat /\ 0 <= n /\ n - 0 = n
  OBVIOUS
<1>2. /\ Seg(v, 0, n) \in Seq([img : {v}, k : Nat]) /\ Len(Seg(v, 0, n)) = n - 0
      /\ \A i \in 1..(n - 0) : Seg(v, 0, n)[i] = At(v, 0 + i)
  BY <1>1, SegSeq, Zenon
<1>3. ASSUME NEW i \in 1..n PROVE Seg(v, 0, n)[i] = At(v, i) /\ Seg(v, 0, n)[i] # End
  <2>1. 0 + i = i /\ i # 0
    OBVIOUS
  <2>2. At(v, i) # End
    BY <2>1 DEF At, End
  <2>. QED  BY <2>1, <2>2, <1>1, <1>2
<1>4. DOMAIN Seg(v, 0, n) = 1..n
  BY <1>1 DEF Seg
<1>. QED  BY <1>1, <1>2, <1>3, <1>4

\* What a client has of a dump is a part without terminator, or everything with it.
LEMMA DeliveredWhole ==
  ASSUME DumpOK, Delivered
  PROVE  DumpWhole
<1>1. client \in Client /\ Chunks \in Nat /\ 1 \in Chunk
  BY ChunksAssumption DEF DumpOK, Chunk
<1>2. ASSUME NEW v, NEW n \in Nat, client.got = Seg(v, 0, n)
      PROVE  DumpWhole
  BY <1>2, SegNoEnd, Zenon DEF DumpWhole
<1>3. CASE client.status = "idle"
  <2>1. client.got = <<>>
    BY <1>3 DEF Delivered, NoClient
  <2>. QED  BY <2>1 DEF DumpWhole
<1>4. CASE client.status = "stream"
  BY <1>2, <1>4, Zenon DEF Delivered, InFlight, Flow
<1>5. CASE client.status = "close"
  BY <1>2, <1>5, Zenon DEF Delivered
<1>6. CASE client.status = "quit"
  <2>1. PICK v : Ended(v)
    BY <1>6 DEF Delivered
  <2>2. CASE client.got = Seg(v, 0, Chunks)
    BY <2>2, <1>1, <1>2
  <2>3. CASE client.got = Append(Seg(v, 0, Chunks), End)
    <3>. DEFINE P == [img : {v}, k : Nat] \cup {End}
                l == Seg(v, 0, Chunks)
    <3>1. l \in Seq(P) /\ Len(l) = Chunks /\ End \in P
          /\ \A i \in 1..Chunks : l[i] = At(v, i) /\ l[i] # End
      <4>1. l \in Seq([img : {v}, k : Nat]) /\ [img : {v}, k : Nat] \subseteq P
        BY <1>1, SegNoEnd, Zenon
      <4>2. l \in Seq(P)
        BY <4>1, SeqMonotonic, Zenon
      <4>. QED  BY <4>2, <1>1, SegNoEnd, Zenon
    <3>. HIDE DEF P, l
    <3>2. Append(l, End) \in Seq(P) /\ Len(Append(l, End)) = Chunks + 1
          /\ \A i \in 1..Chunks : Append(l, End)[i] = l[i]
      BY <3>1, AppendProperties
    <3>3. DOMAIN client.got = 1..(Chunks + 1) /\ Len(client.got) = Chunks + 1
          /\ \A i \in 1..Chunks : client.got[i] = At(v, i) /\ client.got[i] # End
      <4>1. client.got = Append(l, End)
        BY <2>3 DEF l
      <4>2. DOMAIN Append(l, End) = 1..(Chunks + 1)
        BY <3>2
      <4>. QED  BY <4>1, <4>2, <3>1, <3>2
    <3>4. ASSUME NEW c \in Chunk PROVE client.got[c].img = v /\ client.got[c].k = c
      <4>1. client.got[c] = At(v, c)
        BY <3>3 DEF Chunk
      <4>. QED  BY <4>1 DEF At
    <3>5. ASSUME NEW n \in DOMAIN client.got, client.got[n] = End PROVE n = Chunks + 1
      BY <3>3, <3>5, <1>1
    <3>. QED  BY <3>3, <3>4, <3>5, <1>1 DEF DumpWhole
  <2>. QED  BY <2>1, <2>2, <2>3 DEF Ended
<1>. QED  BY <1>1, <1>3, <1>4, <1>5, <1>6 DEF Client

\* Both invariants hold in every reachable state.
LEMMA Inductive ==
  ASSUME SharedListener
  PROVE  Spec => [](IInv /\ Delivered)
<1>1. Init => IInv
  BY InitIInv, Zenon
<1>2. Init => Delivered
  BY DEF Init, Delivered, NoClient, NoDump
<1>3. IInv /\ Delivered /\ [Next]_vars => IInv' /\ Delivered'
  BY NextIInv, NextDelivered
<1>. QED  BY <1>1, <1>2, <1>3, PTL DEF Spec
-----------------------------------------------------------------------------
(* Theorems. *)

\* The state keeps its types, and the pipe its limit.
THEOREM SaveTypes ==
  ASSUME SharedListener
  PROVE  Spec => []TypeOK
<1>1. IInv => TypeOK
  BY Types DEF IInv, Core
<1>. QED  BY <1>1, Inductive, PTL

\* The file at the final path is a whole image of one moment, through failed saves, crashes
\* of the server and of the machine (save_to_file).
THEOREM SnapshotIsWhole ==
  ASSUME SharedListener
  PROVE  Spec => []SnapshotWhole
<1>1. IInv => SnapshotWhole
  BY DEF IInv, Core, Installed, Sound, SnapshotWhole
<1>. QED  BY <1>1, Inductive, PTL

\* What SAVE has answered for is not replaced by anything older (save_file,
\* start_background_save).
THEOREM SavedIsKept ==
  ASSUME SharedListener
  PROVE  Spec => []SavedStays
<1>1. IInv => SavedStays
  BY DEF IInv, Core, Promised
<1>. QED  BY <1>1, Inductive, PTL

\* The server knows of every child it shares its pages with (background_snapshot_in_progress).
THEOREM ChildIsKnown ==
  ASSUME SharedListener
  PROVE  Spec => []ChildKnown
<1>1. IInv => ChildKnown
  BY DEF IInv, Core
<1>. QED  BY <1>1, Inductive, PTL

\* A dump with its terminator is a whole image (DumpWorldRuntime::pump).
THEOREM DumpIsWhole ==
  ASSUME SharedListener
  PROVE  Spec => []DumpWhole
<1>1. IInv /\ Delivered => DumpWhole
  BY DeliveredWhole DEF IInv
<1>. QED  BY <1>1, Inductive, PTL
=============================================================================
