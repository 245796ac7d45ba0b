----------------------------- MODULE BlockStore -----------------------------
(***************************************************************************)
(* The persistent shuffle storage of a worker: DiskBlockStore in           *)
(* src/src/cluster/block_store.rs, behind the upload and delete handlers   *)
(* of data_plane.rs.                                                       *)
(*                                                                         *)
(* The store's mutex makes insert and remove sequential, but each is a     *)
(* sequence of file-system calls: any of them may fail, and the process or *)
(* the host may crash between two of them.  A process that dies leaves the *)
(* directory as it saw it; only a crash of the host takes back what no     *)
(* fsync has covered, then or at any time later.  An upload reads its      *)
(* budget under one lock and inserts under a later one.                    *)
(***************************************************************************)
EXTENDS Integers, Sequences, FiniteSets, Functions, Sums

CONSTANTS
  Ticket,        \* block tickets
  Content,       \* block contents, told apart by their checksum
  Name,          \* file names: the crc32 of a ticket
  NameOf,        \* ticket -> its file name; tickets may collide
  EncodedBytes,  \* content -> size of its file
  DecodedBytes,  \* content -> size of its Arrow batches in memory
  Capacity,
  MaxUploads,    \* uploads in flight at a time
  MaxBadSyncs    \* failing fsyncs of the directory, at most

\* A file name is a u32.
ASSUME NameAssumption == IsFiniteSet(Name) /\ NameOf \in [Ticket -> Name]

ASSUME SizeAssumption ==
  /\ EncodedBytes \in [Content -> Nat \ {0}]
  /\ DecodedBytes \in [Content -> Nat]
  /\ Capacity \in Nat \ {0}
  /\ MaxUploads \in Nat

ASSUME FaultAssumption == MaxBadSyncs \in Nat

None == "none"     \* no content
Torn == "torn"     \* a file whose data did not reach the disk
NoFile == [ticket |-> None, content |-> None, flushed |-> TRUE]

ASSUME NoneAssumption == None \notin Ticket /\ {None, Torn} \cap Content = {}

Entry == Name \X {"pending", "block"}
Pending(t) == <<NameOf[t], "pending">>
Block(t) == <<NameOf[t], "block">>

VARIABLES
  up,        \* the service runs
  files,     \* the directory as the process sees it
  synced,    \* its committed blocks as of its last successful fsync
  index,     \* the in-memory `blocks`: ticket -> content, or None
  used,      \* bytes charged
  op,        \* the file-system operation in progress
  uploads,   \* uploads that passed do_put's budget check
  acked,     \* ticket -> content a client was told is stored
  deleted,   \* tickets a client was told are deleted, and not uploaded since
  badSync,   \* the operations whose directory fsync failed, in order
  cut,       \* what processes that died left unsynced: a "rename", an "unlink"
  solid      \* history: tickets whose acknowledged block a directory fsync covered

vars ==
  <<up, files, synced, index, used, op, uploads, acked, deleted, badSync, cut, solid>>

Idle == [step |-> "idle", ticket |-> None, content |-> None]
At(step, t, c) == [step |-> step, ticket |-> t, content |-> c]
Ready == up /\ op = Idle
SyncMayFail == Len(badSync) < MaxBadSyncs

Stored(t) == index[t] # None
Indexed == {t \in Ticket : Stored(t)}
Available == IF used > Capacity THEN 0 ELSE Capacity - used
UploadBudget(t) == Available + IF Stored(t) THEN EncodedBytes[index[t]] ELSE 0

\* The committed blocks: open removes a pending file unread, synced or not.
Commits(F) == [e \in Entry |-> IF e[2] = "pending" THEN NoFile ELSE F[e]]

Upload(t, c) == [ticket |-> t, content |-> c]
Acknowledge(t, c) == acked' = [acked EXCEPT ![t] = c]

\* A directory fsync covers every entry: the blocks that are stored as acknowledged.
Covered == {t \in Indexed : index[t] = acked[t]}

-----------------------------------------------------------------------------
(* do_put.  The decoded batches are checked against the budget as they     *)
(* arrive; only then does the block reach the store.                       *)

\* What do_put asks before it goes on to insert.
WithinBudget(t, c) ==
  /\ UploadBudget(t) > 0
  /\ DecodedBytes[c] <= UploadBudget(t)

BeginUpload(t, c) ==
  /\ up
  /\ Cardinality(uploads) < MaxUploads
  /\ WithinBudget(t, c)
  /\ uploads' = uploads \cup {Upload(t, c)}
  /\ deleted' = deleted \ {t}
  /\ UNCHANGED <<up, files, synced, index, used, op, acked, badSync, cut, solid>>

\* insert for a ticket that is stored: a repeat is acknowledged, other content
\* rejected.
Repeat(u) ==
  /\ Ready
  /\ u \in uploads
  /\ Stored(u.ticket)
  /\ uploads' = uploads \ {u}
  /\ IF index[u.ticket] = u.content THEN Acknowledge(u.ticket, u.content)
                                    ELSE UNCHANGED acked
  /\ UNCHANGED <<up, files, synced, index, used, op, deleted, badSync, cut, solid>>

\* Mutant: the budget do_put read is taken for the room there is now.
RejectedByName(u) == files[Block(u.ticket)] # NoFile

\* The insert that cannot start: a file of that name, or no room.
Rejected(u) ==
  \/ files[Block(u.ticket)] # NoFile
  \/ EncodedBytes[u.content] > Available

Reject(u) ==
  /\ Ready
  /\ u \in uploads
  /\ ~Stored(u.ticket)
  /\ Rejected(u)
  /\ uploads' = uploads \ {u}
  /\ files' = IF files[Block(u.ticket)] # NoFile THEN files
              ELSE [files EXCEPT ![Pending(u.ticket)] = NoFile]
  /\ UNCHANGED <<up, synced, index, used, op, acked, deleted, badSync, cut, solid>>

\* create_new and the write of header and batches.
WritePending(u) ==
  /\ Ready
  /\ u \in uploads
  /\ ~Stored(u.ticket)
  /\ ~Rejected(u)
  /\ files[Pending(u.ticket)] = NoFile
  /\ uploads' = uploads \ {u}
  /\ files' = [files EXCEPT ![Pending(u.ticket)] =
       [ticket |-> u.ticket, content |-> u.content, flushed |-> FALSE]]
  /\ op' = At("written", u.ticket, u.content)
  /\ UNCHANGED <<up, synced, index, used, acked, deleted, badSync, cut, solid>>

\* Mutant: the file is renamed before its data is on disk.
FlushLater ==
  /\ up /\ op.step = "written"
  /\ op' = [op EXCEPT !.step = "flushed"]
  /\ UNCHANGED <<up, files, synced, index, used, uploads, acked, deleted, badSync, cut, solid>>

\* sync_all on the file.
Flush ==
  /\ up /\ op.step = "written"
  /\ files' = [files EXCEPT ![Pending(op.ticket)].flushed = TRUE]
  /\ op' = [op EXCEPT !.step = "flushed"]
  /\ UNCHANGED <<up, synced, index, used, uploads, acked, deleted, badSync, cut, solid>>

Rename ==
  /\ up /\ op.step = "flushed"
  /\ files' = [files EXCEPT ![Pending(op.ticket)] = NoFile,
                            ![Block(op.ticket)] = files[Pending(op.ticket)]]
  /\ op' = [op EXCEPT !.step = "renamed"]
  /\ UNCHANGED <<up, synced, index, used, uploads, acked, deleted, badSync, cut, solid>>

\* Mutant: the block is acknowledged before the directory is on disk.
PublishUnsynced ==
  /\ up /\ op.step = "renamed"
  /\ index' = [index EXCEPT ![op.ticket] = op.content]
  /\ used' = used + EncodedBytes[op.content]
  /\ Acknowledge(op.ticket, op.content)
  /\ solid' = Covered'
  /\ op' = Idle
  /\ UNCHANGED <<up, files, synced, uploads, deleted, badSync, cut>>

\* sync_directory, then the index entry and the acknowledgement.
Publish ==
  /\ up /\ op.step = "renamed"
  /\ synced' = Commits(files)
  /\ index' = [index EXCEPT ![op.ticket] = op.content]
  /\ used' = used + EncodedBytes[op.content]
  /\ Acknowledge(op.ticket, op.content)
  /\ solid' = Covered'
  /\ op' = Idle
  /\ UNCHANGED <<up, files, uploads, deleted, badSync, cut>>

\* Any of these calls fails: the pending file is removed (unless that fails
\* too) and the upload with it.  A file already renamed stays.
InsertFails ==
  /\ up /\ op.step \in {"written", "flushed", "renamed"}
  /\ op.step = "renamed" => SyncMayFail
  /\ files' \in {files, [files EXCEPT ![Pending(op.ticket)] = NoFile]}
  /\ op' = Idle
  /\ badSync' = IF op.step = "renamed" THEN Append(badSync, "insert") ELSE badSync
  /\ UNCHANGED <<up, synced, index, used, uploads, acked, deleted, cut, solid>>

\* create_new meets the pending file an earlier failure left, and removes it.
PendingLeft(u) ==
  /\ Ready
  /\ u \in uploads
  /\ ~Stored(u.ticket)
  /\ ~Rejected(u)
  /\ files[Pending(u.ticket)] # NoFile
  /\ uploads' = uploads \ {u}
  /\ files' = [files EXCEPT ![Pending(u.ticket)] = NoFile]
  /\ UNCHANGED <<up, synced, index, used, op, acked, deleted, badSync, cut, solid>>

-----------------------------------------------------------------------------
(* Deletion.                                                               *)

\* The client gives the block up when it asks for its deletion.
Unlink(t) ==
  /\ Ready
  /\ Stored(t)
  /\ files[Block(t)] # NoFile
  /\ files' = [files EXCEPT ![Block(t)] = NoFile]
  /\ acked' = [acked EXCEPT ![t] = None]
  /\ solid' = solid \ {t}
  /\ op' = At("unlinked", t, index[t])
  /\ UNCHANGED <<up, synced, index, used, uploads, deleted, badSync, cut>>

\* Mutant: the deletion is acknowledged before the directory is on disk.
FinishRemoveUnsynced ==
  /\ up /\ op.step = "unlinked"
  /\ index' = [index EXCEPT ![op.ticket] = None]
  /\ used' = used - EncodedBytes[index[op.ticket]]
  /\ deleted' = IF \E u \in uploads : u.ticket = op.ticket
                THEN deleted ELSE deleted \cup {op.ticket}
  /\ solid' = {t \in Covered : t # op.ticket}
  /\ op' = Idle
  /\ UNCHANGED <<up, files, synced, uploads, acked, badSync, cut>>

\* sync_directory, then the index entry goes.
FinishRemove ==
  /\ up /\ op.step = "unlinked"
  /\ synced' = Commits(files)
  /\ index' = [index EXCEPT ![op.ticket] = None]
  /\ used' = used - EncodedBytes[index[op.ticket]]
  /\ deleted' = IF \E u \in uploads : u.ticket = op.ticket
                THEN deleted ELSE deleted \cup {op.ticket}
  /\ solid' = {t \in Covered : t # op.ticket}
  /\ op' = Idle
  /\ UNCHANGED <<up, files, uploads, acked, badSync, cut>>

\* The fsync fails: the entry stays, without its file.
RemoveFails ==
  /\ SyncMayFail
  /\ up /\ op.step = "unlinked"
  /\ op' = Idle
  /\ badSync' = Append(badSync, "remove")
  /\ UNCHANGED <<up, files, synced, index, used, uploads, acked, deleted, cut, solid>>

-----------------------------------------------------------------------------
(* Crash and restart.                                                      *)

ProcessGone ==
  /\ up' = FALSE
  /\ index' = [t \in Ticket |-> None]
  /\ used' = 0
  /\ op' = Idle
  /\ uploads' = {}

\* A block that is in the directory, or gone from it, and that no fsync has covered.
Unsynced(F, G) == \E n \in Name : F[<<n, "block">>] \notin {NoFile, G[<<n, "block">>]}

\* The process ends or is killed: the directory stays as it is, unsynced entries too.
Kill ==
  /\ up
  /\ ProcessGone
  /\ cut' = cut \cup {x \in {"rename"} : Unsynced(files, synced)}
                 \cup {x \in {"unlink"} : Unsynced(synced, files)}
  /\ UNCHANGED <<files, synced, acked, deleted, badSync, solid>>

\* The host crashes, whether or not the service runs: an entry not yet covered by a
\* directory fsync may be there or not, and a file not yet flushed may have lost its
\* data.
Crash ==
  /\ ProcessGone
  /\ \E lost \in SUBSET {e \in Entry : files[e] # synced[e]} :
       LET kept == [e \in Entry |-> IF e \in lost THEN synced[e] ELSE files[e]]
       IN  \E torn \in SUBSET {e \in Entry : ~kept[e].flushed} :
             files' = [e \in Entry |->
               IF e \in torn THEN [kept[e] EXCEPT !.content = Torn]
                             ELSE kept[e]]
  /\ synced' = Commits(files')
  /\ UNCHANGED <<acked, deleted, badSync, cut, solid>>

Committed(F) == {n \in Name : F[<<n, "block">>] # NoFile}
FileBytes(F) == [n \in Committed(F) |-> EncodedBytes[F[<<n, "block">>].content]]
BytesOf(F) == SumOf(FileBytes(F), Committed(F))

\* DiskBlockStore::open verifies every file and refuses corrupt ones.  It does not
\* fsync the directory it found.
Readable(F) == \A n \in Committed(F) : F[<<n, "block">>].content # Torn
Opens(F) == Readable(F) /\ BytesOf(F) <= Capacity

Open ==
  /\ ~up
  /\ Opens(files)
  /\ up' = TRUE
  /\ files' = Commits(files)
  /\ index' = [t \in Ticket |->
       IF files[Block(t)].ticket = t THEN files[Block(t)].content ELSE None]
  /\ used' = BytesOf(files)
  /\ UNCHANGED <<synced, op, uploads, acked, deleted, badSync, cut, solid>>

-----------------------------------------------------------------------------
Init ==
  /\ up = TRUE
  /\ files = [e \in Entry |-> NoFile]
  /\ synced = files
  /\ index = [t \in Ticket |-> None]
  /\ used = 0
  /\ op = Idle
  /\ uploads = {}
  /\ acked = [t \in Ticket |-> None]
  /\ deleted = {}
  /\ badSync = <<>>
  /\ cut = {}
  /\ solid = {}

Next ==
  \/ \E t \in Ticket, c \in Content : BeginUpload(t, c)
  \/ \E u \in uploads : Repeat(u) \/ Reject(u) \/ WritePending(u) \/ PendingLeft(u)
  \/ Flush \/ Rename \/ Publish \/ InsertFails
  \/ \E t \in Ticket : Unlink(t)
  \/ FinishRemove \/ RemoveFails
  \/ Kill \/ Crash \/ Open

Spec == Init /\ [][Next]_vars

-----------------------------------------------------------------------------
(* Properties.                                                             *)

\* get: the index entry, its file, and the ticket in the file's header.
Serves(t, c) ==
  /\ index[t] = c
  /\ files[Block(t)].ticket = t
  /\ files[Block(t)].content = c

\* The acknowledged content is served, or on disk for the service to serve again.
Keeps(t) ==
  IF up THEN Serves(t, acked[t])
  ELSE files[Block(t)].ticket = t /\ files[Block(t)].content = acked[t]

\* Until a client asks for its deletion the service serves exactly the content
\* it acknowledged ("Repeating an upload with the same ticket/checksum is
\* idempotent"), as long as no process died between a rename and its fsync.
AckedAlwaysServed ==
  "rename" \notin cut => \A t \in Ticket : acked[t] # None => Keeps(t)

\* Acknowledged output is durable through failed writes, failed directory fsyncs of
\* other uploads, processes that die, host crashes, restarts, repeated and conflicting
\* uploads and file-name collisions (insert's fsync, rename, directory fsync, index
\* order).  Two things can break it.  A deletion whose directory fsync failed; and, for
\* an upload acknowledged as a repeat and not covered by any directory fsync since,
\* a process that died between the rename and the fsync of the file: open takes the
\* file over without an fsync of its own.
AckedIsServed ==
  "remove" \notin Range(badSync) =>
    \A t \in Ticket :
      acked[t] # None /\ (t \in solid \/ "rename" \notin cut) => Keeps(t)

\* "Deletion is persisted, so removed results do not return after restart":
\* once a deletion was acknowledged no crash brings the block back (remove's
\* directory fsync).
DeletedStaysDeleted ==
  \A t \in deleted :
    index[t] = None /\ files[Block(t)].ticket # t /\ synced[Block(t)].ticket # t

\* The service can start again.  No crash leaves a committed file whose data is not on
\* disk (sync_all before rename).  The committed files fit the capacity open demands,
\* whatever was uploaded and deleted since, unless the directory fsync of an upload
\* failed and left a file nobody charged, or a process died between an unlink and its
\* fsync, the service went on without the block, and a host crash brings it back.
RestartOpens ==
  /\ Readable(files)
  /\ "insert" \notin Range(badSync) /\ "unlink" \notin cut => BytesOf(files) <= Capacity

\* The charge is the size of what is indexed and never exceeds the capacity,
\* whatever budget concurrent uploads were granted.
UsageIsExact ==
  /\ used = SumOf([t \in Indexed |-> EncodedBytes[index[t]]], Indexed)
  /\ used <= Capacity
=============================================================================
