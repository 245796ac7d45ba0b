--------------------------- MODULE BlockStoreProofs ---------------------------
(***************************************************************************)
(* The block store's promises, for any tickets, contents, file names and   *)
(* sizes, any number of uploads in flight, and any failures and crashes.   *)
(***************************************************************************)
EXTENDS BlockStore, SumProofs

File == [ticket : Ticket, content : Content \cup {Torn}, flushed : BOOLEAN]
Working == [step : {"written", "flushed", "renamed", "unlinked"},
            ticket : Ticket, content : Content]
BlockFile(t, c) == [ticket |-> t, content |-> c, flushed |-> TRUE]

TypeInv ==
  /\ up \in BOOLEAN
  /\ files \in [Entry -> File \cup {NoFile}]
  /\ synced \in [Entry -> File \cup {NoFile}]
  /\ index \in [Ticket -> Content \cup {None}]
  /\ used \in Nat
  /\ op \in Working \cup {Idle}
  /\ uploads \subseteq [ticket : Ticket, content : Content]
  /\ acked \in [Ticket -> Content \cup {None}]
  /\ deleted \subseteq Ticket
  /\ badSync \in Seq({"insert", "remove"})
  /\ cut \subseteq {"rename", "unlink"}
  /\ solid \subseteq Ticket

\* A file is under the name of its ticket, and a committed one is flushed and whole.
WellFormed(F) ==
  /\ \A e \in Entry : F[e] # NoFile => NameOf[F[e].ticket] = e[1]
  /\ \A e \in Entry : e[2] = "block" /\ F[e] # NoFile =>
       F[e].flushed /\ F[e].content \in Content

FilesInv == WellFormed(files) /\ WellFormed(synced)

\* What an operation in progress knows of its files.
OpInv ==
  /\ op.step \in {"written", "flushed"} =>
       /\ files[Pending(op.ticket)] =
            [ticket |-> op.ticket, content |-> op.content,
             flushed |-> op.step = "flushed"]
       /\ files[Block(op.ticket)] = NoFile
  /\ op.step = "renamed" => files[Block(op.ticket)] = BlockFile(op.ticket, op.content)
  /\ op.step \in {"written", "flushed", "renamed"} =>
       ~Stored(op.ticket) /\ used + EncodedBytes[op.content] <= Capacity
  /\ op.step = "unlinked" =>
       index[op.ticket] = op.content /\ files[Block(op.ticket)] = NoFile

\* A stopped service has no memory, and its directory differs from the synced one only
\* by what a process that died left behind.
DownInv ==
  ~up => /\ op = Idle /\ uploads = {}
         /\ index = [t \in Ticket |-> None]
         /\ "rename" \notin cut =>
              \A e \in Entry : e[2] = "block" /\ files[e] # NoFile => files[e] = synced[e]
         /\ "unlink" \notin cut =>
              \A e \in Entry : e[2] = "block" /\ synced[e] # NoFile => synced[e] = files[e]

Charged(F) ==
  \A e \in Entry : e[2] = "block" /\ F[e] # NoFile =>
    index[F[e].ticket] = F[e].content \/ op = At("renamed", F[e].ticket, F[e].content)

\* Each block of F is as the directory has it, or as it was synced: what a crash of the
\* host may leave.
Mixes(F) == \A e \in Entry : e[2] = "block" => F[e] = files[e] \/ F[e] = synced[e]

Directory == [Entry -> File \cup {NoFile}]

\* Every committed file is charged, and what any crash leaves fits, until the directory
\* fsync of an upload fails or a process dies with an unlink unsynced.
ChargeInv ==
  "insert" \notin Range(badSync) /\ "unlink" \notin cut =>
    IF up THEN Charged(files) /\ Charged(synced)
          ELSE \A F \in Directory : Mixes(F) => BytesOf(F) <= Capacity

\* A directory fsync has covered the ticket's block, or every block that was found on
\* restart.
OnDisk(t) == t \in solid \/ "rename" \notin cut

\* Every indexed block has its file, on disk too, until the fsync of a deletion fails.
DurableInv ==
  "remove" \notin Range(badSync) =>
    \A t \in Indexed :
      /\ OnDisk(t) => synced[Block(t)] = BlockFile(t, index[t])
      /\ \/ files[Block(t)] = BlockFile(t, index[t])
         \/ op = At("unlinked", t, index[t])

\* What was acknowledged is indexed, or on disk while the service is down, and not
\* being deleted.
AckInv ==
  "remove" \notin Range(badSync) =>
    \A t \in Ticket : acked[t] # None /\ OnDisk(t) =>
      /\ IF up THEN index[t] = acked[t]
               ELSE /\ files[Block(t)] = BlockFile(t, acked[t])
                    /\ synced[Block(t)] = BlockFile(t, acked[t])
      /\ ~(op.step = "unlinked" /\ op.ticket = t)

\* Only an acknowledged block counts as covered.
SolidInv == \A t \in solid : acked[t] # None

\* A deleted ticket has no file, and nobody is about to write one.
DeletedInv ==
  \A t \in deleted :
    /\ index[t] = None /\ op.ticket # t
    /\ files[Block(t)].ticket # t /\ synced[Block(t)].ticket # t
    /\ \A u \in uploads : u.ticket # t

UsageInv == IsFiniteSet(Indexed) /\ UsageIsExact

Inv ==
  /\ TypeInv /\ FilesInv /\ OpInv /\ DownInv /\ ChargeInv
  /\ DurableInv /\ AckInv /\ SolidInv /\ DeletedInv /\ UsageInv

-----------------------------------------------------------------------------
\* A directory entry is a name and a kind; a ticket's pending and committed entries
\* (`pending_path`, `block_path`) differ, and a committed entry of its name is its own.
LEMMA EntryFacts ==
  /\ \A t \in Ticket : /\ Pending(t) \in Entry /\ Pending(t)[1] = NameOf[t]
                       /\ Pending(t)[2] = "pending"
                       /\ Block(t) \in Entry /\ Block(t)[1] = NameOf[t]
                       /\ Block(t)[2] = "block"
  /\ \A n \in Name : /\ <<n, "block">> \in Entry /\ <<n, "block">>[1] = n
                     /\ <<n, "block">>[2] = "block"
  /\ \A e \in Entry : e[1] \in Name /\ e[2] \in {"pending", "block"}
  /\ \A e \in Entry, t \in Ticket : e[2] = "block" /\ e[1] = NameOf[t] => e = Block(t)
BY NameAssumption DEF Entry, Pending, Block

\* A file that exists differs from none, and no content of a block is a missing or a
\* torn one (`read_block` tells them apart by the checksum).
LEMMA FileFacts ==
  /\ \A f \in File : /\ f # NoFile /\ f.ticket \in Ticket
                     /\ f.content \in Content \cup {Torn} /\ f.flushed \in BOOLEAN
  /\ NoFile.ticket = None /\ NoFile.flushed = TRUE
  /\ \A t \in Ticket, c \in Content :
       BlockFile(t, c) \in File /\ BlockFile(t, c).ticket = t
       /\ BlockFile(t, c).content = c /\ BlockFile(t, c).flushed = TRUE
  /\ \A t \in Ticket : t # None
  /\ \A c \in Content : c # None /\ c # Torn
BY NoneAssumption DEF File, NoFile, BlockFile, None, Torn

\* A directory fsync, and open, keep the committed blocks as they are.
LEMMA CommitsFacts ==
  ASSUME NEW F \in Directory
  PROVE  /\ Commits(F) \in Directory
         /\ \A e \in Entry : e[2] = "block" => Commits(F)[e] = F[e]
         /\ \A t \in Ticket : Commits(F)[Block(t)] = F[Block(t)]
         /\ WellFormed(F) => WellFormed(Commits(F))
<1>1. \A e \in Entry : Commits(F)[e] = IF e[2] = "pending" THEN NoFile ELSE F[e]
  BY DEF Commits
<1>2. \A e \in Entry : e[2] = "block" => Commits(F)[e] = F[e]
  BY <1>1
<1>3. Commits(F) \in Directory
  BY DEF Commits, Directory
<1>4. WellFormed(F) => WellFormed(Commits(F))
  BY <1>1 DEF WellFormed
<1>5. QED
  BY <1>2, <1>3, <1>4, EntryFacts

\* A failed fsync is remembered with the earlier ones.
LEMMA RangeAppend ==
  ASSUME NEW S, NEW seq \in Seq(S), NEW x \in S
  PROVE  Range(Append(seq, x)) = Range(seq) \cup {x}
<1>1. /\ DOMAIN seq = 1 .. Len(seq) /\ Len(seq) \in Nat
      /\ DOMAIN Append(seq, x) = 1 .. (Len(seq) + 1)
      /\ Append(seq, x)[Len(seq) + 1] = x
      /\ \A i \in 1 .. Len(seq) : Append(seq, x)[i] = seq[i]
  OBVIOUS
<1>2. Range(Append(seq, x)) \subseteq Range(seq) \cup {x}
  BY <1>1 DEF Range
<1>3. Range(seq) \cup {x} \subseteq Range(Append(seq, x))
  <2>1. Len(seq) + 1 \in DOMAIN Append(seq, x) /\ DOMAIN seq \subseteq DOMAIN Append(seq, x)
    BY <1>1
  <2>2. QED
    BY <1>1, <2>1 DEF Range
<1>4. QED
  BY <1>2, <1>3

\* An operation in progress has a ticket and a content of the store's types.
LEMMA OpFacts ==
  ASSUME TypeInv
  PROVE  /\ op \in Working \/ op = Idle
         /\ op.step # "idle" => /\ op \in Working /\ op.ticket \in Ticket /\ op.content \in Content
                               /\ op = At(op.step, op.ticket, op.content)
                               /\ EncodedBytes[op.content] \in Nat
BY SizeAssumption DEF TypeInv, Working, Idle, At

\* What the charge counts for an indexed ticket.
Weight == [t \in Indexed |-> EncodedBytes[index[t]]]

\* Every indexed block is charged a natural number of bytes.
LEMMA WeightFacts ==
  ASSUME TypeInv
  PROVE  Weight \in [Indexed -> Nat] /\ Weight \in [Indexed -> Int]
BY SizeAssumption DEF Weight, Indexed, Stored, TypeInv

\* A step that leaves index and counter alone leaves the charge exact.
LEMMA UsageFrame ==
  ASSUME UsageInv, index' = index, used' = used
  PROVE  UsageInv'
BY DEF UsageInv, UsageIsExact, Indexed, Stored

\* The bytes of an indexed block are part of the charge, and deleting the block
\* leaves the charge of the others.
LEMMA UsedRemoves ==
  ASSUME TypeInv, UsageInv, NEW t \in Ticket, Stored(t)
  PROVE  /\ used - EncodedBytes[index[t]] \in Nat
         /\ used - EncodedBytes[index[t]]
              = SumOf([s \in Indexed \ {t} |-> EncodedBytes[index[s]]], Indexed \ {t})
<1> DEFINE rest == [s \in Indexed \ {t} |-> EncodedBytes[index[s]]]
<1>1. t \in Indexed /\ Weight[t] = EncodedBytes[index[t]] /\ IsFiniteSet(Indexed)
  BY DEF Indexed, Weight, UsageInv
<1>2. SumOf(Weight, Indexed) = Weight[t] + SumOf(Weight, Indexed \ {t})
  BY <1>1, WeightFacts, SumOfRemove
<1>3. IsFiniteSet(Indexed \ {t}) /\ rest \in [Indexed \ {t} -> Nat]
  BY <1>1, FS_RemoveElement, WeightFacts DEF Weight
<1>4. rest \in [Indexed \ {t} -> Int] /\ \A s \in Indexed \ {t} : Weight[s] = rest[s]
  BY <1>3 DEF Weight
<1> HIDE DEF rest
<1>5. SumOf(Weight, Indexed \ {t}) = SumOf(rest, Indexed \ {t})
  BY <1>3, <1>4, SumOfSame
<1>6. SumOf(rest, Indexed \ {t}) \in Nat
  BY <1>3, SumOfNat
<1>7. used = SumOf(Weight, Indexed) /\ Weight[t] \in Nat
  BY <1>1, WeightFacts DEF UsageInv, UsageIsExact, Weight
<1>8. used - EncodedBytes[index[t]] = SumOf(rest, Indexed \ {t})
  BY <1>1, <1>2, <1>5, <1>6, <1>7
<1>9. QED
  BY <1>6, <1>8 DEF rest

\* The committed files of a directory, when each is charged to its ticket, fit the
\* capacity: each name has a ticket of its own.
LEMMA ChargedFits ==
  ASSUME Inv, up, "insert" \notin Range(badSync), "unlink" \notin cut,
         NEW F, \A e \in Entry : e[2] = "block" => F[e] = files[e] \/ F[e] = synced[e]
  PROVE  BytesOf(F) <= Capacity
<1> USE EntryFacts, FileFacts DEF Inv
<1> DEFINE C == Committed(F)
           T == Indexed \cup {t \in {op.ticket} : op.step = "renamed"}
           v == [t \in T |-> IF t \in Indexed THEN EncodedBytes[index[t]]
                                             ELSE EncodedBytes[op.content]]
           m == [n \in C |-> F[<<n, "block">>].ticket]
<1>1. ASSUME NEW n \in C
      PROVE  LET f == F[<<n, "block">>]
             IN  /\ f \in File /\ f.content \in Content /\ NameOf[f.ticket] = n
                 /\ \/ index[f.ticket] = f.content
                    \/ op = At("renamed", f.ticket, f.content)
  <2> DEFINE e == <<n, "block">>
  <2>1. n \in Name /\ F[e] # NoFile
    BY DEF Committed
  <2>2. e \in Entry /\ e[2] = "block" /\ e[1] = n
    BY <2>1
  <2> HIDE DEF e
  <2>3. F[e] = files[e] \/ F[e] = synced[e]
    BY <2>2
  <2>4. F[e] \in File /\ F[e].content \in Content /\ NameOf[F[e].ticket] = n
    BY <2>1, <2>2, <2>3 DEF TypeInv, FilesInv, WellFormed
  <2>5. index[F[e].ticket] = F[e].content \/ op = At("renamed", F[e].ticket, F[e].content)
    BY <2>1, <2>2, <2>3 DEF ChargeInv, Charged
  <2>6. QED
    BY <2>4, <2>5 DEF e
<1>2. \A n \in C : /\ m[n] \in T /\ NameOf[m[n]] = n
                   /\ EncodedBytes[F[<<n, "block">>].content] = v[m[n]]
  <2>1. SUFFICES ASSUME NEW n \in C
                 PROVE  /\ m[n] \in T /\ NameOf[m[n]] = n
                        /\ EncodedBytes[F[<<n, "block">>].content] = v[m[n]]
    OBVIOUS
  <2> DEFINE f == F[<<n, "block">>]
  <2>2. /\ f \in File /\ f.content \in Content /\ NameOf[f.ticket] = n
        /\ index[f.ticket] = f.content \/ op = At("renamed", f.ticket, f.content)
        /\ m[n] = f.ticket
    BY <1>1
  <2> HIDE DEF f, m
  <2>3. CASE index[f.ticket] = f.content
    <3>1. f.ticket \in Indexed
      BY <2>2, <2>3 DEF Indexed, Stored
    <3>2. QED
      BY <2>2, <2>3, <3>1 DEF f
  <2>4. CASE index[f.ticket] # f.content
    <3>1. op.step = "renamed" /\ op.ticket = f.ticket /\ op.content = f.content
      BY <2>2, <2>4 DEF At
    <3>2. f.ticket \notin Indexed
      BY <3>1 DEF OpInv, Indexed, Stored
    <3>3. QED
      BY <2>2, <3>1, <3>2 DEF f
  <2>5. QED
    BY <2>3, <2>4
<1>3. IsFiniteSet(C) /\ IsFiniteSet(Indexed)
  <2>1. C \in SUBSET Name
    BY DEF Committed
  <2>2. QED
    BY <2>1, NameAssumption, FS_Subset DEF UsageInv
<1>4. FileBytes(F) \in [C -> Nat] /\ \A n \in C : FileBytes(F)[n] <= v[m[n]]
  <2>1. \A n \in C : F[<<n, "block">>].content \in Content
    BY <1>1
  <2>2. \A n \in C : EncodedBytes[F[<<n, "block">>].content] \in Nat
    BY <2>1, SizeAssumption
  <2>3. \A n \in C : FileBytes(F)[n] = EncodedBytes[F[<<n, "block">>].content]
    BY DEF FileBytes
  <2>4. FileBytes(F) \in [C -> Nat]
    BY <2>2 DEF FileBytes
  <2>5. \A n \in C : FileBytes(F)[n] = v[m[n]]
    <3> HIDE DEF v, m, C
    <3> QED BY ZenonT(60), <1>2, <2>3
  <2>6. \A i \in Nat : \A j : i = j => i <= j
    OBVIOUS
  <2> HIDE DEF v, m, C
  <2>7. QED
    BY <2>4, <2>5, <2>6
<1>5. IsFiniteSet(T) /\ v \in [T -> Nat] /\ SumOf(v, T) <= Capacity
  <2>1. used = SumOf(Weight, Indexed) /\ used <= Capacity /\ used \in Nat
    BY DEF UsageInv, UsageIsExact, Weight, TypeInv
  <2>2. CASE op.step = "renamed"
    <3>1. /\ T = Indexed \cup {op.ticket} /\ op.ticket \notin Indexed
          /\ op.content \in Content /\ EncodedBytes[op.content] \in Nat
          /\ used + EncodedBytes[op.content] <= Capacity
      BY <2>2, OpFacts DEF OpInv, Indexed, Stored
    <3>2. v \in [T -> Nat] /\ v \in [Indexed \cup {op.ticket} -> Int] /\ v[op.ticket] = EncodedBytes[op.content]
      BY <3>1, WeightFacts DEF Weight
    <3>3. \A t \in Indexed : v[t] = Weight[t]
      BY DEF Weight
    <3> HIDE DEF v, T
    <3>4. SumOf(v, T) = v[op.ticket] + SumOf(v, Indexed)
      BY <1>3, <3>1, <3>2, SumOfAdd
    <3>5. SumOf(v, Indexed) = SumOf(Weight, Indexed)
      BY <1>3, <3>3, WeightFacts, SumOfSame
    <3>6. IsFiniteSet(T)
      BY <1>3, <3>1, FS_AddElement
    <3>7. SumOf(v, T) <= Capacity
      BY <2>1, <3>1, <3>2, <3>4, <3>5
    <3>8. QED
      BY <3>2, <3>6, <3>7
  <2>3. CASE op.step # "renamed"
    <3>1. T = Indexed /\ v = Weight
      BY <2>3 DEF Weight
    <3>2. QED
      BY <1>3, <2>1, <3>1, WeightFacts
  <2>4. QED
    BY <2>2, <2>3
<1>6. m \in [C -> T] /\ \A x, y \in C : m[x] = m[y] => x = y
  <2>1. m \in [C -> T]
    BY <1>2
  <2>2. ASSUME NEW x \in C, NEW y \in C, m[x] = m[y] PROVE x = y
    <3> HIDE DEF C, T, v, m
    <3>1. NameOf[m[x]] = x /\ NameOf[m[y]] = y
      BY <1>2
    <3>2. QED
      BY <2>2, <3>1
  <2>3. QED
    BY <2>1, <2>2
<1> HIDE DEF C, T, v, m
<1>7. SumOf(FileBytes(F), C) <= SumOf(v, T)
  BY <1>3, <1>4, <1>5, <1>6, SumOfInjection
<1>8. SumOf(FileBytes(F), C) \in Nat /\ SumOf(v, T) \in Nat /\ Capacity \in Nat
  BY <1>3, <1>4, <1>5, SumOfNat, SizeAssumption
<1>9. QED
  BY <1>5, <1>7, <1>8 DEF BytesOf, C

\* do_put's budget check touches neither files nor index; the ticket is no longer one
\* that was deleted.
LEMMA BeginUploadStep ==
  ASSUME Inv, \E t \in Ticket, c \in Content : BeginUpload(t, c)
  PROVE  Inv'
<1> USE EntryFacts, FileFacts DEF Inv
<1>0. PICK t \in Ticket, c \in Content : BeginUpload(t, c)
  OBVIOUS
<1>1. TypeInv'
  BY <1>0 DEF TypeInv, Working, Idle, File, BeginUpload, Upload
<1>2. FilesInv'
  BY <1>0 DEF FilesInv, WellFormed, TypeInv, Working, Idle, BeginUpload, Upload
<1>3. OpInv'
  BY <1>0 DEF OpInv, Stored, BlockFile, Idle, TypeInv, Working, BeginUpload, Upload
<1>4. DownInv'
  BY <1>0 DEF DownInv, Idle, TypeInv, Working, BeginUpload, Upload
<1>5. ChargeInv'
  BY <1>0 DEF ChargeInv, Charged, At, Idle, TypeInv, Working, BeginUpload, Upload
<1>6. DurableInv'
  BY <1>0 DEF DurableInv, OnDisk, Indexed, Stored, At, Idle, BlockFile, TypeInv, Working,
     BeginUpload, Upload
<1>7. AckInv'
  BY <1>0 DEF AckInv, OnDisk, BlockFile, TypeInv, Working, Idle, BeginUpload, Upload
<1>8. DeletedInv'
  BY <1>0 DEF DeletedInv, Idle, TypeInv, Working, BeginUpload, Upload
<1>9. UsageInv'
  BY <1>0, UsageFrame DEF BeginUpload
<1>10. SolidInv'
  BY <1>0 DEF SolidInv, TypeInv, BeginUpload
<1> QED
  BY <1>1, <1>2, <1>3, <1>4, <1>5, <1>6, <1>7, <1>8, <1>9, <1>10 DEF Inv

\* A repeated or conflicting upload acknowledges only what is indexed (insert's first
\* look at `blocks`).
LEMMA RepeatStep ==
  ASSUME Inv, \E u \in uploads : Repeat(u)
  PROVE  Inv'
<1> USE EntryFacts, FileFacts DEF Inv
<1>0. PICK u \in uploads : Repeat(u)
  OBVIOUS
<1>1. TypeInv'
  BY <1>0 DEF TypeInv, Working, Idle, File, Repeat, Ready, Stored, Acknowledge
<1>2. FilesInv'
  BY <1>0 DEF FilesInv, WellFormed, TypeInv, Working, Idle, Repeat, Ready, Stored,
     Acknowledge
<1>3. OpInv'
  BY <1>0 DEF OpInv, Stored, BlockFile, Idle, TypeInv, Working, Repeat, Ready,
     Acknowledge
<1>4. DownInv'
  BY <1>0 DEF DownInv, Idle, TypeInv, Working, Repeat, Ready, Stored, Acknowledge
<1>5. ChargeInv'
  BY <1>0 DEF ChargeInv, Charged, At, Idle, TypeInv, Working, Repeat, Ready, Stored,
     Acknowledge
<1>6. DurableInv'
  BY <1>0 DEF DurableInv, OnDisk, Indexed, Stored, At, Idle, BlockFile, TypeInv, Working,
     Repeat, Ready, Acknowledge
<1>7. AckInv'
  BY <1>0 DEF AckInv, OnDisk, BlockFile, TypeInv, Working, Idle, Repeat, Ready, Stored,
     Acknowledge
<1>8. DeletedInv'
  BY <1>0 DEF DeletedInv, Idle, TypeInv, Working, Repeat, Ready, Stored, Acknowledge
<1>9. UsageInv'
  BY <1>0, UsageFrame DEF Repeat
<1>10. SolidInv'
  BY <1>0 DEF SolidInv, TypeInv, Repeat, Acknowledge
<1> QED
  BY <1>1, <1>2, <1>3, <1>4, <1>5, <1>6, <1>7, <1>8, <1>9, <1>10 DEF Inv

\* An insert that cannot start leaves every committed file alone.
LEMMA RejectStep ==
  ASSUME Inv, \E u \in uploads : Reject(u)
  PROVE  Inv'
<1> USE EntryFacts, FileFacts DEF Inv
<1>0. PICK u \in uploads : Reject(u)
  OBVIOUS
<1>1. TypeInv'
  BY <1>0 DEF TypeInv, Working, Idle, File, Reject, Ready, Stored
<1>2. FilesInv'
  BY <1>0 DEF FilesInv, WellFormed, TypeInv, Working, Idle, Reject, Ready, Stored
<1>3. OpInv'
  BY <1>0 DEF OpInv, Stored, BlockFile, Idle, TypeInv, Working, Reject, Ready
<1>4. DownInv'
  BY <1>0 DEF DownInv, Idle, TypeInv, Working, Reject, Ready, Stored
<1>5. ChargeInv'
  BY <1>0 DEF ChargeInv, Charged, At, Idle, TypeInv, Working, Reject, Ready, Stored
<1>6. DurableInv'
  BY <1>0 DEF DurableInv, OnDisk, Indexed, Stored, At, Idle, BlockFile, TypeInv, Working,
     Reject, Ready
<1>7. AckInv'
  BY <1>0 DEF AckInv, OnDisk, BlockFile, TypeInv, Working, Idle, Reject, Ready, Stored
<1>8. DeletedInv'
  BY <1>0 DEF DeletedInv, Idle, TypeInv, Working, Reject, Ready, Stored
<1>9. UsageInv'
  BY <1>0, UsageFrame DEF Reject
<1>10. SolidInv'
  BY <1>0 DEF SolidInv, TypeInv, Reject
<1> QED
  BY <1>1, <1>2, <1>3, <1>4, <1>5, <1>6, <1>7, <1>8, <1>9, <1>10 DEF Inv

\* create_new writes under a name no committed file has, within the capacity.
LEMMA WritePendingStep ==
  ASSUME Inv, \E u \in uploads : WritePending(u)
  PROVE  Inv'
<1> USE EntryFacts, FileFacts DEF Inv
<1>0. PICK u \in uploads : WritePending(u)
  OBVIOUS
<1>a. u \in [ticket : Ticket, content : Content] /\ u.ticket \in Ticket /\ u.content \in Content
  BY DEF TypeInv
<1>b. op' = At("written", u.ticket, u.content)
  BY <1>0 DEF WritePending
<1>c. \A e \in Entry : e[2] = "block" => files'[e] = files[e]
  BY <1>0, <1>a DEF WritePending, TypeInv
<1>1. TypeInv'
  BY <1>0 DEF TypeInv, Working, Idle, File, WritePending, Ready, Stored, Rejected, At
<1>2. FilesInv'
  BY <1>0 DEF FilesInv, WellFormed, TypeInv, Working, Idle, WritePending, Ready,
     Stored, Rejected, At
<1>3. OpInv'
  <2>1. files'[Pending(u.ticket)] =
          [ticket |-> u.ticket, content |-> u.content, flushed |-> FALSE]
    BY ZenonT(60), <1>0, <1>a DEF WritePending, TypeInv
  <2>2. files'[Block(u.ticket)] = NoFile /\ ~(EncodedBytes[u.content] > Available)
    BY <1>0, <1>a, <1>c DEF WritePending, Rejected
  <2>3. used + EncodedBytes[u.content] <= Capacity
    BY <1>a, <2>2, SizeAssumption DEF Available, TypeInv
  <2>4. QED
    <3>1. op'.step = "written" /\ op'.ticket = u.ticket /\ op'.content = u.content
      BY <1>b DEF At
    <3>2. index' = index /\ used' = used /\ index[u.ticket] = None
      BY <1>0 DEF WritePending, Stored
    <3>3. QED
      BY <2>1, <2>2, <2>3, <3>1, <3>2 DEF OpInv, Stored
<1>4. DownInv'
  BY <1>0 DEF DownInv, Idle, TypeInv, Working, WritePending, Ready, Stored, Rejected, At
<1>5. ChargeInv'
  <2>1. SUFFICES ASSUME "insert" \notin Range(badSync), "unlink" \notin cut
                 PROVE  Charged(files)' /\ Charged(synced)'
    BY <1>0 DEF WritePending, Ready, ChargeInv
  <2>2. Charged(files) /\ Charged(synced)
    BY <1>0, <2>1 DEF WritePending, Ready, ChargeInv
  <2>3. \A F, e : op # At("renamed", F[e].ticket, F[e].content)
    BY <1>0 DEF WritePending, Ready, Idle, At
  <2>4. QED
    BY <1>0, <1>c, <2>2, <2>3 DEF WritePending, Charged
<1>6. DurableInv'
  BY <1>0 DEF DurableInv, OnDisk, Indexed, Stored, At, Idle, BlockFile, TypeInv, Working,
     WritePending, Ready, Rejected
<1>7. AckInv'
  BY <1>0 DEF AckInv, OnDisk, BlockFile, TypeInv, Working, Idle, WritePending, Ready, Stored,
     Rejected, At
<1>8. DeletedInv'
  BY <1>0 DEF DeletedInv, Idle, TypeInv, Working, WritePending, Ready, Stored,
     Rejected, At
<1>9. UsageInv'
  BY <1>0, UsageFrame DEF WritePending
<1>10. SolidInv'
  BY <1>0 DEF SolidInv, TypeInv, WritePending
<1> QED
  BY <1>1, <1>2, <1>3, <1>4, <1>5, <1>6, <1>7, <1>8, <1>9, <1>10 DEF Inv

\* An upload that meets a leftover pending file only removes that file.
LEMMA PendingLeftStep ==
  ASSUME Inv, \E u \in uploads : PendingLeft(u)
  PROVE  Inv'
<1> USE EntryFacts, FileFacts DEF Inv
<1>0. PICK u \in uploads : PendingLeft(u)
  OBVIOUS
<1>1. TypeInv'
  BY <1>0 DEF TypeInv, Working, Idle, File, PendingLeft, Ready, Stored
<1>2. FilesInv'
  BY <1>0 DEF FilesInv, WellFormed, TypeInv, Working, Idle, PendingLeft, Ready, Stored
<1>3. OpInv'
  BY <1>0 DEF OpInv, Stored, BlockFile, Idle, TypeInv, Working, PendingLeft, Ready
<1>4. DownInv'
  BY <1>0 DEF DownInv, Idle, TypeInv, Working, PendingLeft, Ready, Stored
<1>5. ChargeInv'
  BY <1>0 DEF ChargeInv, Charged, At, Idle, TypeInv, Working, PendingLeft, Ready, Stored
<1>6. DurableInv'
  BY <1>0 DEF DurableInv, OnDisk, Indexed, Stored, At, Idle, BlockFile, TypeInv, Working,
     PendingLeft, Ready
<1>7. AckInv'
  BY <1>0 DEF AckInv, OnDisk, BlockFile, TypeInv, Working, Idle, PendingLeft, Ready, Stored
<1>8. DeletedInv'
  BY <1>0 DEF DeletedInv, Idle, TypeInv, Working, PendingLeft, Ready, Stored
<1>9. UsageInv'
  BY <1>0, UsageFrame DEF PendingLeft
<1>10. SolidInv'
  BY <1>0 DEF SolidInv, TypeInv, PendingLeft
<1> QED
  BY <1>1, <1>2, <1>3, <1>4, <1>5, <1>6, <1>7, <1>8, <1>9, <1>10 DEF Inv

\* sync_all makes the pending file whole.
LEMMA FlushStep ==
  ASSUME Inv, Flush
  PROVE  Inv'
<1> USE EntryFacts, FileFacts DEF Inv
<1>0. Flush
  OBVIOUS
<1>a. op.ticket \in Ticket /\ op.content \in Content /\ op \in Working
  BY <1>0, OpFacts DEF Flush
<1>b. files[Pending(op.ticket)] =
        [ticket |-> op.ticket, content |-> op.content, flushed |-> FALSE]
  BY <1>0 DEF Flush, OpInv
<1>c. files' = [files EXCEPT ![Pending(op.ticket)] = BlockFile(op.ticket, op.content)]
  <2>1. files' = [files EXCEPT ![Pending(op.ticket)] =
                    [files[Pending(op.ticket)] EXCEPT !.flushed = TRUE]]
    BY <1>0 DEF Flush
  <2>2. [files[Pending(op.ticket)] EXCEPT !.flushed = TRUE] = BlockFile(op.ticket, op.content)
    <3> DEFINE r == [files[Pending(op.ticket)] EXCEPT !.flushed = TRUE]
    <3>1. files[Pending(op.ticket)] \in File
      BY <1>a, <1>b DEF TypeInv, File
    <3>2. /\ r \in File /\ r.flushed = TRUE
          /\ r.ticket = files[Pending(op.ticket)].ticket
          /\ r.content = files[Pending(op.ticket)].content
      <4> DEFINE f == files[Pending(op.ticket)]
      <4>1. f \in File
        BY <3>1
      <4> HIDE DEF f
      <4>2. LET g == [f EXCEPT !.flushed = TRUE]
            IN  g \in File /\ g.flushed = TRUE /\ g.ticket = f.ticket /\ g.content = f.content
        BY <4>1 DEF File
      <4>3. QED
        BY <4>2 DEF f
    <3>3. \A f, g \in File :
            f.ticket = g.ticket /\ f.content = g.content /\ f.flushed = g.flushed => f = g
      BY DEF File
    <3>4. BlockFile(op.ticket, op.content) \in File
      BY <1>a
    <3>5. r = BlockFile(op.ticket, op.content)
      <4>1. /\ files[Pending(op.ticket)].ticket = op.ticket
            /\ files[Pending(op.ticket)].content = op.content
        BY <1>b
      <4> HIDE DEF r
      <4>2. QED
        BY <1>a, <3>2, <3>3, <3>4, <4>1
    <3>6. QED
      BY <3>5
  <2>3. QED
    BY <2>1, <2>2
<1>1. TypeInv'
  <2>1. files' \in [Entry -> File \cup {NoFile}]
    BY <1>a, <1>c DEF TypeInv
  <2>2. op' \in Working
    BY <1>0, <1>a DEF Flush, Working
  <2>3. QED
    BY <1>0, <2>1, <2>2 DEF Flush, TypeInv
<1>2. FilesInv'
  <2>1. WellFormed(files)'
    BY <1>a, <1>c DEF TypeInv, FilesInv, WellFormed
  <2>2. QED
    BY <1>0, <2>1 DEF Flush, FilesInv, WellFormed
<1>3. OpInv'
  BY <1>0, <1>a, <1>c DEF Flush, OpInv, TypeInv, Working, BlockFile, Stored
<1>4. DownInv'
  BY <1>0 DEF DownInv, Idle, TypeInv, Working, Flush
<1>5. ChargeInv'
  BY <1>0 DEF ChargeInv, Charged, At, Idle, TypeInv, Working, Flush
<1>6. DurableInv'
  BY <1>0 DEF DurableInv, OnDisk, Indexed, Stored, At, Idle, BlockFile, TypeInv, Working, Flush
<1>7. AckInv'
  BY <1>0 DEF AckInv, OnDisk, BlockFile, TypeInv, Working, Idle, Flush
<1>8. DeletedInv'
  BY <1>0 DEF DeletedInv, Idle, TypeInv, Working, Flush
<1>9. UsageInv'
  BY <1>0, UsageFrame DEF Flush
<1>10. SolidInv'
  BY <1>0 DEF SolidInv, TypeInv, Flush
<1> QED
  BY <1>1, <1>2, <1>3, <1>4, <1>5, <1>6, <1>7, <1>8, <1>9, <1>10 DEF Inv

\* rename commits a flushed file where there was none.
LEMMA RenameStep ==
  ASSUME Inv, Rename
  PROVE  Inv'
<1> USE EntryFacts, FileFacts DEF Inv
<1>0. Rename
  OBVIOUS
<1>a. op.ticket \in Ticket /\ op.content \in Content /\ op \in Working
  BY <1>0, OpFacts DEF Rename
<1>b. files[Pending(op.ticket)] = BlockFile(op.ticket, op.content)
      /\ files[Block(op.ticket)] = NoFile
  BY <1>0 DEF Rename, OpInv, BlockFile
<1>c. \A e \in Entry : files'[e] =
        IF e = Block(op.ticket) THEN BlockFile(op.ticket, op.content)
        ELSE IF e = Pending(op.ticket) THEN NoFile ELSE files[e]
  BY <1>0, <1>a, <1>b DEF Rename, TypeInv
<1>d. op' = At("renamed", op.ticket, op.content)
  BY <1>0, <1>a DEF Rename, Working, At
<1>1. TypeInv'
  <2>1. files' \in [Entry -> File \cup {NoFile}]
    <3>1. files' = [e \in Entry |-> files'[e]]
      BY <1>0 DEF Rename, TypeInv
    <3>2. \A e \in Entry : files'[e] \in File \cup {NoFile}
      BY <1>a, <1>c DEF TypeInv
    <3>3. QED
      BY <3>1, <3>2
  <2>2. op' \in Working
    BY <1>a, <1>d DEF At, Working
  <2>3. QED
    <3> HIDE EntryFacts, FileFacts
    <3>1. QED
      BY <1>0, <2>1, <2>2 DEF Rename, TypeInv
<1>2. FilesInv'
  <2>1. WellFormed(files)'
    BY <1>a, <1>c DEF FilesInv, WellFormed
  <2>2. QED
    <3>1. synced' = synced
      BY <1>0 DEF Rename
    <3>2. QED
      BY <2>1, <3>1 DEF FilesInv, WellFormed
<1>3. OpInv'
  BY <1>0 DEF OpInv, Stored, BlockFile, Idle, TypeInv, Working, Rename
<1>4. DownInv'
  BY <1>0 DEF DownInv, Idle, TypeInv, Working, Rename
<1>5. ChargeInv'
  <2>1. SUFFICES ASSUME "insert" \notin Range(badSync), "unlink" \notin cut
                 PROVE  Charged(files)' /\ Charged(synced)'
    BY <1>0 DEF Rename, ChargeInv
  <2>2. Charged(files) /\ Charged(synced)
    BY <1>0, <2>1 DEF Rename, ChargeInv
  <2>3. \A F, e : op # At("renamed", F[e].ticket, F[e].content)
    BY <1>0 DEF Rename, At
  <2>4. Charged(synced)'
    BY <1>0, <2>2, <2>3 DEF Rename, Charged
  <2>5. ASSUME NEW e \in Entry, e[2] = "block", files'[e] # NoFile
        PROVE  index[files'[e].ticket] = files'[e].content
               \/ op' = At("renamed", files'[e].ticket, files'[e].content)
    <3>1. CASE e = Block(op.ticket)
      BY <1>a, <1>c, <1>d, <3>1
    <3>2. CASE e # Block(op.ticket)
      <4>1. files'[e] = files[e]
        BY <1>c, <2>5, <3>2
      <4>2. QED
        BY <2>2, <2>3, <2>5, <4>1 DEF Charged
    <3>3. QED
      BY <3>1, <3>2
  <2>6. index' = index
    BY DEF Rename
  <2>7. Charged(files)'
    BY <2>5, <2>6 DEF Charged
  <2>8. QED
    BY <2>4, <2>7
<1>6. DurableInv'
  <2>1. SUFFICES ASSUME "remove" \notin Range(badSync), NEW t \in Indexed
                 PROVE  /\ OnDisk(t) => synced[Block(t)] = BlockFile(t, index[t])
                        /\ files'[Block(t)] = BlockFile(t, index[t])
    <3>1. /\ synced' = synced /\ index' = index /\ badSync' = badSync
          /\ cut' = cut /\ solid' = solid
      BY DEF Rename
    <3>2. Indexed' = Indexed
      BY <3>1 DEF Indexed, Stored
    <3>3. QED
      BY <3>1, <3>2 DEF DurableInv, OnDisk
  <2>2. op # At("unlinked", t, index[t])
    BY <1>0 DEF Rename, At
  <2>3. /\ OnDisk(t) => synced[Block(t)] = BlockFile(t, index[t])
        /\ files[Block(t)] = BlockFile(t, index[t])
    BY <2>1, <2>2 DEF DurableInv
  <2>4. t \in Ticket /\ index[t] \in Content
    BY DEF Indexed, Stored, TypeInv
  <2>5. Block(t) # Pending(op.ticket) /\ Block(t) # Block(op.ticket)
    BY <1>a, <1>b, <2>3, <2>4
  <2>6. QED
    BY <1>c, <2>3, <2>4, <2>5
<1>7. AckInv'
  BY <1>0 DEF AckInv, OnDisk, BlockFile, TypeInv, Working, Idle, Rename
<1>8. DeletedInv'
  <2>1. SUFFICES ASSUME NEW t \in deleted PROVE op.ticket # t /\ files'[Block(t)].ticket # t
    <3>1. op'.ticket = op.ticket
      BY <1>d DEF At
    <3>2. deleted' = deleted /\ index' = index /\ synced' = synced /\ uploads' = uploads
      BY <1>0 DEF Rename
    <3>3. QED
      BY <3>1, <3>2 DEF DeletedInv
  <2>2. t \in Ticket /\ op.ticket # t
    BY DEF TypeInv, DeletedInv
  <2>3. QED
    BY <1>a, <1>c, <2>2 DEF DeletedInv
<1>9. UsageInv'
  BY <1>0, UsageFrame DEF Rename
<1>10. SolidInv'
  BY <1>0 DEF SolidInv, TypeInv, Rename
<1> QED
  BY <1>1, <1>2, <1>3, <1>4, <1>5, <1>6, <1>7, <1>8, <1>9, <1>10 DEF Inv

\* The directory fsync, the index entry and the charge of an insert: what is
\* acknowledged is on disk, and its bytes are counted once.
LEMMA PublishStep ==
  ASSUME Inv, Publish
  PROVE  Inv'
<1> USE EntryFacts, FileFacts DEF Inv
<1>0. Publish
  OBVIOUS
<1>a. op.ticket \in Ticket /\ op.content \in Content /\ EncodedBytes[op.content] \in Nat
      /\ op = At("renamed", op.ticket, op.content)
  BY <1>0, OpFacts DEF Publish
<1>b. \A t \in Ticket : index'[t] = IF t = op.ticket THEN op.content ELSE index[t]
  BY <1>0 DEF Publish, TypeInv
<1>c. /\ synced' = Commits(files) /\ synced' \in Directory
      /\ \A e \in Entry : e[2] = "block" => synced'[e] = files[e]
      /\ \A t \in Ticket : synced'[Block(t)] = files[Block(t)]
  BY <1>0, CommitsFacts DEF Publish, TypeInv, Directory
<1>d. solid' \subseteq Ticket
  BY <1>0 DEF Publish, Covered, Indexed
<1>1. TypeInv'
  <2>1. op' = Idle /\ index' \in [Ticket -> Content \cup {None}] /\ used' \in Nat
    BY <1>0, <1>a DEF Publish, TypeInv
  <2>2. acked' \in [Ticket -> Content \cup {None}]
    BY <1>0, <1>a DEF Publish, TypeInv, Acknowledge
  <2>3. QED
    BY <1>0, <1>c, <1>d, <2>1, <2>2 DEF Publish, TypeInv, Directory
<1>2. FilesInv'
  <2>1. WellFormed(Commits(files)) /\ files' = files
    BY <1>0, CommitsFacts DEF Publish, FilesInv, TypeInv, Directory
  <2>2. QED
    BY <1>c, <2>1 DEF FilesInv, WellFormed
<1>3. OpInv'
  BY <1>0 DEF OpInv, Stored, BlockFile, Idle, TypeInv, Working, Publish, Acknowledge
<1>4. DownInv'
  BY <1>0 DEF DownInv, Idle, TypeInv, Working, Publish, Acknowledge
<1>5. ChargeInv'
  <2>1. SUFFICES ASSUME "insert" \notin Range(badSync), "unlink" \notin cut
                 PROVE  Charged(files)' /\ Charged(synced)'
    BY <1>0 DEF Publish, ChargeInv
  <2>2. ASSUME NEW e \in Entry, e[2] = "block", files[e] # NoFile
        PROVE  index'[files[e].ticket] = files[e].content
    <3>1. \/ index[files[e].ticket] = files[e].content
          \/ op = At("renamed", files[e].ticket, files[e].content)
      BY <1>0, <2>1, <2>2 DEF Publish, ChargeInv, Charged
    <3>2. files[e] \in File /\ NameOf[files[e].ticket] = e[1]
      BY <2>2 DEF TypeInv, FilesInv, WellFormed
    <3>3. CASE files[e].ticket = op.ticket
      <4>1. e = Block(op.ticket)
        BY <2>2, <3>2, <3>3
      <4>2. files[e] = BlockFile(op.ticket, op.content)
        BY <1>0, <4>1 DEF Publish, OpInv
      <4>3. QED
        BY <1>a, <1>b, <4>2
    <3>4. CASE files[e].ticket # op.ticket
      <4>1. index[files[e].ticket] = files[e].content
        BY <3>1, <3>4 DEF At
      <4>2. QED
        BY <1>b, <3>2, <3>4, <4>1
    <3>5. QED
      BY <3>3, <3>4
  <2>3. QED
    BY <1>0, <1>c, <2>2 DEF Publish, Charged
<1>6. DurableInv'
  <2>1. SUFFICES ASSUME "remove" \notin Range(badSync), NEW t \in Indexed'
                 PROVE  files[Block(t)] = BlockFile(t, index'[t])
    <3>1. \A r \in Indexed' : r \in Ticket
      BY DEF Indexed
    <3>2. files' = files /\ badSync' = badSync
      BY <1>0 DEF Publish
    <3>3. QED
      BY <1>c, <2>1, <3>1, <3>2 DEF DurableInv
  <2>2. t \in Ticket /\ index'[t] # None
    BY <2>1 DEF Indexed, Stored
  <2>3. CASE t = op.ticket
    BY <1>0, <1>b, <2>2, <2>3 DEF Publish, OpInv
  <2>4. CASE t # op.ticket
    <3>1. t \in Indexed /\ index'[t] = index[t]
      BY <1>b, <2>2, <2>4 DEF Indexed, Stored
    <3>2. op # At("unlinked", t, index[t])
      BY <1>0 DEF Publish, At
    <3>3. QED
      BY <2>1, <3>1, <3>2 DEF DurableInv, OnDisk
  <2>5. QED
    BY <2>3, <2>4
<1>7. AckInv'
  <2>1. SUFFICES ASSUME "remove" \notin Range(badSync), NEW t \in Ticket,
                        acked'[t] # None, OnDisk(t)'
                 PROVE  index'[t] = acked'[t]
    BY <1>0 DEF Publish, AckInv, Idle
  <2>2. CASE t = op.ticket
    BY <1>0, <1>b, <2>2 DEF Publish, Acknowledge, TypeInv
  <2>3. CASE t # op.ticket
    <3>1. acked'[t] = acked[t] /\ index'[t] = index[t]
      BY <1>0, <1>b, <2>3 DEF Publish, Acknowledge, TypeInv
    <3>2. CASE t \in solid'
      BY <1>0, <3>2 DEF Publish, Covered
    <3>3. CASE t \notin solid'
      BY <1>0, <2>1, <3>1, <3>3 DEF Publish, AckInv, OnDisk
    <3>4. QED
      BY <3>2, <3>3
  <2>4. QED
    BY <2>2, <2>3
<1>8. DeletedInv'
  BY <1>0, <1>b, <1>c DEF DeletedInv, Idle, TypeInv, Publish
<1>9. UsageInv'
  <2>1. /\ op.ticket \notin Indexed /\ used + EncodedBytes[op.content] <= Capacity
        /\ IsFiniteSet(Indexed) /\ used = SumOf(Weight, Indexed) /\ used \in Nat
    BY <1>0 DEF Publish, OpInv, UsageInv, UsageIsExact, Indexed, Stored, Weight, TypeInv
  <2>2. Indexed' = Indexed \cup {op.ticket}
    BY <1>a, <1>b DEF Indexed, Stored
  <2>3. /\ \A t \in Indexed : Weight'[t] = Weight[t]
        /\ Weight'[op.ticket] = EncodedBytes[op.content]
    BY <1>a, <1>b, <2>1, <2>2 DEF Weight, Indexed
  <2>4. IsFiniteSet(Indexed \cup {op.ticket})
    BY <2>1, FS_AddElement
  <2>5. Weight' \in [Indexed \cup {op.ticket} -> Int]
    <3>1. \A t \in Indexed \cup {op.ticket} : Weight'[t] \in Int
      BY <1>a, <2>3, WeightFacts
    <3>2. Weight' = [t \in Indexed \cup {op.ticket} |-> Weight'[t]]
      BY <2>2 DEF Weight
    <3>3. QED
      BY <3>1, <3>2
  <2>6. SumOf(Weight', Indexed \cup {op.ticket}) = Weight'[op.ticket] + SumOf(Weight', Indexed)
    BY <2>1, <2>5, SumOfAdd
  <2>7. SumOf(Weight', Indexed) = SumOf(Weight, Indexed)
    BY <2>1, <2>3, WeightFacts, SumOfSame
  <2>8. used' = used + EncodedBytes[op.content]
    BY <1>0 DEF Publish
  <2>9. used' = SumOf(Weight', Indexed') /\ used' <= Capacity
    BY <1>a, <2>1, <2>2, <2>3, <2>6, <2>7, <2>8
  <2>10. QED
    BY <2>2, <2>4, <2>9 DEF UsageInv, UsageIsExact, Weight
<1>10. SolidInv'
  BY <1>0 DEF SolidInv, TypeInv, Publish, Covered, Indexed, Stored, Acknowledge
<1> QED
  BY <1>1, <1>2, <1>3, <1>4, <1>5, <1>6, <1>7, <1>8, <1>9, <1>10 DEF Inv

\* A failed insert leaves what was acknowledged; only a failed directory fsync leaves
\* a file nobody charged.
LEMMA InsertFailsStep ==
  ASSUME Inv, InsertFails
  PROVE  Inv'
<1> USE EntryFacts, FileFacts DEF Inv
<1>0. InsertFails
  OBVIOUS
<1>a. /\ Range(badSync) \subseteq Range(badSync')
      /\ badSync' \in Seq({"insert", "remove"})
      /\ op.step = "renamed" => "insert" \in Range(badSync')
  <2>1. badSync \in Seq({"insert", "remove"})
    BY DEF TypeInv
  <2>2. CASE op.step = "renamed"
    <3>1. badSync' = Append(badSync, "insert")
      BY <1>0, <2>2 DEF InsertFails
    <3>2. QED
      BY <2>1, <2>2, <3>1, RangeAppend
  <2>3. CASE op.step # "renamed"
    BY <1>0, <2>1, <2>3 DEF InsertFails
  <2>4. QED
    BY <2>2, <2>3
<1>b. op.ticket \in Ticket
  BY <1>0, OpFacts DEF InsertFails
<1>c. \A e \in Entry : files'[e] = files[e] \/ (files'[e] = NoFile /\ e = Pending(op.ticket))
  BY <1>0, <1>b DEF InsertFails, TypeInv
<1>1. TypeInv'
  <2>1. files' \in [Entry -> File \cup {NoFile}]
    BY <1>0, <1>b DEF InsertFails, TypeInv
  <2>2. QED
    BY <1>0, <1>a, <2>1 DEF InsertFails, TypeInv
<1>2. FilesInv'
  <2>1. WellFormed(files)'
    BY <1>c DEF FilesInv, WellFormed
  <2>2. QED
    BY <1>0, <2>1 DEF InsertFails, FilesInv, WellFormed
<1>3. OpInv'
  BY <1>0 DEF OpInv, Stored, BlockFile, Idle, TypeInv, Working, InsertFails
<1>4. DownInv'
  BY <1>0 DEF DownInv, Idle, TypeInv, Working, InsertFails
<1>5. ChargeInv'
  <2>1. CASE op.step = "renamed"
    BY <1>a, <2>1 DEF ChargeInv
  <2>2. CASE op.step # "renamed"
    <3>1. SUFFICES ASSUME "insert" \notin Range(badSync), "unlink" \notin cut
                   PROVE  Charged(files)' /\ Charged(synced)'
      BY <1>0, <1>a DEF InsertFails, ChargeInv
    <3>2. \A F, e : op # At("renamed", F[e].ticket, F[e].content)
      BY <2>2 DEF At
    <3>3. Charged(files) /\ Charged(synced)
      BY <1>0, <3>1 DEF InsertFails, ChargeInv
    <3>4. QED
      BY <1>0, <1>c, <3>2, <3>3 DEF InsertFails, Charged
  <2>3. QED
    BY <2>1, <2>2
<1>6. DurableInv'
  <2>1. SUFFICES ASSUME "remove" \notin Range(badSync), NEW t \in Indexed
                 PROVE  /\ OnDisk(t) => synced[Block(t)] = BlockFile(t, index[t])
                        /\ files'[Block(t)] = BlockFile(t, index[t])
    BY <1>0, <1>a DEF InsertFails, DurableInv, OnDisk, Indexed, Stored
  <2>2. op # At("unlinked", t, index[t])
    BY <1>0 DEF InsertFails, At
  <2>3. t \in Ticket /\ Block(t) # Pending(op.ticket)
    BY <1>b DEF Indexed
  <2>4. QED
    BY <1>c, <2>1, <2>2, <2>3 DEF DurableInv, OnDisk
<1>7. AckInv'
  <2>1. SUFFICES ASSUME "remove" \notin Range(badSync), NEW t \in Ticket, acked[t] # None,
                        OnDisk(t)
                 PROVE  index[t] = acked[t]
    BY <1>0, <1>a DEF InsertFails, AckInv, OnDisk, Idle
  <2>2. QED
    BY <1>0, <2>1 DEF InsertFails, AckInv, OnDisk
<1>8. DeletedInv'
  <2>1. SUFFICES ASSUME NEW t \in deleted PROVE files'[Block(t)].ticket # t
    BY <1>0 DEF InsertFails, DeletedInv, TypeInv, Idle
  <2>2. t \in Ticket /\ Block(t) # Pending(op.ticket)
    BY <1>b DEF TypeInv
  <2>3. QED
    BY <1>c, <2>2 DEF DeletedInv
<1>9. UsageInv'
  BY <1>0, UsageFrame DEF InsertFails
<1>10. SolidInv'
  BY <1>0 DEF SolidInv, TypeInv, InsertFails
<1> QED
  BY <1>1, <1>2, <1>3, <1>4, <1>5, <1>6, <1>7, <1>8, <1>9, <1>10 DEF Inv

\* remove_file takes the file of that ticket only, unless an earlier deletion failed.
LEMMA UnlinkStep ==
  ASSUME Inv, \E t \in Ticket : Unlink(t)
  PROVE  Inv'
<1> USE EntryFacts, FileFacts DEF Inv
<1>0. PICK t \in Ticket : Unlink(t)
  OBVIOUS
<1>1. TypeInv'
  BY <1>0 DEF TypeInv, Working, Idle, File, Unlink, Ready, Stored, At
<1>2. FilesInv'
  BY <1>0 DEF FilesInv, WellFormed, TypeInv, Working, Idle, Unlink, Ready, Stored, At
<1>3. OpInv'
  BY <1>0 DEF OpInv, Stored, BlockFile, Idle, TypeInv, Working, Unlink, Ready, At
<1>4. DownInv'
  BY <1>0 DEF DownInv, Idle, TypeInv, Working, Unlink, Ready, Stored, At
<1>5. ChargeInv'
  BY <1>0 DEF ChargeInv, Charged, At, Idle, TypeInv, Working, Unlink, Ready, Stored
<1>6. DurableInv'
  <2>1. SUFFICES ASSUME "remove" \notin Range(badSync), NEW s \in Indexed
                 PROVE  /\ OnDisk(s) => synced[Block(s)] = BlockFile(s, index[s])
                        /\ \/ files'[Block(s)] = BlockFile(s, index[s])
                           \/ op' = At("unlinked", s, index[s])
    BY <1>0 DEF Unlink, DurableInv, OnDisk, Indexed, Stored
  <2>2. op = Idle
    BY <1>0 DEF Unlink, Ready
  <2>3. \A r \in Indexed : files[Block(r)] = BlockFile(r, index[r])
    BY <2>1, <2>2 DEF DurableInv, OnDisk, Idle, At
  <2>4. s \in Ticket /\ t \in Indexed /\ index[s] \in Content /\ index[t] \in Content
    BY <1>0 DEF Unlink, Indexed, Stored, TypeInv
  <2>5. CASE s = t
    BY <1>0, <2>1, <2>5 DEF Unlink, DurableInv, OnDisk
  <2>6. CASE s # t
    <3>1. Block(s) # Block(t)
      BY <2>3, <2>4, <2>6
    <3>2. QED
      BY <1>0, <2>1, <2>3, <2>4, <3>1 DEF Unlink, DurableInv, OnDisk, TypeInv
  <2>7. QED
    BY <2>5, <2>6
<1>7. AckInv'
  BY <1>0 DEF AckInv, OnDisk, BlockFile, TypeInv, Working, Idle, Unlink, Ready, Stored, At
<1>8. DeletedInv'
  BY <1>0 DEF DeletedInv, Idle, TypeInv, Working, Unlink, Ready, Stored, At
<1>9. UsageInv'
  BY <1>0, UsageFrame DEF Unlink
<1>10. SolidInv'
  BY <1>0 DEF SolidInv, TypeInv, Unlink
<1> QED
  BY <1>1, <1>2, <1>3, <1>4, <1>5, <1>6, <1>7, <1>8, <1>9, <1>10 DEF Inv

\* The directory fsync of a deletion, then the index entry and its charge.
LEMMA FinishRemoveStep ==
  ASSUME Inv, FinishRemove
  PROVE  Inv'
<1> USE EntryFacts, FileFacts DEF Inv
<1>0. FinishRemove
  OBVIOUS
<1>a. op.ticket \in Ticket /\ op.content \in Content /\ index[op.ticket] = op.content
  BY <1>0, OpFacts DEF FinishRemove, OpInv
<1>c. /\ synced' = Commits(files) /\ synced' \in Directory
      /\ \A e \in Entry : e[2] = "block" => synced'[e] = files[e]
      /\ \A t \in Ticket : synced'[Block(t)] = files[Block(t)]
  BY <1>0, CommitsFacts DEF FinishRemove, TypeInv, Directory
<1>d. \A t \in Ticket : index'[t] = IF t = op.ticket THEN None ELSE index[t]
  BY <1>0 DEF FinishRemove, TypeInv
<1>1. TypeInv'
  <2>1. used' \in Nat
    <3>1. Stored(op.ticket)
      BY <1>a DEF Stored
    <3>2. used - EncodedBytes[index[op.ticket]] \in Nat
      BY <1>a, <3>1, UsedRemoves
    <3>3. QED
      BY <1>0, <3>2 DEF FinishRemove
  <2>2. QED
    <3>1. solid' \subseteq Ticket
      BY <1>0 DEF FinishRemove, Covered, Indexed
    <3>2. op' = Idle /\ index' \in [Ticket -> Content \cup {None}] /\ deleted' \subseteq Ticket
      BY <1>0, <1>a DEF FinishRemove, TypeInv
    <3>3. QED
      BY <1>0, <1>c, <2>1, <3>1, <3>2 DEF FinishRemove, TypeInv, Directory
<1>2. FilesInv'
  <2>1. WellFormed(Commits(files)) /\ files' = files
    BY <1>0, CommitsFacts DEF FinishRemove, FilesInv, TypeInv, Directory
  <2>2. QED
    BY <1>c, <2>1 DEF FilesInv, WellFormed
<1>3. OpInv'
  BY <1>0 DEF OpInv, Stored, BlockFile, Idle, TypeInv, Working, FinishRemove
<1>4. DownInv'
  BY <1>0 DEF DownInv, Idle, TypeInv, Working, FinishRemove
<1>5. ChargeInv'
  <2>1. SUFFICES ASSUME "insert" \notin Range(badSync), "unlink" \notin cut
                 PROVE  Charged(files)' /\ Charged(synced)'
    BY <1>0 DEF FinishRemove, ChargeInv
  <2>2. ASSUME NEW e \in Entry, e[2] = "block", files[e] # NoFile
        PROVE  index'[files[e].ticket] = files[e].content
    <3>1. index[files[e].ticket] = files[e].content
      BY <1>0, <2>1, <2>2 DEF FinishRemove, ChargeInv, Charged, At
    <3>2. files[e] \in File /\ NameOf[files[e].ticket] = e[1]
      BY <2>2 DEF TypeInv, FilesInv, WellFormed
    <3>3. e = Block(files[e].ticket)
      BY <2>2, <3>2
    <3>4. files[Block(op.ticket)] = NoFile
      BY <1>0 DEF FinishRemove, OpInv
    <3>5. files[e].ticket # op.ticket
      BY <2>2, <3>3, <3>4
    <3>6. QED
      BY <1>0, <3>1, <3>2, <3>5 DEF FinishRemove, TypeInv
  <2>3. QED
    BY <1>0, <1>c, <2>2 DEF FinishRemove, Charged
<1>6. DurableInv'
  <2>1. SUFFICES ASSUME "remove" \notin Range(badSync), NEW t \in Indexed'
                 PROVE  files[Block(t)] = BlockFile(t, index'[t])
    <3>1. \A r \in Indexed' : r \in Ticket
      BY DEF Indexed
    <3>2. files' = files /\ badSync' = badSync
      BY <1>0 DEF FinishRemove
    <3>3. QED
      BY <1>c, <2>1, <3>1, <3>2 DEF DurableInv
  <2>2. t \in Indexed /\ t # op.ticket /\ index'[t] = index[t]
    BY <1>d, <2>1 DEF Indexed, Stored
  <2>3. op # At("unlinked", t, index[t])
    BY <2>2 DEF At
  <2>4. QED
    BY <2>1, <2>2, <2>3 DEF DurableInv
<1>7. AckInv'
  <2>1. SUFFICES ASSUME "remove" \notin Range(badSync), NEW t \in Ticket,
                        acked[t] # None, OnDisk(t)'
                 PROVE  index'[t] = acked[t]
    BY <1>0 DEF FinishRemove, AckInv, Idle
  <2>2. CASE t \in solid'
    BY <1>0, <1>d, <2>2 DEF FinishRemove, Covered
  <2>3. CASE t \notin solid'
    <3>1. "rename" \notin cut
      BY <1>0, <2>1, <2>3 DEF FinishRemove, OnDisk
    <3>2. index[t] = acked[t] /\ t # op.ticket
      BY <1>0, <2>1, <3>1 DEF FinishRemove, AckInv, OnDisk
    <3>3. QED
      BY <1>d, <3>2
  <2>4. QED
    BY <2>2, <2>3
<1>8. DeletedInv'
  <2>1. SUFFICES ASSUME NEW t \in deleted'
                 PROVE  /\ index'[t] = None /\ files[Block(t)].ticket # t
                        /\ \A u \in uploads : u.ticket # t
    <3>1. deleted' \subseteq Ticket
      BY <1>0, <1>a DEF FinishRemove, TypeInv
    <3>2. QED
      BY <1>0, <1>c, <3>1 DEF FinishRemove, DeletedInv, Idle
  <2>2. t \in Ticket
    BY <1>0, <1>a DEF FinishRemove, TypeInv
  <2>3. CASE t \in deleted
    BY <1>0, <2>2, <2>3 DEF FinishRemove, DeletedInv, TypeInv
  <2>4. CASE t \notin deleted
    <3>1. t = op.ticket /\ \A u \in uploads : u.ticket # t
      BY <1>0, <2>4 DEF FinishRemove
    <3>2. index'[t] = None /\ files[Block(t)] = NoFile
      BY <1>0, <1>a, <3>1 DEF FinishRemove, TypeInv, OpInv
    <3>3. QED
      BY <2>2, <3>1, <3>2
  <2>5. QED
    BY <2>3, <2>4
<1>9. UsageInv'
  <2>1. Stored(op.ticket)
    BY <1>a DEF Stored
  <2>2. Indexed' = Indexed \ {op.ticket}
    BY <1>0, <1>a DEF FinishRemove, Indexed, Stored, TypeInv
  <2>3. Weight' = [s \in Indexed \ {op.ticket} |-> EncodedBytes[index[s]]]
    BY <1>0, <2>2 DEF FinishRemove, Weight, Indexed, TypeInv
  <2>4. /\ used' \in Nat
        /\ used' = SumOf([s \in Indexed \ {op.ticket} |-> EncodedBytes[index[s]]],
                         Indexed \ {op.ticket})
    <3>1. used' = used - EncodedBytes[index[op.ticket]]
      BY <1>0 DEF FinishRemove
    <3>2. /\ used - EncodedBytes[index[op.ticket]] \in Nat
          /\ used - EncodedBytes[index[op.ticket]]
               = SumOf([s \in Indexed \ {op.ticket} |-> EncodedBytes[index[s]]],
                       Indexed \ {op.ticket})
      BY <1>a, <2>1, UsedRemoves
    <3> HIDE EntryFacts, FileFacts
    <3>3. QED
      BY <3>1, <3>2
  <2>5. used' = SumOf(Weight', Indexed')
    BY <2>2, <2>3, <2>4
  <2>6. IsFiniteSet(Indexed') /\ used <= Capacity /\ used \in Nat
    BY <2>2, FS_RemoveElement DEF UsageInv, UsageIsExact, TypeInv
  <2>7. used' <= Capacity
    <3>1. used' = used - EncodedBytes[op.content] /\ EncodedBytes[op.content] \in Nat
      BY <1>0, <1>a, SizeAssumption DEF FinishRemove
    <3>2. QED
      BY <2>6, <3>1, SizeAssumption
  <2>8. QED
    BY <2>5, <2>6, <2>7 DEF UsageInv, UsageIsExact, Weight
<1>10. SolidInv'
  BY <1>0 DEF SolidInv, TypeInv, FinishRemove, Covered, Indexed, Stored
<1> QED
  BY <1>1, <1>2, <1>3, <1>4, <1>5, <1>6, <1>7, <1>8, <1>9, <1>10 DEF Inv

\* A deletion whose directory fsync failed is remembered.
LEMMA RemoveFailsStep ==
  ASSUME Inv, RemoveFails
  PROVE  Inv'
<1> USE EntryFacts, FileFacts DEF Inv
<1>0. RemoveFails
  OBVIOUS
<1>a. /\ "remove" \in Range(badSync')
      /\ Range(badSync) \subseteq Range(badSync')
      /\ badSync' \in Seq({"insert", "remove"})
  <2>1. badSync \in Seq({"insert", "remove"}) /\ badSync' = Append(badSync, "remove")
    BY <1>0 DEF TypeInv, RemoveFails
  <2>2. QED
    BY <2>1, RangeAppend
<1>1. TypeInv'
  BY <1>0, <1>a DEF RemoveFails, TypeInv
<1>2. FilesInv'
  BY <1>0 DEF FilesInv, WellFormed, TypeInv, Working, Idle, RemoveFails
<1>3. OpInv'
  BY <1>0 DEF OpInv, Stored, BlockFile, Idle, TypeInv, Working, RemoveFails
<1>4. DownInv'
  BY <1>0 DEF DownInv, Idle, TypeInv, Working, RemoveFails
<1>5. ChargeInv'
  <2>1. op.step # "renamed"
    BY <1>0 DEF RemoveFails
  <2>2. QED
    BY <1>0, <1>a, <2>1 DEF RemoveFails, ChargeInv, Charged, At
<1>6. DurableInv'
  BY <1>a DEF DurableInv, OnDisk
<1>7. AckInv'
  BY <1>a DEF AckInv, OnDisk
<1>8. DeletedInv'
  BY <1>0 DEF DeletedInv, Idle, TypeInv, Working, RemoveFails
<1>9. UsageInv'
  BY <1>0, UsageFrame DEF RemoveFails
<1>10. SolidInv'
  BY <1>0 DEF SolidInv, TypeInv, RemoveFails
<1> QED
  BY <1>1, <1>2, <1>3, <1>4, <1>5, <1>6, <1>7, <1>8, <1>9, <1>10 DEF Inv

\* Whatever mixture of the directory and the synced one a crash leaves fits the
\* capacity, whether or not the service runs.
LEMMA MixesFit ==
  ASSUME Inv, "insert" \notin Range(badSync), "unlink" \notin cut,
         NEW F \in Directory, Mixes(F)
  PROVE  BytesOf(F) <= Capacity
<1>1. CASE up
  BY <1>1, ChargedFits DEF Mixes
<1>2. CASE ~up
  BY <1>2 DEF Inv, ChargeInv
<1>3. QED
  BY <1>1, <1>2

\* An acknowledged block that an fsync covered is in the directory and on disk.
LEMMA AckedOnDisk ==
  ASSUME Inv, "remove" \notin Range(badSync), NEW t \in Ticket, acked[t] # None, OnDisk(t)
  PROVE  /\ files[Block(t)] = BlockFile(t, acked[t])
         /\ synced[Block(t)] = BlockFile(t, acked[t])
<1> USE DEF Inv
<1>1. CASE up
  <2>1. index[t] = acked[t] /\ ~(op.step = "unlinked" /\ op.ticket = t)
    BY <1>1 DEF AckInv
  <2>2. t \in Indexed /\ op # At("unlinked", t, index[t])
    BY <2>1 DEF Indexed, Stored, At
  <2>3. QED
    BY <2>1, <2>2 DEF DurableInv
<1>2. CASE ~up
  BY <1>2 DEF AckInv
<1>3. QED
  BY <1>1, <1>2

\* A process that is gone has indexed and charged nothing.
LEMMA GoneUsage ==
  ASSUME ProcessGone
  PROVE  UsageInv' /\ Indexed' = {}
<1>0. index' = [t \in Ticket |-> None] /\ used' = 0
  BY DEF ProcessGone
<1>1. Indexed' = {}
  BY <1>0 DEF Indexed, Stored
<1>2. Weight' \in [Indexed' -> Int] /\ IsFiniteSet(Indexed')
  BY <1>1, FS_EmptySet DEF Weight
<1>3. SumOf(Weight', Indexed') = 0
  BY <1>1, SumOfEmpty
<1>4. QED
  BY <1>0, <1>1, <1>2, <1>3, SizeAssumption DEF UsageInv, UsageIsExact, Weight

\* A process that dies leaves the directory as it is; `cut` says what of it no fsync has
\* covered.
LEMMA KillStep ==
  ASSUME Inv, Kill
  PROVE  Inv'
<1> USE EntryFacts, FileFacts DEF Inv
<1>0. /\ up /\ up' = FALSE /\ index' = [t \in Ticket |-> None]
      /\ used' = 0 /\ op' = Idle /\ uploads' = {}
      /\ files' = files /\ synced' = synced /\ acked' = acked /\ deleted' = deleted
      /\ badSync' = badSync /\ solid' = solid
      /\ cut \subseteq cut' /\ cut' \subseteq cut \cup {"rename", "unlink"}
      /\ Unsynced(files, synced) => "rename" \in cut'
      /\ Unsynced(synced, files) => "unlink" \in cut'
  BY DEF Kill, ProcessGone
<1>1. \A e \in Entry : e[2] = "block" => e = <<e[1], "block">> /\ e[1] \in Name
  BY DEF Entry
<1>2. TypeInv' /\ FilesInv'
  BY <1>0 DEF TypeInv, FilesInv, WellFormed
<1>3. OpInv' /\ SolidInv'
  BY <1>0 DEF OpInv, SolidInv, Idle
<1>4. DownInv'
  <2>1. "rename" \notin cut' =>
          \A e \in Entry : e[2] = "block" /\ files[e] # NoFile => files[e] = synced[e]
    BY <1>0, <1>1 DEF Unsynced
  <2>2. "unlink" \notin cut' =>
          \A e \in Entry : e[2] = "block" /\ synced[e] # NoFile => synced[e] = files[e]
    BY <1>0, <1>1 DEF Unsynced
  <2>3. QED
    BY <1>0, <2>1, <2>2 DEF DownInv
<1>5. ChargeInv'
  <2>1. SUFFICES ASSUME "insert" \notin Range(badSync), "unlink" \notin cut,
                        NEW F \in Directory, Mixes(F)
                 PROVE  BytesOf(F) <= Capacity
    BY <1>0 DEF ChargeInv, Mixes
  <2>2. QED
    BY <2>1, MixesFit
<1>6. DurableInv'
  BY GoneUsage DEF DurableInv, Kill
<1>7. AckInv'
  <2>1. SUFFICES ASSUME "remove" \notin Range(badSync), NEW t \in Ticket, acked[t] # None,
                        OnDisk(t)
                 PROVE  /\ files[Block(t)] = BlockFile(t, acked[t])
                        /\ synced[Block(t)] = BlockFile(t, acked[t])
    BY <1>0 DEF AckInv, OnDisk, Idle
  <2>2. QED
    BY <2>1, AckedOnDisk
<1>8. DeletedInv'
  BY <1>0 DEF DeletedInv, TypeInv, Idle
<1>9. UsageInv'
  BY GoneUsage DEF Kill
<1> QED
  BY <1>2, <1>3, <1>4, <1>5, <1>6, <1>7, <1>8, <1>9 DEF Inv

\* A crash of the host takes entries back to the last directory fsync and tears unflushed files:
\* no committed file is torn, none that was acknowledged is lost, none that was deleted
\* comes back, and what is left fits the capacity.
LEMMA CrashStep ==
  ASSUME Inv, Crash
  PROVE  Inv'
<1> USE EntryFacts, FileFacts DEF Inv
<1>0. /\ synced' = Commits(files') /\ up' = FALSE /\ index' = [t \in Ticket |-> None]
      /\ used' = 0 /\ op' = Idle /\ uploads' = {}
      /\ acked' = acked /\ deleted' = deleted /\ badSync' = badSync
      /\ cut' = cut /\ solid' = solid
  BY DEF Crash, ProcessGone
<1>1. PICK lost \in SUBSET {e \in Entry : files[e] # synced[e]} :
        LET kept == [e \in Entry |-> IF e \in lost THEN synced[e] ELSE files[e]]
        IN  \E torn \in SUBSET {e \in Entry : ~kept[e].flushed} :
              files' = [e \in Entry |->
                IF e \in torn THEN [kept[e] EXCEPT !.content = Torn] ELSE kept[e]]
  BY DEF Crash
<1> DEFINE kept == [e \in Entry |-> IF e \in lost THEN synced[e] ELSE files[e]]
<1>2. PICK torn \in SUBSET {e \in Entry : ~kept[e].flushed} :
        files' = [e \in Entry |->
          IF e \in torn THEN [kept[e] EXCEPT !.content = Torn] ELSE kept[e]]
  BY <1>1
<1>3. \A e \in Entry : kept[e] = files[e] \/ kept[e] = synced[e]
  OBVIOUS
<1>4. \A e \in Entry : kept[e] \in File \cup {NoFile}
  BY <1>3 DEF TypeInv
<1> HIDE DEF kept
<1>5. ASSUME NEW e \in Entry
      PROVE  /\ files'[e] \in File \cup {NoFile}
             /\ e[2] = "block" => files'[e] = files[e] \/ files'[e] = synced[e]
             /\ files'[e] # NoFile => kept[e] # NoFile /\ files'[e].ticket = kept[e].ticket
  <2>1. CASE e \in torn
    <3>1. kept[e] \in File /\ ~kept[e].flushed
      BY <1>4, <2>1
    <3>2. files'[e] = [kept[e] EXCEPT !.content = Torn]
      BY <1>2, <2>1
    <3>3. ASSUME NEW f \in File
          PROVE  /\ [f EXCEPT !.content = Torn] \in File
                 /\ [f EXCEPT !.content = Torn].ticket = f.ticket
      BY DEF File
    <3>4. e[2] # "block"
      BY <1>3, <3>1 DEF FilesInv, WellFormed
    <3>5. QED
      BY <3>1, <3>2, <3>3, <3>4
  <2>2. CASE e \notin torn
    BY <1>2, <1>3, <1>4, <2>2
  <2>3. QED
    BY <2>1, <2>2
<1>a. files' \in Directory
  <2>1. files' = [e \in Entry |-> files'[e]]
    BY <1>2
  <2>2. QED
    BY <1>5, <2>1 DEF Directory
<1>b. /\ synced' \in Directory
      /\ \A e \in Entry : e[2] = "block" => synced'[e] = files'[e]
      /\ \A t \in Ticket : synced'[Block(t)] = files'[Block(t)]
  BY <1>0, <1>a, CommitsFacts
<1>6. TypeInv'
  BY <1>0, <1>a, <1>b DEF TypeInv, Directory
<1>7. FilesInv'
  <2>1. WellFormed(files)'
    <3>1. \A e \in Entry : files'[e] # NoFile => NameOf[files'[e].ticket] = e[1]
      BY <1>3, <1>5 DEF FilesInv, WellFormed
    <3>2. QED
      BY <1>5, <3>1 DEF FilesInv, WellFormed
  <2>2. QED
    <3>1. WellFormed(files') /\ WellFormed(Commits(files'))
      BY <1>a, <2>1, CommitsFacts DEF WellFormed
    <3>2. QED
      BY <1>0, <3>1 DEF FilesInv, WellFormed
<1>8. OpInv' /\ DownInv' /\ SolidInv'
  BY <1>0, <1>b DEF OpInv, DownInv, SolidInv, Idle
<1>9. ChargeInv'
  <2>1. SUFFICES ASSUME "insert" \notin Range(badSync), "unlink" \notin cut,
                        NEW F \in Directory, Mixes(F)'
                 PROVE  BytesOf(F) <= Capacity
    BY <1>0 DEF ChargeInv
  <2>2. \A e \in Entry : e[2] = "block" => F[e] = files'[e]
    BY <1>b, <2>1 DEF Mixes
  <2>3. Mixes(F)
    BY <1>5, <2>2 DEF Mixes
  <2>4. QED
    BY <2>1, <2>3, MixesFit
<1>10. DurableInv'
  BY GoneUsage DEF DurableInv, Crash
<1>11. AckInv'
  <2>1. SUFFICES ASSUME "remove" \notin Range(badSync), NEW t \in Ticket, acked[t] # None,
                        OnDisk(t)
                 PROVE  files'[Block(t)] = BlockFile(t, acked[t])
    BY <1>0, <1>b DEF AckInv, OnDisk, Idle
  <2>2. /\ files[Block(t)] = BlockFile(t, acked[t])
        /\ synced[Block(t)] = BlockFile(t, acked[t])
    BY <2>1, AckedOnDisk
  <2>3. QED
    BY <1>5, <2>2
<1>12. DeletedInv'
  <2>1. SUFFICES ASSUME NEW t \in deleted PROVE files'[Block(t)].ticket # t
    BY <1>0, <1>b DEF DeletedInv, TypeInv, Idle
  <2>2. QED
    BY <1>5 DEF DeletedInv, TypeInv
<1>13. UsageInv'
  BY GoneUsage DEF Crash
<1> QED
  BY <1>6, <1>7, <1>8, <1>9, <1>10, <1>11, <1>12, <1>13 DEF Inv

\* open rebuilds the index and the charge from the committed files: each name is one
\* ticket, each ticket one name, so the bytes of the files are those of the index.
LEMMA OpenStep ==
  ASSUME Inv, Open
  PROVE  Inv'
<1> USE EntryFacts, FileFacts DEF Inv
<1>0. /\ ~up /\ up' /\ Opens(files) /\ used' = BytesOf(files)
      /\ index' = [t \in Ticket |->
           IF files[Block(t)].ticket = t THEN files[Block(t)].content ELSE None]
      /\ synced' = synced /\ op' = op /\ uploads' = uploads /\ acked' = acked
      /\ deleted' = deleted /\ badSync' = badSync /\ up' \in BOOLEAN
      /\ cut' = cut /\ solid' = solid /\ files' = Commits(files)
  BY DEF Open
<1>1. op = Idle /\ uploads = {}
  BY <1>0 DEF DownInv
<1>2. files' \in Directory /\ \A e \in Entry : e[2] = "block" => files'[e] = files[e]
  BY <1>0, CommitsFacts DEF TypeInv, Directory
<1>3. \A t \in Ticket : files[Block(t)] = NoFile \/
        (files[Block(t)] \in File /\ files[Block(t)].content \in Content)
  BY DEF TypeInv, FilesInv, WellFormed
<1>4. \A t \in Ticket : files'[Block(t)] = files[Block(t)]
  BY <1>2
<1>5. \A t \in Ticket : index'[t] # None =>
        files[Block(t)].ticket = t /\ files[Block(t)] \in File
        /\ index'[t] = files[Block(t)].content /\ index'[t] \in Content
  BY <1>0, <1>3
<1>6. TypeInv'
  <2>1. files' \in [Entry -> File \cup {NoFile}]
    BY <1>2 DEF Directory
  <2>2. index' \in [Ticket -> Content \cup {None}]
    BY <1>0, <1>3
  <2>3. used' \in Nat
    <3>1. IsFiniteSet(Committed(files))
      BY NameAssumption, FS_Subset DEF Committed
    <3>2. \A n \in Committed(files) : files[<<n, "block">>].content \in Content
      BY DEF Committed, FilesInv, WellFormed
    <3>3. FileBytes(files) \in [Committed(files) -> Nat]
      BY <3>2, SizeAssumption DEF FileBytes
    <3>4. QED
      BY <1>0, <3>1, <3>3, SumOfNat DEF BytesOf
  <2>4. QED
    BY <1>0, <2>1, <2>2, <2>3 DEF TypeInv
<1>7. FilesInv'
  <2>1. WellFormed(files)'
    <3>1. WellFormed(Commits(files))
      BY CommitsFacts DEF TypeInv, FilesInv, Directory
    <3>2. QED
      BY <1>0, <3>1 DEF WellFormed
  <2>2. QED
    BY <1>0, <2>1 DEF FilesInv, WellFormed
<1>8. OpInv' /\ DownInv' /\ SolidInv'
  BY <1>0, <1>1 DEF OpInv, DownInv, SolidInv, Idle
<1>9. ChargeInv'
  <2>1. ASSUME NEW e \in Entry, e[2] = "block", files[e] # NoFile
        PROVE  index'[files[e].ticket] = files[e].content
    <3>1. files[e] \in File /\ NameOf[files[e].ticket] = e[1]
      BY <2>1 DEF TypeInv, FilesInv, WellFormed
    <3>2. e = Block(files[e].ticket)
      BY <2>1, <3>1
    <3>3. QED
      BY <1>0, <3>1, <3>2
  <2>2. SUFFICES ASSUME "unlink" \notin cut PROVE Charged(files)' /\ Charged(synced)'
    BY <1>0 DEF ChargeInv
  <2>3. \A e \in Entry : e[2] = "block" /\ synced[e] # NoFile => synced[e] = files[e]
    BY <1>0, <2>2 DEF DownInv
  <2>4. synced' = synced
    BY <1>0
  <2>5. Charged(files)'
    BY <1>2, <2>1 DEF Charged
  <2>6. Charged(synced)'
    BY <2>1, <2>3, <2>4 DEF Charged
  <2>7. QED
    BY <2>5, <2>6
<1>10. DurableInv'
  <2>1. SUFFICES ASSUME "remove" \notin Range(badSync), NEW t \in Indexed'
                 PROVE  /\ OnDisk(t) => synced[Block(t)] = BlockFile(t, index'[t])
                        /\ files[Block(t)] = BlockFile(t, index'[t])
    <3>1. \A r \in Indexed' : r \in Ticket
      BY DEF Indexed
    <3>2. \A r \in Indexed' : OnDisk(r)' => OnDisk(r)
      BY <1>0 DEF OnDisk
    <3>3. QED
      BY ZenonT(60), <1>0, <1>4, <3>1, <3>2 DEF DurableInv
  <2>2. /\ files[Block(t)].ticket = t /\ files[Block(t)] \in File /\ t \in Ticket
        /\ index'[t] = files[Block(t)].content /\ index'[t] \in Content
    BY <1>5, <2>1 DEF Indexed, Stored
  <2>3. files[Block(t)].flushed = TRUE
    BY <2>2 DEF FilesInv, WellFormed
  <2>4. \A f, g \in File :
          f.ticket = g.ticket /\ f.content = g.content /\ f.flushed = g.flushed => f = g
    BY DEF File
  <2>5. files[Block(t)] = BlockFile(t, index'[t])
    BY <2>2, <2>3, <2>4
  <2>6. ASSUME OnDisk(t) PROVE synced[Block(t)] = files[Block(t)]
    <3>1. CASE t \in solid
      <4>1. acked[t] # None
        BY <3>1 DEF SolidInv
      <4>2. QED
        BY <2>1, <2>2, <2>6, <4>1, AckedOnDisk
    <3>2. CASE t \notin solid
      BY <1>0, <2>2, <2>6, <3>2 DEF OnDisk, DownInv
    <3>3. QED
      BY <3>1, <3>2
  <2>7. QED
    BY <2>5, <2>6
<1>11. AckInv'
  <2>1. SUFFICES ASSUME "remove" \notin Range(badSync), NEW t \in Ticket, acked[t] # None,
                        OnDisk(t)
                 PROVE  index'[t] = acked[t]
    BY <1>0, <1>1 DEF AckInv, OnDisk, Idle
  <2>2. files[Block(t)] = BlockFile(t, acked[t]) /\ acked[t] \in Content
    BY <2>1, AckedOnDisk DEF TypeInv
  <2>3. QED
    BY <1>0, <2>2
<1>12. DeletedInv'
  BY <1>0, <1>1, <1>4 DEF DeletedInv, TypeInv, Idle
<1>13. UsageInv'
  <2> DEFINE C == Committed(files)
             I == {t \in Ticket : files[Block(t)].ticket = t}
             w == [t \in I |-> EncodedBytes[files[Block(t)].content]]
             m == [n \in C |-> files[<<n, "block">>].ticket]
             k == [t \in I |-> NameOf[t]]
  <2>1. Indexed' = I
    <3>1. \A t \in Ticket : files[Block(t)].ticket = t => index'[t] # None
      BY <1>0, <1>3
    <3>2. QED
      BY <1>5, <3>1 DEF Indexed, Stored
  <2>2. Weight' = w
    <3>1. \A t \in I : index'[t] = files[Block(t)].content
      BY <1>0
    <3>2. QED
      BY <2>1, <3>1 DEF Weight
  <2>3. ASSUME NEW n \in C
        PROVE  /\ m[n] \in I /\ NameOf[m[n]] = n
               /\ FileBytes(files)[n] \in Nat /\ w[m[n]] = FileBytes(files)[n]
    <3> DEFINE f == files[<<n, "block">>]
    <3>1. f # NoFile /\ n \in Name
      BY DEF Committed
    <3>2. f \in File /\ NameOf[f.ticket] = n /\ f.content \in Content
      BY <3>1 DEF TypeInv, FilesInv, WellFormed
    <3>3. Block(f.ticket) = <<n, "block">>
      BY <3>2 DEF Block
    <3>4. m[n] = f.ticket /\ FileBytes(files)[n] = EncodedBytes[f.content]
      BY DEF FileBytes
    <3>5. m[n] \in I /\ w[m[n]] = EncodedBytes[f.content]
      BY <3>2, <3>3, <3>4
    <3>6. QED
      BY <3>2, <3>4, <3>5, SizeAssumption
  <2>4. ASSUME NEW t \in I
        PROVE  k[t] \in C /\ w[t] \in Nat /\ FileBytes(files)[k[t]] = w[t]
    <3>1. files[Block(t)] # NoFile /\ files[Block(t)].content \in Content
      BY <1>3
    <3>2. Block(t) = <<NameOf[t], "block">> /\ k[t] = NameOf[t] /\ NameOf[t] \in Name
      BY NameAssumption DEF Block
    <3>3. QED
      BY <3>1, <3>2, SizeAssumption DEF Committed, FileBytes
  <2>5. ASSUME NEW s \in I, NEW t \in I, k[s] = k[t] PROVE s = t
    <3>1. Block(s) = Block(t)
      BY <2>5 DEF Block
    <3>2. QED
      BY <3>1
  <2>6. /\ m \in [C -> I] /\ \A x, y \in C : m[x] = m[y] => x = y
        /\ FileBytes(files) \in [C -> Nat]
    <3>1. m \in [C -> I] /\ FileBytes(files) \in [C -> Nat]
      BY <2>3 DEF FileBytes
    <3>2. ASSUME NEW x \in C, NEW y \in C, m[x] = m[y] PROVE x = y
      <4> HIDE DEF C, I, m
      <4>1. NameOf[m[x]] = x /\ NameOf[m[y]] = y
        BY <2>3
      <4>2. QED
        BY <3>2, <4>1
    <3>3. QED
      BY <3>1, <3>2
  <2>7. k \in [I -> C] /\ w \in [I -> Nat]
    BY <2>4
  <2>8. IsFiniteSet(C)
    BY NameAssumption, FS_Subset DEF Committed
  <2>9. IsFiniteSet(I)
    <3> HIDE DEF k, C, I
    <3>1. k \in Injection(I, C)
      BY <2>5, <2>7 DEF Injection, IsInjective
    <3>2. QED
      BY <2>8, <3>1, FS_Injection
  <2> HIDE DEF C, I, w, m, k
  <2>10. \A x \in Nat : x <= x
    OBVIOUS
  <2>11. \A n \in C : FileBytes(files)[n] <= w[m[n]]
    BY <2>3, <2>10
  <2>12. \A t \in I : w[t] <= FileBytes(files)[k[t]]
    BY <2>4, <2>10
  <2>13. SumOf(FileBytes(files), C) <= SumOf(w, I)
    BY <2>6, <2>7, <2>8, <2>9, <2>11, SumOfInjection
  <2>14. SumOf(w, I) <= SumOf(FileBytes(files), C)
    BY <2>5, <2>6, <2>7, <2>8, <2>9, <2>12, SumOfInjection
  <2>15. SumOf(w, I) \in Nat /\ SumOf(FileBytes(files), C) \in Nat
    BY <2>6, <2>7, <2>8, <2>9, SumOfNat
  <2>16. used' = SumOf(w, I) /\ used' <= Capacity
    BY <1>0, <2>13, <2>14, <2>15 DEF BytesOf, Opens, C
  <2>17. QED
    BY <2>1, <2>2, <2>9, <2>16 DEF UsageInv, UsageIsExact, Weight
<1> QED
  BY <1>6, <1>7, <1>8, <1>9, <1>10, <1>11, <1>12, <1>13 DEF Inv

\* An empty store satisfies the invariant.
LEMMA InvInit == Init => Inv
<1> SUFFICES ASSUME Init PROVE Inv
  OBVIOUS
<1> USE EntryFacts, FileFacts DEF Init
<1>1. TypeInv
  BY DEF TypeInv, Working
<1>2. FilesInv /\ OpInv /\ DownInv
  BY DEF FilesInv, WellFormed, OpInv, DownInv, Idle
<1>3. ChargeInv
  BY DEF ChargeInv, Charged
<1>4. DurableInv /\ AckInv /\ SolidInv /\ DeletedInv
  BY DEF DurableInv, AckInv, SolidInv, DeletedInv, Indexed, Stored
<1>5. UsageInv
  <2>1. Indexed = {}
    BY DEF Indexed, Stored
  <2>2. Weight \in [Indexed -> Int] /\ IsFiniteSet(Indexed)
    BY <2>1, FS_EmptySet DEF Weight
  <2>3. SumOf(Weight, Indexed) = 0
    BY <2>1, SumOfEmpty
  <2>4. QED
    BY <2>2, <2>3, SizeAssumption DEF UsageInv, UsageIsExact, Weight
<1>6. QED
  BY <1>1, <1>2, <1>3, <1>4, <1>5 DEF Inv

\* Every step of the store, a failed call or a crash among them, keeps the invariant.
LEMMA InvStep == Inv /\ [Next]_vars => Inv'
<1> SUFFICES ASSUME Inv, [Next]_vars PROVE Inv'
  OBVIOUS
<1>1. CASE \E t \in Ticket, c \in Content : BeginUpload(t, c)
  BY <1>1, BeginUploadStep
<1>2. CASE \E u \in uploads : Repeat(u)
  BY <1>2, RepeatStep
<1>3. CASE \E u \in uploads : Reject(u)
  BY <1>3, RejectStep
<1>4. CASE \E u \in uploads : WritePending(u)
  BY <1>4, WritePendingStep
<1>5. CASE \E u \in uploads : PendingLeft(u)
  BY <1>5, PendingLeftStep
<1>6. CASE \E t \in Ticket : Unlink(t)
  BY <1>6, UnlinkStep
<1>7. CASE Flush \/ Rename \/ Publish \/ InsertFails
  BY <1>7, FlushStep, RenameStep, PublishStep, InsertFailsStep
<1>8. CASE FinishRemove \/ RemoveFails \/ Kill \/ Crash \/ Open
  BY <1>8, FinishRemoveStep, RemoveFailsStep, KillStep, CrashStep, OpenStep
<1>9. CASE UNCHANGED vars
  BY <1>9 DEF vars, Inv, TypeInv, FilesInv, WellFormed, OpInv, Stored, DownInv,
     ChargeInv, Charged, Mixes, DurableInv, OnDisk, Indexed, AckInv, SolidInv,
     DeletedInv, UsageInv, UsageIsExact
<1>10. QED
  BY <1>1, <1>2, <1>3, <1>4, <1>5, <1>6, <1>7, <1>8, <1>9 DEF Next

-----------------------------------------------------------------------------
\* The inductive invariant of DiskBlockStore: types, well-formed files, what each
\* operation knows, how far the directory is ahead of the disk, and the three books
\* (charge, durability, deletion) kept by insert, remove, process deaths, host crashes
\* and open.
THEOREM StoreInvariant == Spec => []Inv
<1>1. QED
  BY InvInit, InvStep, PTL DEF Spec

\* Acknowledged output is served as acknowledged through failed writes and fsyncs of
\* uploads, process deaths, host crashes, restarts, repeats and name collisions, as long
\* as no deletion's directory fsync failed (insert: sync_all, rename, directory fsync,
\* index entry).  After a process died between a rename and its fsync this is so for the
\* blocks a directory fsync covered: open fsyncs nothing, so a repeat of the others is
\* acknowledged from the page cache.
THEOREM AcknowledgedIsDurable == Spec => []AckedIsServed
<1>1. Inv => AckedIsServed
  <2> SUFFICES ASSUME Inv, "remove" \notin Range(badSync), NEW t \in Ticket, acked[t] # None,
                      t \in solid \/ "rename" \notin cut
               PROVE  Keeps(t)
    BY DEF AckedIsServed
  <2> USE FileFacts
  <2>1. acked[t] \in Content /\ OnDisk(t)
    BY DEF Inv, TypeInv, OnDisk
  <2>2. files[Block(t)] = BlockFile(t, acked[t])
    BY <2>1, AckedOnDisk
  <2>3. up => index[t] = acked[t]
    BY <2>1 DEF Inv, AckInv
  <2>4. QED
    BY <2>1, <2>2, <2>3 DEF Keeps, Serves
<1>2. QED
  BY <1>1, StoreInvariant, PTL

\* A deletion that was acknowledged survives every crash (remove: remove_file, directory
\* fsync, index entry).
THEOREM DeletionIsPermanent == Spec => []DeletedStaysDeleted
<1>1. Inv => DeletedStaysDeleted
  BY DEF Inv, DeletedInv, DeletedStaysDeleted
<1>2. QED
  BY <1>1, StoreInvariant, PTL

\* open never finds a torn committed file, and never finds more bytes than its capacity
\* unless the directory fsync of an upload failed or a process died between an unlink and
\* its directory fsync.
THEOREM AlwaysRestarts == Spec => []RestartOpens
<1>1. Inv => RestartOpens
  <2> SUFFICES ASSUME Inv PROVE RestartOpens
    OBVIOUS
  <2>1. Readable(files)
    BY EntryFacts, FileFacts DEF Inv, Readable, Committed, FilesInv, WellFormed
  <2>2. files \in Directory /\ Mixes(files)
    BY DEF Inv, TypeInv, Directory, Mixes
  <2>3. QED
    BY <2>1, <2>2, MixesFit DEF RestartOpens
<1>2. QED
  BY <1>1, StoreInvariant, PTL

\* used_bytes is the size of what is indexed and stays within the capacity, whatever
\* budgets concurrent uploads were granted and however often the store restarts.
THEOREM ChargeIsExact == Spec => []UsageIsExact
<1>1. Inv => UsageIsExact
  BY DEF Inv, UsageInv
<1>2. QED
  BY <1>1, StoreInvariant, PTL

===============================================================================
