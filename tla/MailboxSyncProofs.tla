------------------------- MODULE MailboxSyncProofs --------------------------
(***************************************************************************)
(* For any mailboxes, messages, accounts, batch sizes and faults: the UID   *)
(* watermark never passes a message that was not fetched, and a mailbox     *)
(* holds one document per message.                                          *)
(***************************************************************************)
EXTENDS MailboxSyncVisits

(* A leaf that names no prover is Zenon's.                                  *)
USE ZenonT(20)

-----------------------------------------------------------------------------
(* A batch is the front of what is to be fetched, in ascending order.       *)
LEMMA BatchFacts ==
    ASSUME IInv, Downloading
    PROVE  /\ Len(Batch) \in Nat /\ NextBatch \in Seq(Nat \ {0}) /\ SubSeq(Batch, 1, Len(Batch)) = Batch
           /\ Range(job.uids) = Range(Batch) \cup Range(NextBatch)
           /\ \A i, j \in DOMAIN NextBatch : i < j => NextBatch[i] < NextBatch[j]
           /\ \A i \in DOMAIN NextBatch : NextBatch[i] <= job.top
           /\ \A k \in 0 .. Len(Batch) :
                /\ Range(SubSeq(Batch, 1, k)) \subseteq Range(Batch)
                /\ \A u \in Range(SubSeq(Batch, 1, k)) :
                     /\ u \in Nat /\ u <= job.top
                     /\ \A w \in Range(job.uids) : w <= u => w \in Range(SubSeq(Batch, 1, k))
<1> DEFINE q == job.uids
           n == Len(q)
           m == Min({BatchSize, Len(q)})
<1>1. /\ q \in Seq(Nat \ {0}) /\ q # <<>> /\ job.top \in Nat
      /\ \A i, j \in DOMAIN q : i < j => q[i] < q[j]
      /\ \A i \in DOMAIN q : q[i] <= job.top
  BY DEF IInv, TypeInv, JobInv, JobSet, Downloading
<1>2. Batch = SubSeq(q, 1, m) /\ NextBatch = SubSeq(q, Len(Batch) + 1, n)  BY DEF Batch, NextBatch
<1> HIDE DEF q
<1>3. n \in Nat /\ n # 0 /\ DOMAIN q = 1 .. n /\ \A i \in 1 .. n : q[i] \in Nat /\ q[i] # 0  BY SMTT(30), <1>1
<1>4. m \in 1 .. n
  <2>1. BatchSize \in Nat \ {0}  BY MailboxSyncAssumption
  <2> QED  BY SMTT(30), <1>3, <2>1 DEF Min
<1> HIDE DEF n, m
<1>5. /\ Batch \in Seq(Nat \ {0}) /\ Len(Batch) = m /\ DOMAIN Batch = 1 .. m
      /\ \A i \in 1 .. m : Batch[i] = q[i]
  BY SMTT(30), <1>1, <1>2, <1>3, <1>4 DEF n
<1>6. /\ NextBatch \in Seq(Nat \ {0}) /\ DOMAIN NextBatch = 1 .. n - m
      /\ \A i \in 1 .. n - m : NextBatch[i] = q[m + i]
  BY SMTT(30), <1>1, <1>2, <1>3, <1>4, <1>5 DEF n
<1>7. SubSeq(Batch, 1, Len(Batch)) = Batch  BY SMTT(30), <1>5
<1>8. Range(q) = Range(Batch) \cup Range(NextBatch)
  <2>1. Range(Batch) \subseteq Range(q)
    <3>1. \A i \in 1 .. m : i \in DOMAIN q /\ Batch[i] = q[i]  BY SMTT(30), <1>3, <1>4, <1>5
    <3> QED  BY <1>5, <3>1 DEF Range
  <2>2. Range(NextBatch) \subseteq Range(q)
    <3>1. \A i \in 1 .. n - m : m + i \in DOMAIN q /\ NextBatch[i] = q[m + i]  BY SMTT(30), <1>3, <1>4, <1>6
    <3> QED  BY <1>6, <3>1 DEF Range
  <2>3. ASSUME NEW i \in DOMAIN q PROVE q[i] \in Range(Batch) \cup Range(NextBatch)
    <3>1. CASE i <= m
      <4>1. i \in DOMAIN Batch /\ q[i] = Batch[i]  BY SMTT(30), <1>3, <1>5, <3>1
      <4> QED  BY <4>1 DEF Range
    <3>2. CASE i > m
      <4>1. i - m \in 1 .. n - m /\ m + (i - m) = i  BY SMTT(30), <1>3, <1>4, <3>2
      <4>2. i - m \in DOMAIN NextBatch /\ q[i] = NextBatch[i - m]  BY <1>6, <4>1
      <4> QED  BY <4>2 DEF Range
    <3> QED  BY SMTT(30), <1>3, <1>4, <3>1, <3>2
  <2> QED  BY <2>1, <2>2, <2>3 DEF Range
<1>9. /\ \A i, j \in DOMAIN NextBatch : i < j => NextBatch[i] < NextBatch[j]
      /\ \A i \in DOMAIN NextBatch : NextBatch[i] <= job.top
  <2>1. \A i \in 1 .. n - m : m + i \in DOMAIN q  BY SMTT(30), <1>3, <1>4
  <2>2. \A i, j \in 1 .. n - m : i < j => m + i < m + j  BY SMTT(30), <1>3, <1>4
  <2> QED  BY <1>1, <1>6, <2>1, <2>2
<1>10. ASSUME NEW k \in 0 .. m
       PROVE  /\ Range(SubSeq(Batch, 1, k)) \subseteq Range(Batch)
              /\ \A u \in Range(SubSeq(Batch, 1, k)) :
                   /\ u \in Nat /\ u <= job.top
                   /\ \A w \in Range(q) : w <= u => w \in Range(SubSeq(Batch, 1, k))
  <2> DEFINE p == SubSeq(Batch, 1, k)
  <2>1. DOMAIN p = 1 .. k /\ \A i \in 1 .. k : p[i] = Batch[i]  BY SMTT(30), <1>4, <1>5
  <2>2. \A i \in 1 .. k : i \in DOMAIN Batch /\ i \in DOMAIN q /\ p[i] = q[i]  BY SMTT(30), <1>3, <1>4, <1>5, <2>1
  <2> HIDE DEF p
  <2>3. Range(p) \subseteq Range(Batch)  BY <2>1, <2>2 DEF Range
  <2>4. ASSUME NEW i \in 1 .. k, NEW j \in DOMAIN q, q[j] <= q[i] PROVE q[j] \in Range(p)
    <3>1. j \in 1 .. k  BY SMTT(30), <1>1, <1>3, <1>4, <2>2, <2>4
    <3> QED  BY <2>1, <2>2, <3>1 DEF Range
  <2>5. \A i \in 1 .. k : q[i] \in Nat /\ q[i] <= job.top  BY <1>1, <1>3, <2>2
  <2>6. \A u \in Range(p) : \E i \in 1 .. k : u = q[i]  BY <2>1, <2>2 DEF Range
  <2>7. \A w \in Range(q) : \E j \in DOMAIN q : w = q[j]  BY DEF Range
  <2> QED  BY SMTT(30), <2>3, <2>4, <2>5, <2>6, <2>7 DEF p
<1> QED  BY SMTT(30), <1>4, <1>5, <1>6, <1>7, <1>8, <1>9, <1>10 DEF q

(* The rows a job depends on, when it is under the server's UIDVALIDITY.    *)
LEMMA CurrentJob ==
    ASSUME IInv, job # NoJob, NEW b \in Mailboxes, b = Box, Current(b, rows[b]), rows[b].highest = 0
    PROVE  job.epoch = server[b].validity /\ Sound
<1>1. job.epoch = server[b].validity
  <2>1. b \in DOMAIN rows /\ rows[b] \in RowSet  BY DEF IInv, Shape, Working, TypeInv, Table
  <2>2. job.epoch \in Nat /\ rows[b].validity \in Nat  BY <2>1 DEF IInv, TypeInv, JobSet, RowSet
  <2>3. job.epoch <= server[b].validity /\ Older(rows[b].validity, job.epoch)  BY DEF IInv, Epochs
  <2> QED  BY <2>2, <2>3, EpochIs DEF IInv, Current
<1>2. step \in Loops /\ Working  BY DEF IInv, Shape
<1>3. job.kind \in {"new", "before"} => step = "trace" /\ rows = local  BY <1>2 DEF Working, Loops, IInv, Shape
<1>4. Sound  BY <1>3 DEF Sound, Current
<1> QED  BY <1>1, <1>4

(* What a batch stores, whole or in part: the messages of it that can be,   *)
(* and none of them before a lower one that is missing.                     *)
LEMMA StoredFacts ==
    ASSUME IInv, Downloading, NEW k \in 0 .. Len(Batch), NEW b \in Mailboxes, b = Box,
           NEW part, part = Range(SubSeq(Batch, 1, k)), Store(b, part),
           UNCHANGED <<setup, server, lost, passed>>
    PROVE  /\ ArchiveType'
           /\ \A c \in Mailboxes : Keeps(c) /\ Numbered(c) /\ (c # b => Still(c) /\ AllDocs(c)' = AllDocs(c))
           /\ \A c \in Mailboxes : dedup'[c] \subseteq Archived(c)'
           /\ \A u \in part : u \in Uids(b) => Good(b, At(b, u))'
           /\ \A r : r = rows[b] => RowOK(b, r)'
<1>0. job # NoJob /\ ServerType'  BY DEF Downloading, IInv, TypeInv, ServerType
<1>1. /\ queue' \in Entries /\ index' = index /\ dedup' \in [Mailboxes -> SUBSET Messages]
      /\ \A c \in Mailboxes : c # b => AllDocs(c)' = AllDocs(c) /\ dedup'[c] = dedup[c]
      /\ AllDocs(b)' = AllDocs(b) \cup {DocAt(b, u) : u \in New(b, part)}
      /\ dedup'[b] = dedup[b] \cup {At(b, u) : u \in New(b, part)}
  BY StoreFacts DEF IInv, Entries
<1>2. ArchiveType'  BY <1>1 DEF IInv, TypeInv, ArchiveType
<1>3. /\ \A c \in Mailboxes : c # b => Archived(c)' = Archived(c)
      /\ Archived(b)' = Archived(b) \cup {At(b, u) : u \in New(b, part)}
  <2>1. \A c \in Mailboxes : c # b => Archived(c)' = Archived(c)  BY <1>1 DEF Archived
  <2> DEFINE new == {DocAt(b, u) : u \in New(b, part)}
  <2>2. Msgs(new) = {At(b, u) : u \in New(b, part)}
    <3>1. \A u : DocAt(b, u).msg = At(b, u)  BY DEF DocAt
    <3> QED  BY SMTT(30), <3>1 DEF Msgs
  <2>3. AllDocs(b)' = AllDocs(b) \cup new  BY <1>1
  <2> HIDE DEF new
  <2>4. Msgs(AllDocs(b)') = Msgs(AllDocs(b)) \cup Msgs(new)  BY <2>3 DEF Msgs
  <2>5. Archived(b)' = Msgs(AllDocs(b)') /\ Archived(b) = Msgs(AllDocs(b))  BY DEF Archived, Msgs
  <2> QED  BY <2>1, <2>2, <2>4, <2>5
<1>4. \A c \in Mailboxes : Keeps(c)  BY <1>1, <1>3 DEF Keeps
<1>5. \A c \in Mailboxes : Numbered(c)
  <2>1. \A c \in Mailboxes : Len(server[c].at) \in Nat  BY UidFacts DEF IInv
  <2> QED  BY SMTT(30), <2>1 DEF Numbered, Uids, At
<1>6. \A c \in Mailboxes : c # b => Still(c)  BY <1>1, <1>4, <1>5 DEF Still
<1>7. \A c \in Mailboxes : dedup'[c] \subseteq Archived(c)'  BY SMTT(30), <1>1, <1>3 DEF IInv, DocsInv
<1>8. ASSUME NEW u \in part, u \in Uids(b) PROVE Good(b, At(b, u))'
  <2>1. At(b, u)' = At(b, u)  BY DEF At
  <2>2. CASE At(b, u) \in Broken \cup Oversized  BY <2>1, <2>2 DEF Good, Wanted, Broken, Oversized
  <2>3. CASE At(b, u) \notin Broken \cup Oversized
    <3>1. u \in Storable(b, part)  BY <1>8, <2>3 DEF Storable
    <3>2. At(b, u) \in dedup'[b]  BY <1>1, <3>1 DEF New
    <3> QED  BY <1>7, <2>1, <3>2 DEF Good
  <2> QED  BY <2>2, <2>3
<1>9. ASSUME NEW r, r = rows[b] PROVE RowOK(b, r)'
  <2>0. r \in RowSet /\ RowOK(b, r) /\ r.highest \in Nat
    BY <1>0, <1>9 DEF IInv, Shape, Working, TypeInv, Table, RowsInv, RowSet
  <2> SUFFICES ASSUME Current(b, r)'
               PROVE  UpTo(b, r.highest)' /\ (r.highest = 0 => \A d \in AllDocs(b)' : UpTo(b, d.uid)')
    BY DEF RowOK
  <2>1. Current(b, r)  BY DEF Current
  <2>2. UpTo(b, r.highest)'  BY <1>0, <1>4, <1>5, <2>0, <2>1, UpToKept DEF RowOK, IInv
  <2>3. ASSUME r.highest = 0, NEW d \in AllDocs(b), TRUE PROVE UpTo(b, d.uid)'
    <3>1. d.uid \in Nat /\ UpTo(b, d.uid)  BY <2>0, <2>1, <2>3, DocFacts DEF RowOK, IInv
    <3> QED  BY <1>0, <1>4, <1>5, <3>1, UpToKept DEF IInv
  <2>4. ASSUME r.highest = 0, NEW u \in New(b, part) PROVE UpTo(b, u)'
    <3>1. u \in part /\ u \in Uids(b)  BY DEF New, Storable
    <3>2. job.epoch = server[b].validity /\ Sound  BY <1>0, <1>9, <2>1, <2>4, CurrentJob
    <3>3. \A w \in Uids(b) : w <= job.top => Good(b, At(b, w)) \/ w \in Range(job.uids)
      BY <1>0, <3>2 DEF IInv, JobInv
    <3>4. u \in Nat /\ u <= job.top /\ \A w \in Range(job.uids) : w <= u => w \in part
      BY <3>1, BatchFacts
    <3>5. Uids(b)' = Uids(b) /\ (\A w : At(b, w)' = At(b, w)) /\ server'[b].at = server[b].at  BY DEF Uids, At
    <3>6. ASSUME NEW w \in Uids(b), w <= u PROVE Good(b, At(b, w))'
      <4>1. w <= job.top
        <5>1. w \in Nat /\ job.top \in Nat  BY <1>0, UidFacts DEF IInv, TypeInv, JobSet
        <5> QED  BY SMTT(30), <3>4, <3>6, <5>1
      <4>2. CASE Good(b, At(b, w))  BY <1>4, <3>5, <4>2, GoodKept
      <4>3. CASE w \in Range(job.uids)  BY <1>8, <3>4, <3>6, <4>3
      <4> QED  BY <3>3, <4>1, <4>2, <4>3
    <3>7. u <= Len(server[b].at)  BY <3>1, UidFacts DEF IInv
    <3> QED  BY <3>5, <3>6, <3>7 DEF UpTo
  <2>5. \A u : DocAt(b, u).uid = u  BY DEF DocAt
  <2> QED  BY SMTT(30), <1>1, <2>2, <2>3, <2>4, <2>5
<1> QED  BY <1>1, <1>2, <1>4, <1>5, <1>6, <1>7, <1>8, <1>9

(* A download that goes on, with the same batch or the next one.            *)
Same == job'.kind = job.kind /\ job'.box = job.box /\ job'.top = job.top
        /\ job'.validity = job.validity /\ job'.epoch = job.epoch

(* What is still to fetch after a batch is the job less what was stored.    *)
LEMMA JobContinues ==
    ASSUME IInv, Downloading, NEW k \in 0 .. Len(Batch), NEW b \in Mailboxes, b = Box,
           NEW part, part = Range(SubSeq(Batch, 1, k)), Store(b, part),
           UNCHANGED <<setup, server, lost, passed>>, job' \in JobSet, Same, Sound' => Sound,
           \/ job'.uids = job.uids
           \/ job'.uids = NextBatch /\ (Sound' => Range(Batch) \subseteq part)
    PROVE  JobInv'
<1>1. job # NoJob /\ Box' = b /\ job'.top = job.top /\ job'.epoch = job.epoch
  BY DEF Downloading, Box, Same
<1>2. /\ \A i, j \in DOMAIN job.uids : i < j => job.uids[i] < job.uids[j]
      /\ \A i \in DOMAIN job.uids : job.uids[i] <= job.top
      /\ job.epoch = server[b].validity =>
           /\ job.top <= Len(server[b].at)
           /\ Sound => \A u \in Uids(b) : u <= job.top => Good(b, At(b, u)) \/ u \in Range(job.uids)
  BY <1>1 DEF IInv, JobInv
<1>3. /\ \A i, j \in DOMAIN job'.uids : i < j => job'.uids[i] < job'.uids[j]
      /\ \A i \in DOMAIN job'.uids : job'.uids[i] <= job.top
  BY <1>2, BatchFacts
<1>4. Uids(b)' = Uids(b) /\ \A w : At(b, w)' = At(b, w)  BY DEF Uids, At
<1>5. /\ Keeps(b) /\ \A u \in part : u \in Uids(b) => Good(b, At(b, u))'
  BY StoredFacts
<1>6. Range(job.uids) = Range(Batch) \cup Range(NextBatch)  BY BatchFacts
<1>7. ASSUME job.epoch = server[b].validity, Sound', NEW u \in Uids(b), u <= job.top
      PROVE  Good(b, At(b, u))' \/ u \in Range(job'.uids)
  <2>1. CASE Good(b, At(b, u))  BY <1>4, <1>5, <2>1, GoodKept
  <2>2. CASE u \in Range(job.uids)  BY <1>5, <1>6, <1>7, <2>2
  <2> QED  BY <1>2, <1>7, <2>1, <2>2
<1> QED  BY <1>1, <1>2, <1>3, <1>4, <1>7 DEF JobInv

(* A batch after which the folder goes on.                                  *)
LEMMA BatchKeeps ==
    ASSUME IInv, Downloading, NEW k \in 0 .. Len(Batch), NEW b \in Mailboxes, b = Box,
           NEW part, part = Range(SubSeq(Batch, 1, k)), Store(b, part),
           UNCHANGED <<setup, server, lost, passed, state, step, listed, local, todo, updates>>,
           job' \in JobSet, Same, Sound' => Sound,
           \/ job'.uids = job.uids
           \/ job'.uids = NextBatch /\ (Sound' => Range(Batch) \subseteq part),
           rows' = rows \/ (step = "gap" /\ MarkHoles(b))
    PROVE  IInv'
<1>1. job # NoJob /\ Box' = b  BY DEF Downloading, Box, Same
<1>2. JobInv'  BY JobContinues
<1>3. /\ ArchiveType'
      /\ \A c \in Mailboxes : Keeps(c) /\ Numbered(c) /\ (c # b => Still(c) /\ AllDocs(c)' = AllDocs(c))
      /\ \A c \in Mailboxes : dedup'[c] \subseteq Archived(c)'
      /\ \A r : r = rows[b] => RowOK(b, r)'
  BY StoredFacts
<1>4. Working /\ step \in Loops /\ b \in DOMAIN rows /\ rows[b] \in RowSet /\ b \notin todo
  BY <1>1 DEF IInv, Shape, Working, TypeInv, Table
<1>5. /\ DOMAIN rows' = DOMAIN rows /\ \A c \in DOMAIN rows : c # b => rows'[c] = rows[c]
      /\ rows'[b] \in RowSet /\ rows'[b].validity = rows[b].validity /\ rows'[b].highest = rows[b].highest
      /\ rows[b].holes => rows'[b].holes
  <2>1. CASE rows' = rows  BY <1>4, <2>1
  <2>2. CASE MarkHoles(b)
    <3>1. rows'[b] = [rows[b] EXCEPT !.holes = rows[b].holes \/ rows[b].highest = 0]
          /\ DOMAIN rows' = DOMAIN rows /\ \A c \in DOMAIN rows : c # b => rows'[c] = rows[c]
      BY <1>4, <2>2 DEF MarkHoles
    <3> QED  BY <1>4, <3>1 DEF RowSet
  <2> QED  BY <2>1, <2>2
<1>6. RowOK(b, rows[b])'  BY <1>3, <1>5 DEF RowOK, Current
<1>7. TypeInv'
  <2>1. Table(rows)'
    <3> SUFFICES ASSUME NEW c \in DOMAIN rows PROVE c \in Mailboxes /\ rows'[c] \in RowSet  BY <1>5 DEF Table
    <3> QED  BY <1>5 DEF IInv, TypeInv, Table
  <2> QED  BY <1>3, <2>1 DEF IInv, TypeInv, ArchiveType, Entries, Table
<1>8. Shape'
  <2>1. Working'
    BY <1>1, <1>4, <1>5 DEF Working, Fresh, Same, Box
  <2>2. step = "missing" => \A c \in todo' : AllDocs(c)' = {} /\ Fresh(c)'
    BY <1>3, <1>4 DEF IInv, Shape, Fresh, TypeInv
  <2>3. step = "trace" => rows' = rows  OBVIOUS
  <2> QED  BY <1>4, <1>5, <2>1, <2>2, <2>3 DEF IInv, Shape, Loops
<1>9. Epochs'
  <2>1. Aged(rows)'
    <3> SUFFICES ASSUME NEW c \in DOMAIN rows PROVE Older(rows'[c].validity, server[c].validity)
      BY <1>5 DEF Aged
    <3> QED  BY <1>5 DEF IInv, Epochs, Aged
  <2> QED  BY <1>1, <1>5, <2>1 DEF IInv, Epochs, Aged, Same, Box
<1>10. DocsInv'
  <2>1. \A c \in Mailboxes \ DOMAIN rows' : AllDocs(c)' = {}
    BY <1>3, <1>4, <1>5 DEF IInv, DocsInv
  <2> QED  BY <1>3, <2>1 DEF DocsInv
<1>11. b \notin DOMAIN updates'  BY <1>4 DEF IInv, Shape, Working
<1> QED  BY <1>2, <1>3, <1>5, <1>6, <1>7, <1>8, <1>9, <1>10, <1>11, OneBox

(* A folder ends.                                                           *)
LEMMA EndsKeep ==
    ASSUME IInv, job # NoJob, job' = NoJob, NEW b \in Mailboxes, b = Box,
           UNCHANGED <<server, step, listed, local, todo>>, Noted, ArchiveType',
           \A c \in Mailboxes : Keeps(c) /\ Numbered(c) /\ (c # b => Still(c) /\ AllDocs(c)' = AllDocs(c)),
           \A c \in Mailboxes : dedup'[c] \subseteq Archived(c)',
           DOMAIN rows' = DOMAIN rows, \A c \in DOMAIN rows : c # b => rows'[c] = rows[c],
           step = "trace" => rows' = rows,
           rows'[b] \in RowSet, Older(rows'[b].validity, server[b].validity), RowOK(b, rows[b])',
           \/ updates' = updates
           \/ /\ step = "trace" /\ DOMAIN updates' = DOMAIN updates \cup {b}
              /\ \A c \in DOMAIN updates : c # b => updates'[c] = updates[c]
              /\ updates'[b] \in RowSet /\ Older(updates'[b].validity, server[b].validity)
              /\ RowOK(b, updates[b])'
    PROVE  IInv'
<1>1. Working /\ step \in Loops /\ b \in DOMAIN rows /\ b \notin todo /\ b \notin DOMAIN updates
  BY DEF IInv, Shape, Working
<1>2. state' \in States /\ state'.known = state.known  BY StateKept DEF IInv
<1>3. TypeInv'
  <2>1. Table(rows)'
    <3> SUFFICES ASSUME NEW c \in DOMAIN rows PROVE c \in Mailboxes /\ rows'[c] \in RowSet  BY DEF Table
    <3> QED  BY DEF IInv, TypeInv, Table
  <2>2. Table(updates)'  BY DEF IInv, TypeInv, Table
  <2> QED  BY <1>2, <2>1, <2>2 DEF IInv, TypeInv, ArchiveType, Entries, Table
<1>4. Shape'
  <2>1. step = "missing" => \A c \in todo' : AllDocs(c)' = {} /\ Fresh(c)'
    <3>1. step = "missing" => DOMAIN rows = Mailboxes  BY DEF IInv, Shape
    <3> QED  BY <1>1, <3>1 DEF IInv, Shape, Fresh, TypeInv
  <2>2. step = "trace" => b \in DOMAIN local  BY <1>1 DEF Working
  <2> QED  BY <1>1, <1>2, <2>1, <2>2 DEF IInv, Shape, Loops
<1>5. Epochs'
  <2>1. Aged(rows)'  BY DEF IInv, Epochs, Aged
  <2>2. Aged(updates)'  BY DEF IInv, Epochs, Aged
  <2> QED  BY <2>1, <2>2 DEF IInv, Epochs, Aged
<1>6. DocsInv'
  <2>1. \A c \in Mailboxes \ DOMAIN rows' : AllDocs(c)' = {}  BY <1>1 DEF IInv, DocsInv
  <2> QED  BY <2>1 DEF DocsInv
<1>7. JobInv'  BY DEF JobInv
<1>8. /\ \A c \in DOMAIN updates' : c # b => c \in DOMAIN updates /\ updates'[c] = updates[c]
      /\ b \in DOMAIN updates' => RowOK(b, updates[b])'
  BY <1>1
<1> QED  BY <1>3, <1>4, <1>5, <1>6, <1>7, <1>8, OneBox

(* A folder that did not get through keeps its row.                         *)
LEMMA BrokenFacts ==
    ASSUME IInv, job # NoJob, NEW b \in Mailboxes, b = Box, NEW outcome \in {"broken", "cancelled"}, EndFolder(outcome),
           UNCHANGED <<listed, local>>
    PROVE  /\ Noted /\ job' = NoJob /\ DOMAIN rows' = DOMAIN rows /\ \A c \in DOMAIN rows : rows'[c] = rows[c]
           /\ step = "trace" => rows' = rows
           /\ updates' = updates \/ (step = "trace" /\ updates' = Put(b, rows[b], updates))
<1>1. Working /\ b \in DOMAIN rows  BY DEF IInv, Shape, Working
<1>2. job' = NoJob  BY DEF EndFolder
<1>3. Noted
  <2>1. {"failed", "cancelled"} \subseteq FolderStatus /\ "cancelled" \in Verdicts  BY DEF FolderStatus, Verdicts
  <2> QED  BY <2>1 DEF EndFolder, fetch_and_save_full_mailbox, fetch_and_save_by_date, fetch_new_mail_range,
              fetch_new_mail_with_before, reconcile_uid_validity_change, Noted
<1>4. (job.kind \in {"full", "dated"} /\ FolderOk(0)) \/ FolderErr
  BY DEF EndFolder, fetch_and_save_full_mailbox, fetch_and_save_by_date, fetch_new_mail_range,
         fetch_new_mail_with_before, reconcile_uid_validity_change
<1>5. CASE FolderErr  BY <1>2, <1>3, <1>5 DEF FolderErr
<1>6. CASE job.kind \in {"full", "dated"} /\ FolderOk(0)
  <2>1. CASE step = "full"  BY <1>2, <1>3, <1>6, <2>1 DEF FolderOk
  <2>2. CASE step = "missing"
    <3>1. rows' = Put(b, Row(listed[b].validity, 0, FALSE), rows) /\ updates' = updates
      BY <1>6, <2>2 DEF FolderOk
    <3>2. rows[b] = Row(listed[b].validity, 0, FALSE)  BY <1>1, <2>2 DEF Working, Fresh
    <3>3. rows' = Put(b, rows[b], rows)  BY <3>1, <3>2
    <3>4. DOMAIN rows' = DOMAIN rows /\ \A c \in DOMAIN rows : rows'[c] = rows[c]
      BY <1>1, <3>3 DEF Put, Over
    <3> QED  BY <1>2, <1>3, <2>2, <3>1, <3>4
  <2>3. CASE step = "trace"
    <3>1. updates' = Put(b, Keep(b, job.validity, 0), updates) /\ rows' = rows
      BY <1>6, <2>3 DEF FolderOk
    <3>2. /\ b \in DOMAIN local /\ rows = local /\ job.validity = local[b].validity
          /\ job.validity = listed[b].validity \/ listed[b].validity = 0
      BY <1>1, <1>6, <2>3 DEF Working, IInv, Shape
    <3>3. Keep(b, job.validity, 0) = local[b]  BY <2>3, <3>2, KeepSame
    <3> QED  BY <1>2, <1>3, <2>3, <3>1, <3>2, <3>3
  <2> QED  BY <1>6, <2>1, <2>2, <2>3 DEF FolderOk
<1> QED  BY <1>4, <1>5, <1>6

(* So the invariant is kept, whatever of the batch was stored.              *)
LEMMA BrokenKeeps ==
    ASSUME IInv, job # NoJob, NEW b \in Mailboxes, b = Box, NEW outcome \in {"broken", "cancelled"}, EndFolder(outcome),
           UNCHANGED <<server, step, listed, local, todo>>, ArchiveType',
           \A c \in Mailboxes : Keeps(c) /\ Numbered(c) /\ (c # b => Still(c) /\ AllDocs(c)' = AllDocs(c)),
           \A c \in Mailboxes : dedup'[c] \subseteq Archived(c)',
           \A r : r = rows[b] => RowOK(b, r)'
    PROVE  IInv'
<1>1. /\ Noted /\ job' = NoJob /\ DOMAIN rows' = DOMAIN rows /\ \A c \in DOMAIN rows : rows'[c] = rows[c]
      /\ step = "trace" => rows' = rows
      /\ updates' = updates \/ (step = "trace" /\ updates' = Put(b, rows[b], updates))
  BY BrokenFacts
<1>2. b \in DOMAIN rows /\ rows[b] \in RowSet /\ Older(rows[b].validity, server[b].validity)
  BY DEF IInv, Shape, Working, TypeInv, Table, Epochs, Aged
<1>3. RowOK(b, rows[b])'  BY <1>1, <1>2
<1>4. \/ updates' = updates
      \/ /\ step = "trace" /\ DOMAIN updates' = DOMAIN updates \cup {b}
         /\ \A c \in DOMAIN updates : c # b => updates'[c] = updates[c]
         /\ updates'[b] = rows[b]
  BY <1>1 DEF Put, Over
<1>5. updates' # updates => RowOK(b, updates[b])'  BY <1>4
<1> QED  BY <1>1, <1>2, <1>3, <1>4, <1>5, EndsKeep

(* What ending a folder without storing anything leaves as it is.           *)
LEMMA EndStill ==
    ASSUME IInv, Stay, NEW b \in Mailboxes
    PROVE  /\ ArchiveType'
           /\ \A c \in Mailboxes : Keeps(c) /\ Numbered(c) /\ Still(c) /\ AllDocs(c)' = AllDocs(c)
           /\ \A c \in Mailboxes : dedup'[c] \subseteq Archived(c)'
           /\ \A r \in RowSet : Older(r.validity, server[b].validity) /\ RowOK(b, r) => RowOK(b, r)'
<1>1. passed' \in [Mailboxes -> SUBSET Messages]  BY DEF Stay, IInv, TypeInv
<1>2. /\ ArchiveType' /\ \A c \in Mailboxes : Still(c) /\ AllDocs(c)' = AllDocs(c)
      /\ \A c \in Mailboxes : dedup'[c] \subseteq Archived(c)'
  BY <1>1, PlanStill DEF Stay
<1>3. \A c \in Mailboxes : Keeps(c) /\ Numbered(c)
  <2>1. \A c \in Mailboxes : Len(server[c].at) \in Nat  BY UidFacts DEF IInv
  <2> QED  BY SMTT(30), <1>2, <2>1 DEF Still, Numbered, Stay, Uids, At
<1>4. ServerType'  BY DEF Stay, IInv, TypeInv, ServerType
<1>5. \A r \in RowSet : Older(r.validity, server[b].validity) /\ RowOK(b, r) => RowOK(b, r)'
  BY <1>2, <1>4, RowKept DEF IInv
<1> QED  BY <1>2, <1>3, <1>5

(* All that a finished download was to fetch is there.                      *)
LEMMA DoneUpTo ==
    ASSUME IInv, job # NoJob, job.uids = <<>>, NEW b \in Mailboxes, b = Box, job.epoch = server[b].validity, Sound
    PROVE  UpTo(b, job.top)
<1>1. Range(job.uids) = {}  BY SMTT(30) DEF Range
<1>2. job.top <= Len(server[b].at) /\ \A u \in Uids(b) : u <= job.top => Good(b, At(b, u))
  BY <1>1 DEF IInv, JobInv
<1> QED  BY <1>2 DEF UpTo

(* Its row, where it is written at once.                                    *)
LEMMA DoneRow ==
    ASSUME IInv, job # NoJob, job.uids = <<>>, NEW b \in Mailboxes, b = Box,
           job.kind \in {"full", "dated"}, job.top # 0
    PROVE  LET r == Row(listed[b].validity, job.top, FALSE)
           IN  r \in RowSet /\ Older(r.validity, server[b].validity) /\ RowOK(b, r)
<1>1. step \in Loops /\ job.top \in Nat /\ job.epoch \in Nat  BY DEF IInv, Shape, TypeInv, JobSet
<1>2. listed[b].validity \in Nat /\ listed[b].validity <= server[b].validity /\ listed[b].validity <= job.epoch
      /\ job.epoch <= server[b].validity
  BY <1>1 DEF IInv, TypeInv, Epochs
<1>3. Sound  BY DEF Sound
<1>4. ASSUME listed[b].validity = server[b].validity PROVE UpTo(b, job.top)
  <2>1. job.epoch = server[b].validity  BY <1>1, <1>2, <1>4, EpochIs DEF IInv, Older
  <2> QED  BY <1>3, <2>1, DoneUpTo
<1> DEFINE r == Row(listed[b].validity, job.top, FALSE)
<1>5. r \in RowSet /\ r.validity = listed[b].validity /\ r.highest = job.top
  BY <1>1, <1>2 DEF Row, RowSet
<1> HIDE DEF r
<1>6. Older(r.validity, server[b].validity) /\ RowOK(b, r)  BY <1>2, <1>4, <1>5 DEF RowOK, Current, Older
<1> QED  BY <1>5, <1>6 DEF r

(* And where it waits to be written.                                        *)
LEMMA DoneKeep ==
    ASSUME IInv, job # NoJob, job.uids = <<>>, NEW b \in Mailboxes, b = Box, step = "trace"
    PROVE  LET r == Keep(b, job.validity, job.top)
           IN  r \in RowSet /\ Older(r.validity, server[b].validity) /\ RowOK(b, r)
<1> DEFINE r == Keep(b, job.validity, job.top)
           v == job.validity
           old == local[b]
<1>1. /\ b \in DOMAIN local /\ rows = local /\ job.kind \in {"full", "dated", "new", "before", "reconcile"}
      /\ job.kind = "reconcile" <=> v # old.validity
      /\ v = listed[b].validity \/ listed[b].validity = 0
  BY DEF IInv, Shape, Working
<1>2. /\ job.top \in Nat /\ job.epoch \in Nat /\ v \in Nat /\ job.epoch <= server[b].validity /\ Older(v, job.epoch)
  BY DEF IInv, TypeInv, JobSet, Epochs
<1>3. old \in RowSet /\ old.highest \in Nat /\ old.holes \in BOOLEAN /\ RowOK(b, old)
      /\ Older(old.validity, server[b].validity)
  BY <1>1 DEF IInv, TypeInv, Table, RowSet, RowsInv, Epochs, Aged
<1>4. server[b].validity \in Nat  BY UidFacts DEF IInv
<1>5. Older(v, server[b].validity)  BY <1>2, <1>4, OlderGrows
<1>6. r = Row(v, IF job.top # 0 THEN job.top ELSE old.highest,
              IF v = old.validity THEN old.holes ELSE job.top = 0 /\ (old.highest # 0 \/ AllDocs(b) # {}))
  BY <1>1 DEF Keep
<1>7. v = server[b].validity => job.epoch = server[b].validity  BY <1>2, EpochIs DEF IInv
<1> HIDE DEF r, v, old
<1>8. /\ r \in RowSet /\ r.validity = v /\ r.highest = (IF job.top # 0 THEN job.top ELSE old.highest)
      /\ r.holes = (IF v = old.validity THEN old.holes ELSE job.top = 0 /\ (old.highest # 0 \/ AllDocs(b) # {}))
  <2> DEFINE x == IF v = old.validity THEN old.holes ELSE job.top = 0 /\ (old.highest # 0 \/ AllDocs(b) # {})
             h == IF job.top # 0 THEN job.top ELSE old.highest
  <2>1. x \in BOOLEAN  BY <1>3
  <2>2. h \in Nat  BY <1>2, <1>3
  <2>3. v \in Nat /\ r = Row(v, h, x)  BY <1>2, <1>6 DEF v
  <2> HIDE DEF x, h
  <2>4. r \in RowSet /\ r.validity = v /\ r.highest = h /\ r.holes = x
    BY <2>1, <2>2, <2>3 DEF Row, RowSet
  <2> QED  BY <2>4 DEF x, h
<1>9. RowOK(b, r)
  <2>1. CASE v = old.validity /\ job.top = 0
    <3>1. r.validity = old.validity /\ r.highest = old.highest /\ r.holes = old.holes  BY <1>8, <2>1
    <3> QED  BY <1>3, <3>1 DEF RowOK, Current
  <2>2. CASE v = old.validity /\ job.top # 0
    <3> SUFFICES ASSUME Current(b, r) PROVE UpTo(b, job.top)  BY <1>8, <2>2 DEF RowOK
    <3>1. Current(b, old) /\ v = server[b].validity  BY <1>8, <2>2 DEF Current
    <3>2. Sound  BY <1>1, <2>2, <3>1 DEF Sound, old, v
    <3> QED  BY <1>7, <3>1, <3>2, DoneUpTo
  <2>3. CASE v # old.validity /\ job.top # 0
    <3> SUFFICES ASSUME Current(b, r) PROVE UpTo(b, job.top)  BY <1>8, <2>3 DEF RowOK
    <3>1. v = server[b].validity  BY <1>8 DEF Current
    <3>2. Sound  BY <1>1, <2>3 DEF Sound, v, old
    <3> QED  BY <1>7, <3>1, <3>2, DoneUpTo
  <2>4. CASE v # old.validity /\ job.top = 0
    <3> SUFFICES ASSUME Current(b, r) PROVE UpTo(b, r.highest) /\ \A d \in AllDocs(b) : UpTo(b, d.uid)
      BY DEF RowOK
    <3>1. r.highest = 0 /\ AllDocs(b) = {}  BY <1>8, <2>4 DEF Current
    <3>2. UpTo(b, 0)  BY SMTT(30), UidFacts DEF UpTo, IInv
    <3> QED  BY <3>1, <3>2
  <2> QED  BY <2>1, <2>2, <2>3, <2>4
<1> QED  BY <1>5, <1>8, <1>9 DEF r

(* A row is put in the place of a folder's.                                 *)
LEMMA PutKeeps ==
    ASSUME IInv, job # NoJob, job' = NoJob, NEW b \in Mailboxes, b = Box, Stay,
           UNCHANGED <<step, listed, local, todo>>, Noted,
           NEW r \in RowSet, Older(r.validity, server[b].validity), RowOK(b, r),
           \/ step # "trace" /\ rows' = Put(b, r, rows) /\ updates' = updates
           \/ step = "trace" /\ rows' = rows /\ updates' = Put(b, r, updates)
           \/ UNCHANGED <<rows, updates>>
    PROVE  IInv'
<1>1. /\ ArchiveType'
      /\ \A c \in Mailboxes : Keeps(c) /\ Numbered(c) /\ Still(c) /\ AllDocs(c)' = AllDocs(c)
      /\ \A c \in Mailboxes : dedup'[c] \subseteq Archived(c)'
      /\ \A x \in RowSet : Older(x.validity, server[b].validity) /\ RowOK(b, x) => RowOK(b, x)'
  BY EndStill
<1>2. b \in DOMAIN rows /\ rows[b] \in RowSet /\ Older(rows[b].validity, server[b].validity) /\ RowOK(b, rows[b])
  BY DEF IInv, Shape, Working, TypeInv, Table, Epochs, Aged, RowsInv
<1>3. server' = server  BY DEF Stay
<1>4. \A x \in {r, rows[b]} : x \in RowSet /\ Older(x.validity, server[b].validity) /\ RowOK(b, x)'
  BY <1>1, <1>2
<1>5. CASE step # "trace" /\ rows' = Put(b, r, rows) /\ updates' = updates
  <2>1. DOMAIN rows' = DOMAIN rows /\ rows'[b] = r /\ \A c \in DOMAIN rows : c # b => rows'[c] = rows[c]
    BY SMTT(30), <1>2, <1>5 DEF Put, Over
  <2>2. RowOK(b, rows[b])'  BY <1>4, <2>1
  <2> QED  BY <1>1, <1>3, <1>4, <1>5, <2>1, <2>2, EndsKeep
<1>6. CASE step = "trace" /\ rows' = rows /\ updates' = Put(b, r, updates)
  <2>1. DOMAIN updates' = DOMAIN updates \cup {b} /\ updates'[b] = r
        /\ \A c \in DOMAIN updates : c # b => updates'[c] = updates[c]
    BY SMTT(30), <1>6 DEF Put, Over
  <2>2. RowOK(b, rows[b])' /\ RowOK(b, updates[b])'  BY <1>4, <1>6, <2>1
  <2> QED  BY <1>1, <1>3, <1>4, <1>6, <2>1, <2>2, EndsKeep
<1>7. CASE UNCHANGED <<rows, updates>>
  <2>1. RowOK(b, rows[b])'  BY <1>4, <1>7
  <2> QED  BY <1>1, <1>3, <1>4, <1>7, <2>1, EndsKeep
<1> QED  BY <1>5, <1>6, <1>7

(* A folder fetched to the end gets the row it has earned.                  *)
LEMMA FolderDoneKeeps ==
    ASSUME IInv, FolderDone
    PROVE  IInv'
<1>1. /\ job # NoJob /\ job.uids = <<>> /\ EndFolder("done") /\ job' = NoJob
      /\ Stay /\ UNCHANGED <<step, listed, local, todo>>
  BY DEF FolderDone, EndFolder, Stay, account, Session, history
<1>2. PICK b \in Mailboxes : b = Box  BY <1>1 DEF IInv, TypeInv, JobSet, Box
<1>3. Folder(b, "success") /\ FolderOk(job.top)
  BY <1>1, <1>2 DEF EndFolder, fetch_and_save_full_mailbox, fetch_and_save_by_date, fetch_new_mail_range,
              fetch_new_mail_with_before, reconcile_uid_validity_change
<1>4. Noted  BY <1>3 DEF Noted, FolderStatus
<1>5. /\ b \in DOMAIN rows /\ rows[b] \in RowSet /\ Older(rows[b].validity, server[b].validity) /\ RowOK(b, rows[b])
      /\ Working
  BY <1>1, <1>2 DEF IInv, Shape, Working, TypeInv, Table, Epochs, Aged, RowsInv
<1>6. CASE step = "trace"
  <2>1. rows' = rows /\ updates' = Put(b, Keep(b, job.validity, job.top), updates)  BY <1>2, <1>3, <1>6 DEF FolderOk
  <2> QED  BY <1>1, <1>2, <1>4, <1>6, <2>1, DoneKeep, PutKeeps
<1>7. CASE step \in {"full", "missing"} /\ job.top # 0
  <2>1. rows' = Put(b, Row(listed[b].validity, job.top, FALSE), rows) /\ updates' = updates
    BY <1>2, <1>3, <1>7 DEF FolderOk
  <2>2. job.kind \in {"full", "dated"}  BY <1>5, <1>7 DEF Working
  <2> QED  BY <1>1, <1>2, <1>4, <1>7, <2>1, <2>2, DoneRow, PutKeeps
<1>8. CASE step = "full" /\ job.top = 0
  <2>1. UNCHANGED <<rows, updates>>  BY <1>3, <1>8 DEF FolderOk
  <2> QED  BY <1>1, <1>2, <1>4, <1>5, <2>1, PutKeeps
<1>9. CASE step = "missing" /\ job.top = 0
  <2>1. rows' = Put(b, Row(listed[b].validity, 0, FALSE), rows) /\ updates' = updates
    BY <1>2, <1>3, <1>9 DEF FolderOk
  <2>2. rows[b] = Row(listed[b].validity, 0, FALSE)  BY <1>2, <1>5, <1>9 DEF Working, Fresh
  <2> QED  BY <1>1, <1>2, <1>4, <1>5, <1>9, <2>1, <2>2, PutKeeps
<1> QED  BY <1>3, <1>6, <1>7, <1>8, <1>9 DEF FolderOk

(* The larger of two watermarks.                                            *)
LEMMA MaxFacts ==
    ASSUME NEW x \in Nat, NEW y \in Nat
    PROVE  Max({x, y}) = IF x >= y THEN x ELSE y
<1>1. Max({x, y}) \in {x, y} /\ \A z \in {x, y} : Max({x, y}) >= z  BY SMTT(30) DEF Max
<1> QED  BY SMTT(30), <1>1

(* So does one whose gaps are filled, and only if all of them are.          *)
LEMMA GapDoneKeeps ==
    ASSUME IInv, GapDone
    PROVE  IInv'
<1>1. /\ job # NoJob /\ job.uids = <<>> /\ job.kind = "gap" /\ job' = NoJob /\ updates' = updates /\ Noted
      /\ Stay /\ UNCHANGED <<step, listed, local, todo>>
  BY DEF GapDone, Stay, account, Session, history, Noted
<1>2. PICK b \in Mailboxes : b = Box  BY <1>1 DEF IInv, TypeInv, JobSet, Box
<1>3. step = "gap" /\ b \in DOMAIN local /\ b \in DOMAIN rows
  <2>1. Working /\ step \in Loops  BY <1>1 DEF IInv, Shape
  <2> QED  BY <1>1, <1>2, <2>1 DEF Working, Loops
<1>4. rows[b] \in RowSet /\ Older(rows[b].validity, server[b].validity) /\ RowOK(b, rows[b])
  BY <1>3 DEF IInv, TypeInv, Table, Epochs, Aged, RowsInv
<1>5. CASE ~(job.complete /\ job.top # 0)
  <2>1. UNCHANGED <<rows, updates>>  BY <1>1, <1>5 DEF GapDone
  <2> QED  BY <1>1, <1>2, <1>4, <2>1, PutKeeps
<1>6. CASE job.complete /\ job.top # 0
  <2> DEFINE v == listed[b].validity
             old == local[b]
             h == Max({job.top, old.highest})
             x == old.highest # 0 /\ (old.holes \/ old.validity # v)
             r == Row(v, h, x)
  <2>1. rows' = Put(b, r, rows)  BY <1>2, <1>6 DEF GapDone
  <2>2. /\ job.top \in Nat /\ job.epoch \in Nat /\ v \in Nat /\ v <= server[b].validity
        /\ job.epoch <= server[b].validity /\ v <= job.epoch
    BY <1>1, <1>2, <1>3 DEF IInv, TypeInv, JobSet, Epochs, Loops
  <2>3. /\ old \in RowSet /\ old.highest \in Nat /\ old.holes \in BOOLEAN
        /\ Current(b, old) => UpTo(b, old.highest)
    BY <1>3 DEF IInv, TypeInv, Table, RowSet, LocalInv
  <2>4. h = IF job.top >= old.highest THEN job.top ELSE old.highest  BY <2>2, <2>3, MaxFacts
  <2>5. v = server[b].validity => UpTo(b, job.top)
    <3>1. Sound  BY <1>1, <1>6 DEF Sound
    <3>2. v = server[b].validity => job.epoch = server[b].validity  BY <2>2, EpochIs DEF IInv, Older
    <3> QED  BY <1>1, <1>2, <3>1, <3>2, DoneUpTo
  <2> HIDE DEF v, old, h
  <2>6. h \in Nat /\ h # 0  BY SMTT(30), <1>6, <2>2, <2>3, <2>4
  <2>7. r \in RowSet /\ r.validity = v /\ r.highest = h /\ r.holes = x
    <3>1. x \in BOOLEAN  BY <2>3
    <3> HIDE DEF x
    <3> QED  BY <2>2, <2>6, <3>1 DEF Row, RowSet
  <2>8. RowOK(b, r)
    <3> SUFFICES ASSUME Current(b, r) PROVE UpTo(b, h)  BY <2>6, <2>7 DEF RowOK
    <3>1. v = server[b].validity /\ ~x  BY <2>7 DEF Current
    <3>2. CASE h = job.top  BY <2>5, <3>1, <3>2
    <3>3. CASE h # job.top
      <4>1. h = old.highest /\ old.highest # 0  BY <2>4, <2>6, <3>3
      <4>2. Current(b, old)  BY <3>1, <4>1 DEF Current
      <4> QED  BY <2>3, <4>1, <4>2
    <3> QED  BY <3>2, <3>3
  <2>9. Older(r.validity, server[b].validity)  BY <2>2, <2>7 DEF Older
  <2> HIDE DEF r
  <2> QED  BY <1>1, <1>2, <1>3, <2>1, <2>7, <2>8, <2>9, PutKeeps
<1> QED  BY <1>5, <1>6

(* A folder left on cancellation keeps the row it had.                      *)
LEMMA CancelFolderKeeps ==
    ASSUME IInv, CancelFolder
    PROVE  IInv'
<1>1. job # NoJob /\ Stay /\ UNCHANGED <<step, listed, local, todo>>
  BY DEF CancelFolder, Downloading, Stay, account, Session, history
<1>2. PICK b \in Mailboxes : b = Box  BY <1>1 DEF IInv, TypeInv, JobSet, Box
<1>3. /\ ArchiveType'
      /\ \A c \in Mailboxes : Keeps(c) /\ Numbered(c) /\ Still(c) /\ AllDocs(c)' = AllDocs(c)
      /\ \A c \in Mailboxes : dedup'[c] \subseteq Archived(c)'
      /\ \A x \in RowSet : Older(x.validity, server[b].validity) /\ RowOK(b, x) => RowOK(b, x)'
  BY <1>1, EndStill
<1>4. rows[b] \in RowSet /\ Older(rows[b].validity, server[b].validity) /\ RowOK(b, rows[b])
  BY <1>1, <1>2 DEF IInv, Shape, Working, TypeInv, Table, Epochs, Aged, RowsInv
<1>5. \A r : r = rows[b] => RowOK(b, r)'  BY <1>3, <1>4
<1>6. CASE EndFolder("cancelled")  BY <1>1, <1>2, <1>3, <1>5, <1>6, BrokenKeeps DEF Stay
<1>7. CASE job' = NoJob /\ UNCHANGED <<rows, state, updates>>
  BY <1>1, <1>2, <1>4, <1>7, PutKeeps DEF Noted
<1> QED  BY <1>6, <1>7 DEF CancelFolder

-----------------------------------------------------------------------------
(* The batches.                                                             *)
LEMMA FetchBatchKeeps ==
    ASSUME IInv, FetchBatch
    PROVE  IInv'
<1>1. /\ Downloading /\ Store(Box, Range(Batch))
      /\ UNCHANGED <<setup, server, lost, passed, state, step, listed, local, todo, updates, rows>>
  BY DEF FetchBatch, gap_fill_batch, account, Session, history
<1>2. PICK b \in Mailboxes : b = Box  BY <1>1 DEF Downloading, IInv, TypeInv, JobSet, Box
<1>3. PICK part : part = Range(Batch)  OBVIOUS
<1>4. Len(Batch) \in 0 .. Len(Batch) /\ part = Range(SubSeq(Batch, 1, Len(Batch))) /\ NextBatch \in Seq(Nat \ {0})
  <2>1. Len(Batch) \in Nat /\ NextBatch \in Seq(Nat \ {0}) /\ SubSeq(Batch, 1, Len(Batch)) = Batch
    BY <1>1, BatchFacts
  <2>2. \A n \in Nat : n \in 0 .. n  BY SMTT(30)
  <2> QED  BY <1>3, <2>1, <2>2
<1>5. job \in JobSet  BY <1>1 DEF Downloading, IInv, TypeInv
<1>6. job' \in JobSet /\ Same /\ job'.uids = NextBatch /\ (job'.complete => job.complete)
  <2>1. CASE job' = [job EXCEPT !.uids = NextBatch, !.tries = 0]
    BY <1>4, <1>5, <2>1 DEF JobSet, Same
  <2>2. CASE job' = [job EXCEPT !.uids = NextBatch, !.tries = 0,
                                !.complete = @ /\ Storable(Box, Range(Batch)) = Range(Batch)]
    BY <1>4, <1>5, <2>2 DEF JobSet, Same
  <2> QED  BY <2>1, <2>2 DEF FetchBatch, gap_fill_batch
<1>7. Sound' => Sound  BY <1>1, <1>6 DEF Sound, Same, Box, Current
<1>8. Store(b, part)  BY <1>1, <1>2, <1>3
<1> QED  BY <1>1, <1>2, <1>3, <1>4, <1>6, <1>7, <1>8, BatchKeeps

(* A batch that broke off is asked for again, stored messages included.     *)
LEMMA RetryBatchKeeps ==
    ASSUME IInv, NEW k, RetryBatch(k)
    PROVE  IInv'
<1>1. /\ Downloading /\ k \in 0 .. Len(Batch) /\ Store(Box, Range(SubSeq(Batch, 1, k)))
      /\ UNCHANGED <<setup, server, lost, passed, state, step, listed, local, todo, updates, rows>>
      /\ job' = [job EXCEPT !.tries = @ + 1]
  BY DEF RetryBatch, Break, account, Session, history
<1>2. PICK b \in Mailboxes : b = Box  BY <1>1 DEF Downloading, IInv, TypeInv, JobSet, Box
<1>3. PICK part : part = Range(SubSeq(Batch, 1, k))  OBVIOUS
<1>4. job \in JobSet  BY <1>1 DEF Downloading, IInv, TypeInv
<1>5. job' \in JobSet /\ Same /\ job'.uids = job.uids /\ job'.complete = job.complete
  BY SMTT(30), <1>1, <1>4 DEF JobSet, Same
<1>6. Sound' => Sound  BY <1>1, <1>5 DEF Sound, Same, Box, Current
<1>7. Store(b, part)  BY <1>1, <1>2, <1>3
<1> QED  BY <1>1, <1>2, <1>3, <1>5, <1>6, <1>7, BatchKeeps

(* After the last retry the folder is given up, its row as it was.          *)
LEMMA FailBatchKeeps ==
    ASSUME IInv, NEW k, FailBatch(k)
    PROVE  IInv'
<1>1. /\ Downloading /\ k \in 0 .. Len(Batch) /\ Store(Box, Range(SubSeq(Batch, 1, k)))
      /\ UNCHANGED <<setup, server, lost, passed, step, listed, local, todo>>
  BY DEF FailBatch, Break, account, Session, history
<1>2. PICK b \in Mailboxes : b = Box  BY <1>1 DEF Downloading, IInv, TypeInv, JobSet, Box
<1>3. PICK part : part = Range(SubSeq(Batch, 1, k))  OBVIOUS
<1>4. Store(b, part)  BY <1>1, <1>2, <1>3
<1>5. CASE EndFolder("broken")
  <2>1. /\ ArchiveType'
        /\ \A c \in Mailboxes : Keeps(c) /\ Numbered(c) /\ (c # b => Still(c) /\ AllDocs(c)' = AllDocs(c))
        /\ \A c \in Mailboxes : dedup'[c] \subseteq Archived(c)'
        /\ \A r : r = rows[b] => RowOK(b, r)'
    BY <1>1, <1>2, <1>3, <1>4, StoredFacts
  <2> QED  BY <1>1, <1>2, <1>5, <2>1, BrokenKeeps DEF Downloading
<1>6. CASE /\ job.kind = "gap" /\ MarkHoles(Box)
           /\ gap_fill_batch(Storable(Box, Range(SubSeq(Batch, 1, k))),
                             Storable(Box, Range(SubSeq(Batch, 1, k))) # Range(Batch))
  <2>1. job \in JobSet /\ NextBatch \in Seq(Nat \ {0})  BY <1>1, BatchFacts DEF Downloading, IInv, TypeInv
  <2>2. /\ job' = [job EXCEPT !.uids = NextBatch, !.tries = 0, !.complete = @ /\ Storable(b, part) = Range(Batch)]
        /\ UNCHANGED <<state, updates>>
    BY <1>2, <1>3, <1>6 DEF gap_fill_batch
  <2>3. /\ job' \in JobSet /\ Same /\ job'.uids = NextBatch
        /\ job'.complete => job.complete /\ Storable(b, part) = Range(Batch)
    BY <2>1, <2>2 DEF JobSet, Same
  <2>4. step = "gap" /\ b \in DOMAIN rows /\ rows[b] \in RowSet
    <3>1. Working /\ step \in Loops  BY <1>1 DEF IInv, Shape, Downloading
    <3>2. step = "gap" /\ b \in DOMAIN rows  BY <1>2, <1>6, <3>1 DEF Working, Loops
    <3> QED  BY <3>2 DEF IInv, TypeInv, Table
  <2>5. rows'[b].highest = rows[b].highest /\ (rows[b].highest = 0 => rows'[b].holes)
    <3>1. rows'[b] = [rows[b] EXCEPT !.holes = rows[b].holes \/ rows[b].highest = 0]
      BY <1>2, <1>6, <2>4 DEF MarkHoles
    <3> QED  BY <2>4, <3>1 DEF RowSet
  <2>6. Sound' => job'.complete
    BY <1>2, <1>6, <2>3, <2>5 DEF Sound, Same, Box
  <2>7. Sound' => Sound  BY <1>6, <2>3, <2>6 DEF Sound
  <2>8. Sound' => Range(Batch) \subseteq part  BY <2>3, <2>6 DEF Storable
  <2>9. MarkHoles(b)  BY <1>2, <1>6
  <2> QED  BY <1>1, <1>2, <1>3, <1>4, <2>2, <2>3, <2>4, <2>7, <2>8, <2>9, BatchKeeps
<1> QED  BY <1>5, <1>6 DEF FailBatch

-----------------------------------------------------------------------------
(* The initial states.                                                      *)
LEMMA InitHolds == Init => IInv
<1> SUFFICES ASSUME Init PROVE IInv  OBVIOUS
<1>1. /\ rows = NoRows /\ local = NoRows /\ updates = NoRows /\ job = NoJob /\ step = "idle" /\ todo = {}
      /\ queue = <<>> /\ index = Empty /\ dedup = Empty /\ lost = Empty /\ passed = Empty
      /\ server = [b \in Mailboxes |-> [validity |-> 1, at |-> <<>>]]
      /\ state = [known |-> FALSE, active |-> FALSE, last |-> "none", folder |-> [b \in Mailboxes |-> "open"]]
  BY DEF Init
<1>2. DOMAIN NoRows = {} /\ Empty \in [Mailboxes -> {{}}]  BY DEF NoRows, Empty
<1>3. TypeInv
  <2>1. server \in [Mailboxes -> [validity : 1 .. MaxValidity, at : Seq(Messages \cup {Gone})]]
    <3>1. MaxValidity \in Nat \ {0}  BY MailboxSyncAssumption
    <3>2. <<>> \in Seq(Messages \cup {Gone})  BY SMTT(30)
    <3> QED  BY SMTT(30), <1>1, <3>1, <3>2
  <2>2. state \in States  BY <1>1 DEF States, Verdicts, FolderStatus
  <2>3. index \in [Mailboxes -> SUBSET Docs] /\ dedup \in [Mailboxes -> SUBSET Messages]  BY <1>1, <1>2
  <2>4. queue \in Seq([box : Mailboxes, doc : Docs])  BY SMTT(30), <1>1
  <2> QED  BY <1>1, <1>2, <2>1, <2>2, <2>3, <2>4 DEF TypeInv, Table, Loops
<1>4. \A b \in Mailboxes : AllDocs(b) = {} /\ dedup[b] = {}  BY SMTT(30), <1>1, <1>2 DEF AllDocs, Of, Range
<1>5. Shape  BY <1>1, <1>2 DEF Shape, Loops
<1>6. Epochs  BY <1>1, <1>2 DEF Epochs, Aged, Loops
<1>7. DocsInv  BY <1>4 DEF DocsInv
<1>8. RowsInv /\ UpdatesInv /\ LocalInv /\ JobInv  BY <1>1, <1>2 DEF RowsInv, UpdatesInv, LocalInv, JobInv
<1> QED  BY <1>3, <1>5, <1>6, <1>7, <1>8 DEF IInv

(* No step breaks the invariant.                                            *)
LEMMA NextKeeps ==
    ASSUME IInv, [Next]_vars
    PROVE  IInv'
<1>1. CASE SessionStep
  BY <1>1, ListKeeps, LoopsKeep, VisitFullKeeps, VisitTraceKeeps, VisitMissingKeeps, VisitGapKeeps,
     FetchBatchKeeps, CancelFolderKeeps, FolderDoneKeeps, GapDoneKeeps, EndTraceKeeps, EndKeeps
  DEF SessionStep
<1>2. CASE Fault
  BY <1>2, EndKeeps, QuietKeeps, VisitFailsKeeps, RetryBatchKeeps, FailBatchKeeps, RestartKeeps DEF Fault
<1>3. CASE UNCHANGED vars
  <2>1. Stay /\ UNCHANGED <<rows, step, listed, local, todo, updates, job>> /\ Noted
    BY <1>3 DEF vars, account, archive, session, history, Stay, Noted
  <2>2. \A b \in Mailboxes : server[b].validity <= server'[b].validity
    <3>1. \A b \in Mailboxes : server[b].validity \in Nat  BY UidFacts DEF IInv
    <3> QED  BY SMTT(30), <2>1, <3>1 DEF Stay
  <2> QED  BY <2>1, <2>2, StayStill, Outside
<1> QED
  BY <1>1, <1>2, <1>3, ServerKeeps, DeleteMailboxKeeps, QuietKeeps, CommitKeeps, LoopsKeep DEF Next

(* The inductive invariant of the sync: the state has its type; the rows,   *)
(* the copies of them a session holds and the folder in hand go together;   *)
(* what a row promises about the mail below its watermark, or below the     *)
(* highest document where it has none, holds; and what a download has yet   *)
(* to fetch is all that is missing up to its top.                           *)
THEOREM SyncInvariant == Spec => []IInv
<1>1. IInv /\ [Next]_vars => IInv'  BY NextKeeps
<1> QED  BY <1>1, InitHolds, PTL DEF Spec

(* The watermark never passes a message that was not fetched, for any       *)
(* mailboxes, accounts, batch sizes, errors, cancellations and restarts     *)
(* (flow.rs, #377): WatermarkCovers.                                        *)
THEOREM WatermarkAlwaysCovers == Spec => []WatermarkCovers
<1>1. IInv => WatermarkCovers
  <2> SUFFICES ASSUME IInv, NEW b \in Mailboxes, Trusted(b), rows[b].validity = server[b].validity,
                      NEW u \in Uids(b), u <= rows[b].highest, At(b, u) \in Wanted
               PROVE  Covered(b, At(b, u)) \/ At(b, u) \in lost[b] \cup passed[b]
    BY DEF WatermarkCovers
  <2>1. Good(b, At(b, u))  BY DEF IInv, RowsInv, RowOK, Current, UpTo, Trusted
  <2>2. Msgs(index[b]) \subseteq Archived(b)  BY DEF Msgs, Archived, AllDocs
  <2> QED  BY <2>1, <2>2 DEF Good, Covered, Alike
<1> QED  BY <1>1, SyncInvariant, PTL

(* A mailbox holds one document per e-mail, whatever is fetched again after *)
(* an error, a restart or a renumbering, for any mailboxes, batch sizes and *)
(* faults (DEDUP_CACHE): OneCopy.                                           *)
THEOREM OneCopyAlways == Spec => []OneCopy
<1>1. Init => CopyInv
  <2> SUFFICES ASSUME Init PROVE CopyInv  OBVIOUS
  <2>1. /\ queue = <<>> /\ index = [b \in Mailboxes |-> {}]
        /\ server = [b \in Mailboxes |-> [validity |-> 1, at |-> <<>>]]
    BY DEF Init, Empty
  <2>2. ServerInv  BY SMTT(30), <2>1 DEF ServerInv, Uids
  <2>3. CachedInv  BY SMTT(30), <2>1 DEF CachedInv, Archived, AllDocs, Of, Range, Msgs
  <2>4. Single  BY SMTT(30), <2>1 DEF Single
  <2> QED  BY <2>2, <2>3, <2>4 DEF CopyInv
<1>2. IInv /\ CopyInv /\ [Next]_vars => CopyInv'  BY NextCopies
<1>3. CopyInv => OneCopy
  <2> SUFFICES ASSUME CopyInv, NEW b \in Mailboxes, NEW m \in Messages \ forgot[b]
               PROVE  Cardinality({d \in index[b] : d.msg = m}) +
                      Cardinality({i \in DOMAIN queue : queue[i].box = b /\ queue[i].doc.msg = m}) <= 1
    BY DEF OneCopy
  <2> DEFINE D == {d \in index[b] : d.msg = m}
             Q == {i \in DOMAIN queue : queue[i].box = b /\ queue[i].doc.msg = m}
  <2>1. (\A x, y \in D : x = y) /\ (\A x, y \in Q : x = y) /\ (D = {} \/ Q = {})  BY DEF CopyInv, Single
  <2> HIDE DEF D, Q
  <2>2. Cardinality(D) = (IF D = {} THEN 0 ELSE 1) /\ Cardinality(Q) = (IF Q = {} THEN 0 ELSE 1)
    BY <2>1, AtMostOne
  <2>3. Cardinality(D) + Cardinality(Q) <= 1  BY SMTT(30), <2>1, <2>2
  <2> QED  BY <2>3 DEF D, Q
<1> QED  BY <1>1, <1>2, <1>3, SyncInvariant, PTL DEF Spec
=============================================================================
