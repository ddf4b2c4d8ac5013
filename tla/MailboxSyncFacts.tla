-------------------------- MODULE MailboxSyncFacts --------------------------
(***************************************************************************)
(* The invariant of the download sessions, what their operators return, and *)
(* that it survives the server, the background writers, deletions and       *)
(* restarts.                                                                *)
(***************************************************************************)
EXTENDS MailboxSync, TLAPS

RowSet == [validity : Nat, highest : Nat, holes : BOOLEAN]
JobSet == [kind : Kinds, box : Mailboxes, uids : Seq(Nat \ {0}), top : Nat, validity : Nat,
           tries : Nat, complete : BOOLEAN, epoch : Nat]
States == [known : BOOLEAN, active : BOOLEAN, last : Verdicts, folder : [Mailboxes -> FolderStatus]]
Table(f) == DOMAIN f \subseteq Mailboxes /\ \A b \in DOMAIN f : f[b] \in RowSet

TypeInv ==
    /\ server \in [Mailboxes -> [validity : 1 .. MaxValidity, at : Seq(Messages \cup {Gone})]]
    /\ Table(rows) /\ Table(local) /\ Table(updates)
    /\ queue \in Seq([box : Mailboxes, doc : Docs])
    /\ index \in [Mailboxes -> SUBSET Docs]
    /\ dedup \in [Mailboxes -> SUBSET Messages]
    /\ lost \in [Mailboxes -> SUBSET Messages]
    /\ passed \in [Mailboxes -> SUBSET Messages]
    /\ job = NoJob \/ job \in JobSet
    /\ todo \subseteq Mailboxes
    /\ step \in Loops => listed \in [Mailboxes -> [validity : Nat, exists : Nat]]
    /\ state \in States

(* Where the rows, the copies of them and the job are at each step.         *)
Fresh(b) == rows[b] = Row(listed[b].validity, 0, FALSE)
Working ==
    /\ Box \in DOMAIN rows \ todo
    /\ step \in {"full", "missing"} => job.kind \in {"full", "dated"}
    /\ step = "missing" => Fresh(Box)
    /\ step = "trace" =>
         /\ Box \in DOMAIN local \ DOMAIN updates
         /\ job.kind \in {"full", "dated", "new", "before", "reconcile"}
         /\ job.kind = "reconcile" <=> job.validity # local[Box].validity
         /\ job.validity = listed[Box].validity \/ listed[Box].validity = 0
    /\ step = "gap" => job.kind = "gap" /\ Box \in DOMAIN local
Shape ==
    /\ ~state.known \/ step = "list_full" => DOMAIN rows = {}
    /\ step # "idle" => state.known
    /\ step \notin Loops => job = NoJob
    /\ step \in {"idle", "list", "list_full", "full"} => DOMAIN local = {}
    /\ step # "trace" => DOMAIN updates = {}
    /\ step = "trace" => rows = local /\ todo \subseteq DOMAIN local \ DOMAIN updates
    /\ step = "missing" => \A b \in todo : AllDocs(b) = {} /\ Fresh(b)
    /\ step = "gap" => todo \subseteq DOMAIN local
    /\ step \in {"full", "missing", "gap"} => DOMAIN rows = Mailboxes
    /\ DOMAIN local \subseteq DOMAIN rows /\ DOMAIN updates \subseteq DOMAIN local
    /\ job # NoJob => Working

(* A UIDVALIDITY is one the server had by then, or a synthetic one.         *)
Older(v, e) == v <= e \/ v > MaxValidity
Aged(f) == \A b \in DOMAIN f : Older(f[b].validity, server[b].validity)
Epochs ==
    /\ Aged(rows) /\ Aged(local) /\ Aged(updates)
    /\ step \in Loops => \A b \in Mailboxes : listed[b].validity <= server[b].validity
    /\ job # NoJob =>
         /\ job.epoch <= server[Box].validity /\ Older(job.validity, job.epoch)
         /\ listed[Box].validity <= job.epoch /\ Older(rows[Box].validity, job.epoch)
         /\ Box \in DOMAIN local => Older(local[Box].validity, job.epoch)

(* The cache holds what is archived, and only mailboxes with a row hold any.*)
DocsInv ==
    /\ \A b \in Mailboxes : dedup[b] \subseteq Archived(b)
    /\ \A b \in Mailboxes \ DOMAIN rows : AllDocs(b) = {}

(* A message that need not be fetched, or was; what stands for it is        *)
(* committed, so that no crash takes it away.                               *)
Alike(n, m) == setup.print[n] = setup.print[m] \/ (setup.id[n] = setup.id[m] /\ setup.id[m] # NoId)
Good(b, m) ==
    \/ m \notin Wanted \/ m \in Archived(b) \/ m \in lost[b] \/ m \in passed[b]
    \/ \E n \in Msgs(index[b]) : Alike(n, m)
UpTo(b, h) ==
    h <= Len(server[b].at) /\ \A u \in Uids(b) : u <= h => Good(b, At(b, u))

(* What a row promises: its watermark and, where it has none, the highest   *)
(* document, from which the next sync starts.                               *)
Current(b, r) == ~r.holes /\ r.validity = server[b].validity
RowOK(b, r) ==
    Current(b, r) => /\ UpTo(b, r.highest)
                     /\ r.highest = 0 => \A d \in AllDocs(b) : UpTo(b, d.uid)
RowsInv == \A b \in DOMAIN rows : RowOK(b, rows[b])
UpdatesInv == \A b \in DOMAIN updates : RowOK(b, updates[b])
LocalInv == \A b \in DOMAIN local : Current(b, local[b]) => UpTo(b, local[b].highest)

(* What a job has yet to fetch is all that is missing up to its top, unless *)
(* it builds on a row that is not to be trusted, or is a gap-fill that left *)
(* something out.                                                           *)
Sound ==
    /\ job.kind \in {"new", "before"} => Current(Box, local[Box])
    /\ job.kind = "gap" => job.complete \/ (rows[Box].highest = 0 /\ ~rows[Box].holes)
JobInv ==
    job # NoJob =>
        /\ \A i, j \in DOMAIN job.uids : i < j => job.uids[i] < job.uids[j]
        /\ \A i \in DOMAIN job.uids : job.uids[i] <= job.top
        /\ job.epoch = server[Box].validity =>
             /\ job.top <= Len(server[Box].at)
             /\ Sound => \A u \in Uids(Box) :
                  u <= job.top => Good(Box, At(Box, u)) \/ u \in Range(job.uids)

IInv == TypeInv /\ Shape /\ Epochs /\ DocsInv /\ RowsInv /\ UpdatesInv /\ LocalInv /\ JobInv

-----------------------------------------------------------------------------
INSTANCE FiniteSetTheorems
INSTANCE SequenceTheorems
INSTANCE WellFoundedInduction

(* A leaf that names no prover is Zenon's.                                  *)
USE ZenonT(20)

(* At most one of two alike is one at most.                                 *)
LEMMA AtMostOne ==
    ASSUME NEW S, \A x, y \in S : x = y
    PROVE  Cardinality(S) = IF S = {} THEN 0 ELSE 1
<1>1. CASE S = {}  BY <1>1, FS_EmptySet
<1>2. CASE S # {}
  <2>1. PICK x \in S : TRUE  BY <1>2
  <2>2. S = {x}  BY <2>1
  <2> QED  BY <1>2, <2>2, FS_Singleton
<1> QED  BY <1>1, <1>2

(* The maximum of a set that has a largest element.                         *)
LEMMA MaxIs ==
    ASSUME NEW S, NEW k \in S, \A u \in S : k >= u
    PROVE  Max(S) \in S /\ \A u \in S : Max(S) >= u
  BY DEF Max

(* The highest of a set of UIDs, and 0 of none.                             *)
LEMMA TopFacts ==
    ASSUME NEW n \in Nat, NEW S \in SUBSET (1 .. n)
    PROVE  /\ Top(S) \in Nat /\ Top(S) <= n /\ \A u \in S : u <= Top(S)
           /\ S # {} => Top(S) \in S
           /\ S = {} <=> Top(S) = 0
<1>1. CASE S = {}  BY SMTT(30), <1>1 DEF Top
<1>2. CASE S # {}
  <2> DEFINE Above == {k \in Nat : \A u \in S : u <= k}
  <2>1. Above \subseteq Nat /\ n \in Above  BY SMTT(30)
  <2>2. \A u \in S : u \in Nat /\ u >= 1  BY SMTT(30)
  <2> HIDE DEF Above
  <2>3. PICK k \in Above : \A j \in Above : <<j, k>> \notin OpToRel(<, Nat)
    BY <2>1, NatLessThanWellFounded, WFMin
  <2>4. k \in Nat /\ \A j \in Above : ~(j < k)  BY <2>1, <2>3 DEF OpToRel
  <2>5. \A u \in S : u <= k  BY DEF Above
  <2>6. k \in S
    <3> SUFFICES ASSUME k \notin S PROVE FALSE  OBVIOUS
    <3>3. PICK v \in S : TRUE  BY <1>2
    <3>4. k # 0 /\ k - 1 \in Nat  BY SMTT(30), <2>2, <2>4, <2>5, <3>3
    <3>5. ASSUME NEW u \in S PROVE u <= k - 1
      <4>1. u \in Nat /\ u <= k /\ u # k  BY <2>2, <2>5
      <4> QED  BY SMTT(30), <2>4, <4>1
    <3>1. k - 1 \in Nat /\ \A u \in S : u <= k - 1  BY <3>4, <3>5
    <3>2. k - 1 \in Above  BY <3>1 DEF Above
    <3> QED  BY SMTT(30), <2>4, <3>2
  <2>7. Top(S) = Max(S)  BY <1>2 DEF Top
  <2>9. \A u \in S : k >= u  BY <2>2, <2>4, <2>5
  <2>8. Max(S) \in S /\ \A u \in S : Max(S) >= u  BY <2>6, <2>9, MaxIs
  <2>12. PICK x \in S : x = Max(S)  BY <2>8
  <2>13. x \in 1 .. n  OBVIOUS
  <2>10. Max(S) \in Nat /\ Max(S) >= 1 /\ Max(S) <= n  BY SMTT(30), <2>12, <2>13
  <2>11. \A u \in S : u <= Max(S)  BY <2>2, <2>8, <2>10
  <2> QED  BY SMTT(30), <1>2, <2>7, <2>8, <2>10, <2>11
<1> QED  BY <1>1, <1>2

(* A set of UIDs can be put in ascending order.                             *)
LEMMA AscendingExists ==
    ASSUME NEW n \in Nat, NEW S \in SUBSET (1 .. n)
    PROVE  \E s \in [1 .. Cardinality(S) -> S] : \A i, j \in DOMAIN s : i < j => s[i] < s[j]
<1> DEFINE Ordered(T) ==
      \E s \in [1 .. Cardinality(T) -> T] : \A i, j \in DOMAIN s : i < j => s[i] < s[j]
           Bad == {k \in Nat : \E T \in SUBSET (1 .. k) : ~Ordered(T)}
<1> SUFFICES ASSUME Bad # {} PROVE FALSE  OBVIOUS
<1>1. Bad \subseteq Nat  OBVIOUS
<1>2. PICK k \in Bad : \A j \in Bad : <<j, k>> \notin OpToRel(<, Nat)
  <2> HIDE DEF Bad
  <2> QED  BY <1>1, NatLessThanWellFounded, WFMin
<1>3. k \in Nat /\ \A j \in Bad : ~(j < k)
  <2> HIDE DEF Bad
  <2> QED  BY <1>1, <1>2 DEF OpToRel
<1>4. PICK T \in SUBSET (1 .. k) : ~Ordered(T)  BY <1>2
<1>5. IsFiniteSet(T) /\ Cardinality(T) \in Nat
  <2> HIDE DEF Ordered, Bad
  <2>1. IsFiniteSet(1 .. k)  BY SMTT(30), <1>3, FS_Interval
  <2> QED  BY <2>1, FS_Subset, FS_CardinalityType
<1>6. CASE T = {}
  <2>1. Cardinality(T) = 0  BY <1>6, FS_EmptySet
  <2> DEFINE s == [i \in 1 .. 0 |-> 0]
  <2>2. s \in [1 .. 0 -> T] /\ \A i, j \in DOMAIN s : i < j => s[i] < s[j]  BY SMTT(30)
  <2> QED  BY <1>4, <2>1, <2>2
<1>7. CASE T # {}
  <2> DEFINE R == T \ {k}
             c == Cardinality(T)
  <2>1. k - 1 \in Nat /\ k - 1 < k /\ R \in SUBSET (1 .. k - 1)
    <3> HIDE DEF Ordered, Bad
    <3>1. PICK v \in T : TRUE  BY <1>7
    <3>2. \A u \in R : u \in Nat /\ 1 <= u /\ u <= k /\ u # k  BY SMTT(30)
    <3> HIDE DEF R
    <3>3. k # 0  BY SMTT(30), <1>3, <3>1
    <3> QED  BY SMTT(30), <1>3, <3>2, <3>3
  <2>2. k - 1 \notin Bad  BY <1>3, <2>1
  <2>3. Ordered(R)
    <3> HIDE DEF Ordered
    <3> QED  BY <2>1, <2>2
  <2>4. k \in T
    <3> HIDE DEF Ordered
    <3>1. k \notin T => R = T  OBVIOUS
    <3> QED  BY <1>4, <2>3, <3>1
  <2>5. Cardinality(R) = c - 1  BY <1>5, <2>4, FS_RemoveElement
  <2>6. c # 0  BY <1>5, <1>7, FS_EmptySet
  <2>7. PICK r \in [1 .. c - 1 -> R] : \A i, j \in DOMAIN r : i < j => r[i] < r[j]  BY <2>3, <2>5
  <2> HIDE DEF c
  <2> DEFINE t == [i \in 1 .. c |-> IF i = c THEN k ELSE r[i]]
  <2>8. c \in Nat  BY <1>5 DEF c
  <2>9. \A i \in 1 .. c - 1 : r[i] \in T /\ r[i] \in Nat /\ r[i] < k
    <3> HIDE DEF Ordered, Bad, t
    <3>1. \A u \in R : u \in T /\ u \in Nat /\ u < k  BY SMTT(30), <1>3, <2>1
    <3> HIDE DEF R
    <3> QED  BY <2>7, <3>1
  <2>10. t \in [1 .. c -> T]  BY SMTT(30), <2>4, <2>6, <2>8, <2>9
  <2>11. \A i, j \in DOMAIN t : i < j => t[i] < t[j]
    BY SMTT(30), <2>6, <2>7, <2>8, <2>9
  <2> QED  BY <1>4, <2>10, <2>11 DEF c
<1> QED  BY <1>6, <1>7

(* What Ascending makes of a set of UIDs: all of them, in their order.      *)
LEMMA AscendingFacts ==
    ASSUME NEW n \in Nat, NEW S \in SUBSET (1 .. n)
    PROVE  /\ Cardinality(S) \in Nat /\ DOMAIN Ascending(S) = 1 .. Cardinality(S)
           /\ Ascending(S) \in Seq(Nat \ {0}) /\ Len(Ascending(S)) = Cardinality(S)
           /\ \A i, j \in DOMAIN Ascending(S) : i < j => Ascending(S)[i] < Ascending(S)[j]
           /\ Range(Ascending(S)) = S
<1> DEFINE s == Ascending(S)
           c == Cardinality(S)
<1>9. IsFiniteSet(1 .. n)  BY SMTT(30), FS_Interval
<1>1. IsFiniteSet(S) /\ c \in Nat  BY <1>9, FS_Subset, FS_CardinalityType
<1>2. s \in [1 .. c -> S] /\ \A i, j \in DOMAIN s : i < j => s[i] < s[j]
  BY AscendingExists DEF Ascending
<1> HIDE DEF s, c
<1>10. \A u \in S : u \in Nat /\ u # 0  BY SMTT(30)
<1>3. \A i \in 1 .. c : s[i] \in S /\ s[i] \in Nat /\ s[i] # 0  BY <1>2, <1>10
<1>4. s \in Injection(1 .. c, S)
  <2>1. \A i, j \in 1 .. c : s[i] = s[j] => i = j  BY SMTT(30), <1>1, <1>2, <1>3
  <2> QED  BY <1>2, <2>1 DEF Injection, IsInjective
<1>5. Cardinality(1 .. c) = c  BY SMTT(30), <1>1, FS_Interval
<1>6. s \in Surjection(1 .. c, S)  BY <1>1, <1>4, <1>5, FS_Injection DEF c
<1>7. Range(s) = S  BY <1>2, <1>6 DEF Surjection, Range
<1>8. s \in Seq(Nat \ {0}) /\ Len(s) = c  BY SMTT(30), <1>1, <1>2, <1>3
<1> QED  BY <1>1, <1>2, <1>7, <1>8 DEF s, c

(* The UIDs of a mailbox, and what is at them.                              *)
LEMMA UidFacts ==
    ASSUME TypeInv, NEW b \in Mailboxes
    PROVE  /\ server[b].validity \in 1 .. MaxValidity /\ server[b].validity \in Nat /\ MaxValidity \in Nat
           /\ server[b].at \in Seq(Messages \cup {Gone}) /\ Len(server[b].at) \in Nat
           /\ DOMAIN server[b].at = 1 .. Len(server[b].at)
           /\ Uids(b) \in SUBSET (1 .. Len(server[b].at))
           /\ \A u \in Uids(b) : u \in Nat \ {0} /\ u <= Len(server[b].at) /\ At(b, u) \in Messages
<1>1. server[b] \in [validity : 1 .. MaxValidity, at : Seq(Messages \cup {Gone})]  BY DEF TypeInv
<1>2. MaxValidity \in Nat  BY MailboxSyncAssumption
<1> QED  BY SMTT(30), <1>1, <1>2 DEF Uids, At

(* The documents of a mailbox.                                              *)
LEMMA DocFacts ==
    ASSUME TypeInv, NEW b \in Mailboxes
    PROVE  AllDocs(b) \subseteq Docs /\ \A d \in Docs : d.uid \in Nat /\ d.uid # 0 /\ d.msg \in Messages
<1>1. index[b] \subseteq Docs  BY DEF TypeInv
<1>2. \A i \in DOMAIN queue : queue[i] \in [box : Mailboxes, doc : Docs]
  <2> DEFINE E == [box : Mailboxes, doc : Docs]
  <2>1. queue \in Seq(E)  BY DEF TypeInv
  <2> HIDE DEF E
  <2>2. DOMAIN queue = 1 .. Len(queue)  BY SMTT(30), <2>1
  <2>3. \A i \in DOMAIN queue : queue[i] \in E  BY <2>1, <2>2, ElementOfSeq
  <2> QED  BY <2>3 DEF E
<1>3. Of(b, queue) \subseteq Docs  BY <1>2 DEF Of, Range
<1>4. \A d \in Docs : d.uid \in Nat /\ d.uid # 0 /\ d.msg \in Messages  BY DEF Docs
<1> QED  BY <1>1, <1>3, <1>4 DEF AllDocs

-----------------------------------------------------------------------------
ServerType ==
    server \in [Mailboxes -> [validity : 1 .. MaxValidity, at : Seq(Messages \cup {Gone})]]

(* What a step leaves standing of a mailbox: what was fetched, and the      *)
(* numbers its messages have.                                               *)
Keeps(b) ==
    /\ setup' = setup /\ index[b] \subseteq index'[b]
    /\ Archived(b) \subseteq Archived(b)' \cup lost'[b]
    /\ lost[b] \subseteq lost'[b] /\ passed[b] \subseteq passed'[b]
Numbered(b) ==
    /\ server'[b].validity = server[b].validity /\ Len(server[b].at) <= Len(server'[b].at)
    /\ \A u \in Uids(b)' : u <= Len(server[b].at) => u \in Uids(b) /\ At(b, u)' = At(b, u)
Still(b) ==
    /\ Keeps(b) /\ AllDocs(b)' \subseteq AllDocs(b)
    /\ Numbered(b) \/ server'[b].validity > server[b].validity

(* A message that need not be fetched again never has to be.                *)
LEMMA GoodKept ==
    ASSUME NEW b, Keeps(b), NEW m, Good(b, m)
    PROVE  Good(b, m)'
  BY DEF Good, Keeps, Wanted, Broken, Oversized, Msgs, Alike

(* Nor do the messages up to a UID.                                         *)
LEMMA UpToKept ==
    ASSUME TypeInv, ServerType', NEW b \in Mailboxes, Keeps(b), Numbered(b), NEW h \in Nat, UpTo(b, h)
    PROVE  UpTo(b, h)'
<1>1. Len(server[b].at) \in Nat /\ Len(server'[b].at) \in Nat /\ \A u \in Uids(b)' : u \in Nat
  <2>1. server[b] \in [validity : 1 .. MaxValidity, at : Seq(Messages \cup {Gone})]  BY DEF TypeInv
  <2>2. server'[b] \in [validity : 1 .. MaxValidity, at : Seq(Messages \cup {Gone})]  BY DEF ServerType
  <2> QED  BY SMTT(30), <2>1, <2>2 DEF Uids
<1>2. h <= Len(server[b].at) /\ \A u \in Uids(b) : u <= h => Good(b, At(b, u))  BY DEF UpTo
<1>3. h <= Len(server'[b].at)  BY SMTT(30), <1>1, <1>2 DEF Numbered
<1>4. ASSUME NEW u \in Uids(b)', u <= h PROVE Good(b, At(b, u))'
  <2>1. u \in Uids(b) /\ At(b, u)' = At(b, u)  BY SMTT(30), <1>1, <1>2, <1>4 DEF Numbered
  <2>2. Good(b, At(b, u))  BY <1>2, <1>4, <2>1
  <2> QED  BY <2>1, <2>2, GoodKept
<1> QED  BY <1>3, <1>4 DEF UpTo

(* A row of an earlier UIDVALIDITY says nothing about the present one.      *)
LEMMA Outdated ==
    ASSUME TypeInv, ServerType', NEW b \in Mailboxes, server'[b].validity > server[b].validity,
           NEW v \in Nat, Older(v, server[b].validity)
    PROVE  v # server'[b].validity
<1>1. server[b].validity \in 1 .. MaxValidity /\ server'[b].validity \in 1 .. MaxValidity
  BY DEF TypeInv, ServerType
<1> QED  BY SMTT(30), <1>1, MailboxSyncAssumption DEF Older

(* What a row promises still holds when nothing is added to its mailbox.    *)
LEMMA RowKept ==
    ASSUME TypeInv, ServerType', NEW b \in Mailboxes, Still(b),
           NEW r \in RowSet, Older(r.validity, server[b].validity)
    PROVE  /\ RowOK(b, r) => RowOK(b, r)'
           /\ (Current(b, r) => UpTo(b, r.highest)) => (Current(b, r)' => UpTo(b, r.highest)')
<1>0. r.validity \in Nat /\ r.highest \in Nat  BY DEF RowSet
<1>1. CASE server'[b].validity > server[b].validity
  BY <1>0, <1>1, Outdated DEF RowOK, Current
<1>2. CASE Numbered(b)
  <2>1. Current(b, r)' => Current(b, r)  BY <1>2 DEF Current, Numbered
  <2>2. UpTo(b, r.highest) => UpTo(b, r.highest)'  BY <1>0, <1>2, UpToKept DEF Still
  <2>3. ASSUME RowOK(b, r), Current(b, r)', r.highest = 0, NEW d \in AllDocs(b)' PROVE UpTo(b, d.uid)'
    <3>1. d \in AllDocs(b) /\ UpTo(b, d.uid)  BY <2>1, <2>3 DEF RowOK, Still
    <3>2. d \in Docs  BY <3>1, DocFacts
    <3> QED  BY <1>2, <3>1, <3>2, UpToKept DEF Still, Docs
  <2> QED  BY <2>1, <2>2, <2>3 DEF RowOK
<1> QED  BY <1>1, <1>2 DEF Still

(* A synthetic UIDVALIDITY is none of the server's.                         *)
LEMMA EpochIs ==
    ASSUME TypeInv, NEW b \in Mailboxes, NEW e \in Nat, e <= server[b].validity,
           NEW v \in Nat, Older(v, e), v = server[b].validity
    PROVE  e = server[b].validity
  BY SMTT(30), UidFacts DEF Older

(* A step that adds no document and changes no row.                         *)
LEMMA Framed ==
    ASSUME IInv, TypeInv', Shape', Epochs', DocsInv',
           DOMAIN rows' \subseteq DOMAIN rows, \A b \in DOMAIN rows' : rows'[b] = rows[b] /\ Still(b),
           local' = local \/ DOMAIN local' = {}, updates' = updates \/ DOMAIN updates' = {},
           job' = NoJob \/ (job' = job /\ local' = local)
    PROVE  IInv'
<1>0. ServerType'  BY DEF TypeInv, ServerType
<1>1. ASSUME NEW b \in DOMAIN rows' PROVE b \in Mailboxes /\ b \in DOMAIN rows /\ rows'[b] = rows[b] /\ Still(b)
  BY DEF IInv, TypeInv, Table
<1>2. RowsInv'
  <2> SUFFICES ASSUME NEW b \in DOMAIN rows' PROVE RowOK(b, rows[b])'  BY DEF RowsInv
  <2>1. rows[b] \in RowSet /\ Older(rows[b].validity, server[b].validity) /\ RowOK(b, rows[b])
    BY <1>1 DEF IInv, TypeInv, Table, Epochs, Aged, RowsInv
  <2> QED  BY <1>1, <2>1, <1>0, RowKept DEF IInv
<1>3. UpdatesInv'
  <2> SUFFICES ASSUME NEW b \in DOMAIN updates' PROVE RowOK(b, updates[b])'  BY DEF UpdatesInv
  <2>1. updates' = updates /\ b \in DOMAIN rows'  BY DEF Shape
  <2>2. updates[b] \in RowSet /\ Older(updates[b].validity, server[b].validity) /\ RowOK(b, updates[b])
    BY <2>1 DEF IInv, TypeInv, Table, Epochs, Aged, UpdatesInv
  <2> QED  BY <1>1, <2>1, <2>2, <1>0, RowKept DEF IInv
<1>4. LocalInv'
  <2> SUFFICES ASSUME NEW b \in DOMAIN local' PROVE (Current(b, local[b]) => UpTo(b, local[b].highest))'
    BY DEF LocalInv
  <2>1. local' = local /\ b \in DOMAIN rows'  BY DEF Shape
  <2>2. /\ local[b] \in RowSet /\ Older(local[b].validity, server[b].validity)
        /\ Current(b, local[b]) => UpTo(b, local[b].highest)
    BY <2>1 DEF IInv, TypeInv, Table, Epochs, Aged, LocalInv
  <2> QED  BY <1>1, <2>1, <2>2, <1>0, RowKept DEF IInv
<1>5. JobInv'
  <2> SUFFICES ASSUME job' # NoJob PROVE JobInv'  BY DEF JobInv
  <2>1. job' = job /\ local' = local /\ job # NoJob /\ Box' = Box  BY DEF Box
  <2>2. Box \in DOMAIN rows'  BY <2>1 DEF Shape, Working
  <2>3. Box \in Mailboxes /\ rows'[Box] = rows[Box] /\ Still(Box)  BY <1>1, <2>2
  <2>4. job \in JobSet /\ job.epoch \in Nat /\ job.top \in Nat  BY <2>1 DEF IInv, TypeInv, JobSet
  <2>5. ASSUME job.epoch = server'[Box].validity
        PROVE  /\ job.top <= Len(server'[Box].at)
               /\ Sound' => \A u \in Uids(Box)' :
                    u <= job.top => Good(Box, At(Box, u))' \/ u \in Range(job.uids)
    <3>1. server[Box].validity \in Nat /\ server'[Box].validity \in Nat /\ job.epoch <= server[Box].validity
      BY SMTT(30), <2>1, <2>3, UidFacts DEF IInv, Epochs, TypeInv
    <3>2. Numbered(Box) /\ job.epoch = server[Box].validity
      BY SMTT(30), <2>3, <2>5, <3>1 DEF Still, Numbered
    <3>3. /\ job.top <= Len(server[Box].at)
          /\ Sound => \A u \in Uids(Box) : u <= job.top => Good(Box, At(Box, u)) \/ u \in Range(job.uids)
      BY <2>1, <3>2 DEF IInv, JobInv
    <3>4. Sound' => Sound  BY <2>1, <2>3, <3>2 DEF Sound, Current, Numbered
    <3>5. Len(server[Box].at) \in Nat /\ Len(server'[Box].at) \in Nat /\ \A u \in Uids(Box)' : u \in Nat
      <4>1. server[Box] \in [validity : 1 .. MaxValidity, at : Seq(Messages \cup {Gone})]
        BY <2>3 DEF IInv, TypeInv
      <4>2. server'[Box] \in [validity : 1 .. MaxValidity, at : Seq(Messages \cup {Gone})]
        BY <2>3 DEF TypeInv
      <4>3. Len(server[Box].at) \in Nat  BY SMTT(30), <4>1
      <4>4. Len(server'[Box].at) \in Nat /\ DOMAIN server'[Box].at = 1 .. Len(server'[Box].at)  BY SMTT(30), <4>2
      <4>5. \A u \in Uids(Box)' : u \in 1 .. Len(server'[Box].at)  BY <2>1, <4>4 DEF Uids
      <4> QED  BY SMTT(30), <4>3, <4>4, <4>5
    <3>6. job.top <= Len(server'[Box].at)  BY SMTT(30), <2>4, <3>2, <3>3, <3>5 DEF Numbered
    <3>7. ASSUME Sound', NEW u \in Uids(Box)', u <= job.top, u \notin Range(job.uids)
          PROVE  Good(Box, At(Box, u))'
      <4>1. u \in Uids(Box) /\ At(Box, u)' = At(Box, u)
        BY SMTT(30), <2>1, <2>4, <3>2, <3>3, <3>5, <3>7 DEF Numbered
      <4>2. Good(Box, At(Box, u))  BY <3>3, <3>4, <3>7, <4>1
      <4> QED  BY <2>1, <2>3, <4>1, <4>2, GoodKept DEF Still
    <3> QED  BY <3>6, <3>7
  <2> QED  BY <2>1, <2>5 DEF IInv, JobInv
<1> QED  BY <1>2, <1>3, <1>4, <1>5 DEF IInv

(* One mailbox is worked on; the others stay as they are.                   *)
LEMMA OneBox ==
    ASSUME IInv, NEW b \in Mailboxes, TypeInv', Shape', Epochs', DocsInv', JobInv', local' = local,
           \A c \in Mailboxes : Keeps(c) /\ Numbered(c) /\ (c # b => Still(c)),
           \A c \in DOMAIN rows' : c # b => c \in DOMAIN rows /\ rows'[c] = rows[c],
           \A c \in DOMAIN updates' : c # b => c \in DOMAIN updates /\ updates'[c] = updates[c],
           b \in DOMAIN rows' => RowOK(b, rows[b])',
           b \in DOMAIN updates' => RowOK(b, updates[b])'
    PROVE  IInv'
<1>0. ServerType'  BY DEF TypeInv, ServerType
<1>1. RowsInv'
  <2> SUFFICES ASSUME NEW c \in DOMAIN rows' PROVE RowOK(c, rows[c])'  BY DEF RowsInv
  <2>1. CASE c = b  BY <2>1
  <2>2. CASE c # b
    <3>1. c \in Mailboxes /\ c \in DOMAIN rows /\ rows'[c] = rows[c] /\ Still(c)
      BY <2>2 DEF TypeInv, Table
    <3>2. rows[c] \in RowSet /\ Older(rows[c].validity, server[c].validity) /\ RowOK(c, rows[c])
      BY <3>1 DEF IInv, TypeInv, Table, Epochs, Aged, RowsInv
    <3> QED  BY <3>1, <3>2, <1>0, RowKept DEF IInv
  <2> QED  BY <2>1, <2>2
<1>2. UpdatesInv'
  <2> SUFFICES ASSUME NEW c \in DOMAIN updates' PROVE RowOK(c, updates[c])'  BY DEF UpdatesInv
  <2>1. CASE c = b  BY <2>1
  <2>2. CASE c # b
    <3>1. c \in Mailboxes /\ c \in DOMAIN updates /\ updates'[c] = updates[c] /\ Still(c)
      BY <2>2 DEF TypeInv, Table
    <3>2. updates[c] \in RowSet /\ Older(updates[c].validity, server[c].validity) /\ RowOK(c, updates[c])
      BY <3>1 DEF IInv, TypeInv, Table, Epochs, Aged, UpdatesInv
    <3> QED  BY <3>1, <3>2, <1>0, RowKept DEF IInv
  <2> QED  BY <2>1, <2>2
<1>3. LocalInv'
  <2> SUFFICES ASSUME NEW c \in DOMAIN local', Current(c, local[c])' PROVE UpTo(c, local[c].highest)'
    BY DEF LocalInv
  <2>1. c \in Mailboxes /\ c \in DOMAIN local /\ local[c] \in RowSet /\ local'[c] = local[c]
    BY DEF IInv, TypeInv, Table
  <2>2. Keeps(c) /\ Numbered(c)  BY <2>1
  <2>3. Current(c, local[c])  BY <2>1, <2>2 DEF Current, Numbered
  <2>4. UpTo(c, local[c].highest) /\ local[c].highest \in Nat  BY <2>1, <2>3 DEF IInv, LocalInv, RowSet
  <2> QED  BY <2>1, <2>2, <2>4, <1>0, UpToKept DEF IInv
<1> QED  BY <1>1, <1>2, <1>3 DEF IInv

(* The documents of two queues, one after the other.                        *)
LEMMA OfConcat ==
    ASSUME NEW S, NEW s \in Seq(S), NEW t \in Seq(S), NEW b
    PROVE  Of(b, s \o t) = Of(b, s) \cup Of(b, t)
<1>1. /\ Len(s) \in Nat /\ Len(t) \in Nat /\ DOMAIN s = 1 .. Len(s) /\ DOMAIN t = 1 .. Len(t)
      /\ DOMAIN (s \o t) = 1 .. Len(s) + Len(t)
      /\ \A i \in 1 .. Len(s) : (s \o t)[i] = s[i]
      /\ \A i \in 1 .. Len(t) : (s \o t)[Len(s) + i] = t[i]
  BY SMTT(30)
<1>2. Range(s \o t) \subseteq Range(s) \cup Range(t)
  <2> SUFFICES ASSUME NEW i \in DOMAIN (s \o t) PROVE (s \o t)[i] \in Range(s) \cup Range(t)
    BY DEF Range
  <2>1. CASE i <= Len(s)
    <3>1. i \in DOMAIN s /\ (s \o t)[i] = s[i]  BY SMTT(30), <1>1, <2>1
    <3> QED  BY <3>1 DEF Range
  <2>2. CASE i > Len(s)
    <3>1. i - Len(s) \in DOMAIN t /\ (s \o t)[i] = t[i - Len(s)]  BY SMTT(30), <1>1, <2>2
    <3> QED  BY <3>1 DEF Range
  <2> QED  BY SMTT(30), <1>1, <2>1, <2>2
<1>3. Range(s) \subseteq Range(s \o t)
  <2>1. \A i \in DOMAIN s : i \in DOMAIN (s \o t) /\ (s \o t)[i] = s[i]  BY SMTT(30), <1>1
  <2> QED  BY <2>1 DEF Range
<1>4. Range(t) \subseteq Range(s \o t)
  <2>1. \A i \in DOMAIN t : Len(s) + i \in DOMAIN (s \o t) /\ (s \o t)[Len(s) + i] = t[i]  BY SMTT(30), <1>1
  <2> QED  BY <2>1 DEF Range
<1>5. Range(s \o t) = Range(s) \cup Range(t)  BY <1>2, <1>3, <1>4
<1> QED  BY <1>5 DEF Of

(* What the writer takes from the queue and what it leaves.                 *)
LEMMA SplitFacts ==
    ASSUME TypeInv, NEW n \in 0 .. Len(queue)
    PROVE  /\ First(n) \in Seq([box : Mailboxes, doc : Docs]) /\ After(n) \in Seq([box : Mailboxes, doc : Docs])
           /\ queue = First(n) \o After(n)
           /\ \A b \in Mailboxes : Of(b, queue) = Of(b, First(n)) \cup Of(b, After(n))
           /\ \A b \in Mailboxes : Of(b, First(n)) \subseteq Docs
<1>1. queue \in Seq([box : Mailboxes, doc : Docs])  BY DEF TypeInv
<1> DEFINE E == [box : Mailboxes, doc : Docs]
<1> HIDE DEF E
<1>2. ASSUME NEW q \in Seq(E), NEW k \in 0 .. Len(q)
      PROVE  /\ SubSeq(q, 1, k) \in Seq(E) /\ SubSeq(q, k + 1, Len(q)) \in Seq(E)
             /\ q = SubSeq(q, 1, k) \o SubSeq(q, k + 1, Len(q))
  <2>1. Len(q) \in Nat /\ SubSeq(q, 1, Len(q)) = q  BY SMTT(30), <1>2, SubSeqFull
  <2>4. \A i \in 1 .. Len(q) : q[i] \in E  BY ElementOfSeq
  <2>5. k \in Int /\ k + 1 \in Int /\ 1 \in Int /\ Len(q) \in Int
        /\ (\A i \in 1 .. k : i \in 1 .. Len(q)) /\ \A i \in k + 1 .. Len(q) : i \in 1 .. Len(q)
    BY SMTT(30), <2>1
  <2>6. (\A i \in 1 .. k : q[i] \in E) /\ \A i \in k + 1 .. Len(q) : q[i] \in E  BY <2>4, <2>5
  <2>7. SubSeq(q, 1, k) \in Seq(E)  BY <2>5, <2>6, SubSeqProperties
  <2>8. SubSeq(q, k + 1, Len(q)) \in Seq(E)  BY <2>5, <2>6, SubSeqProperties
  <2>2. SubSeq(q, 1, k) \in Seq(E) /\ SubSeq(q, k + 1, Len(q)) \in Seq(E)  BY <2>7, <2>8
  <2>3. SubSeq(q, 1, k) \o SubSeq(q, k + 1, Len(q)) = SubSeq(q, 1, Len(q))
    <3>1. 1 \in 1 .. Len(q) + 1 /\ k \in 1 - 1 .. Len(q) /\ Len(q) \in k .. Len(q)  BY SMTT(30), <2>1
    <3> QED  BY <3>1, ConcatAdjacentSubSeq
  <2> QED  BY <2>1, <2>2, <2>3
<1>3. First(n) \in Seq(E) /\ After(n) \in Seq(E) /\ queue = First(n) \o After(n)
  BY <1>1, <1>2 DEF First, After, E
<1>4. \A b \in Mailboxes : Of(b, queue) = Of(b, First(n)) \cup Of(b, After(n))
  BY SMTT(30), <1>3, OfConcat
<1>5. \A b \in Mailboxes : Of(b, queue) \subseteq Docs  BY DocFacts DEF AllDocs
<1> QED  BY <1>3, <1>4, <1>5 DEF E

(* What a batch adds to the queue.                                          *)
DocAt(b, u) == [msg |-> At(b, u), uid |-> u]
New(b, uids) == {u \in Storable(b, uids) : At(b, u) \notin dedup[b]}
Entries == Seq([box : Mailboxes, doc : Docs])
Adds(b, uids, t) ==
    /\ queue' = queue \o t
    /\ \A i \in DOMAIN t : t[i].box = b /\ \E u \in New(b, uids) : t[i].doc = DocAt(b, u)
    /\ \A u \in New(b, uids) : \E i \in DOMAIN t : t[i].doc = DocAt(b, u)
    /\ \A i, j \in DOMAIN t : t[i].doc.uid = t[j].doc.uid => i = j

(* One entry for each message that is new, in the order of the UIDs.        *)
LEMMA StoreQueue ==
    ASSUME TypeInv, NEW b \in Mailboxes, NEW uids, Store(b, uids)
    PROVE  \E t \in Entries : Adds(b, uids, t)
<1> DEFINE new == New(b, uids)
           c == Cardinality(new)
           t == [i \in 1 .. c |-> [box |-> b, doc |-> DocAt(b, Ascending(new)[i])]]
<1>1. new \in SUBSET (1 .. Len(server[b].at)) /\ Len(server[b].at) \in Nat
      /\ \A u \in new : DocAt(b, u) \in Docs
  BY UidFacts DEF New, Storable, DocAt, Docs
<1>2. queue' = queue \o t  BY DEF Store, New, DocAt
<1> HIDE DEF new
<1>3. /\ c \in Nat /\ DOMAIN Ascending(new) = 1 .. c /\ Ascending(new) \in Seq(Nat \ {0})
      /\ \A i, j \in 1 .. c : i < j => Ascending(new)[i] < Ascending(new)[j]
      /\ Range(Ascending(new)) = new
  BY <1>1, AscendingFacts
<1> HIDE DEF c
<1>4. /\ \A i \in 1 .. c : Ascending(new)[i] \in new /\ Ascending(new)[i] \in Nat
      /\ \A u \in new : \E i \in 1 .. c : u = Ascending(new)[i]
  BY SMTT(30), <1>3 DEF Range
<1>5. \A i \in 1 .. c : t[i] \in [box : Mailboxes, doc : Docs]  BY <1>1, <1>4
<1>6. t \in Seq([box : Mailboxes, doc : Docs]) /\ DOMAIN t = 1 .. c  BY SMTT(30), <1>3, <1>5
<1>7. \A i, j \in 1 .. c : t[i].doc.uid = t[j].doc.uid => i = j  BY SMTT(30), <1>3, <1>4 DEF DocAt
<1>8. /\ \A i \in 1 .. c : t[i].box = b /\ \E u \in new : t[i].doc = DocAt(b, u)
      /\ \A u \in new : \E i \in 1 .. c : t[i].doc = DocAt(b, u)
  BY <1>4
<1> HIDE DEF t
<1>9. Adds(b, uids, t)  BY <1>2, <1>6, <1>7, <1>8 DEF new, Adds
<1> QED  BY <1>6, <1>9 DEF Entries

(* And to the archive.                                                      *)
LEMMA StoreFacts ==
    ASSUME TypeInv, NEW b \in Mailboxes, NEW uids, Store(b, uids)
    PROVE  /\ queue' \in Seq([box : Mailboxes, doc : Docs]) /\ index' = index
           /\ dedup' \in [Mailboxes -> SUBSET Messages]
           /\ \A c \in Mailboxes : c # b => AllDocs(c)' = AllDocs(c) /\ dedup'[c] = dedup[c]
           /\ AllDocs(b)' = AllDocs(b) \cup {DocAt(b, u) : u \in New(b, uids)}
           /\ dedup'[b] = dedup[b] \cup {At(b, u) : u \in New(b, uids)}
<1>9. PICK t \in Entries : Adds(b, uids, t)  BY StoreQueue
<1>1. /\ queue' = queue \o t
      /\ \A i \in DOMAIN t : t[i].box = b /\ \E u \in New(b, uids) : t[i].doc = DocAt(b, u)
      /\ \A u \in New(b, uids) : \E i \in DOMAIN t : t[i].doc = DocAt(b, u)
  BY <1>9 DEF Adds
<1>2. queue \in Entries /\ index' = index  BY DEF TypeInv, Store, Entries
<1>3. queue' \in Seq([box : Mailboxes, doc : Docs])
  <2> DEFINE E == [box : Mailboxes, doc : Docs]
  <2>2. queue \in Seq(E) /\ t \in Seq(E)  BY <1>2 DEF Entries
  <2> HIDE DEF E
  <2>1. queue \o t \in Seq(E)  BY SMTT(30), <2>2
  <2> QED  BY <1>1, <2>1 DEF E
<1>4. \A c : Of(c, queue') = Of(c, queue) \cup Of(c, t)  BY SMTT(30), <1>1, <1>2, OfConcat DEF Entries
<1>5. Of(b, t) = {DocAt(b, u) : u \in New(b, uids)} /\ \A c : c # b => Of(c, t) = {}
  <2> DEFINE D == {DocAt(b, u) : u \in New(b, uids)}
  <2>1. \A d \in Of(b, t) : \E i \in DOMAIN t : d = t[i].doc  BY DEF Of, Range
  <2>2. \A i \in DOMAIN t : t[i].doc \in Of(b, t)  BY <1>1 DEF Of, Range
  <2>3. Of(b, t) \subseteq D  BY <1>1, <2>1
  <2>4. D \subseteq Of(b, t)  BY <1>1, <2>2
  <2>5. \A c : c # b => Of(c, t) = {}  BY SMTT(30), <1>1 DEF Of, Range
  <2> QED  BY <2>3, <2>4, <2>5
<1>6. \A c \in Mailboxes : AllDocs(c)' = AllDocs(c) \cup Of(c, t)  BY <1>2, <1>4 DEF AllDocs
<1>7. \A u \in New(b, uids) : At(b, u) \in Messages  BY UidFacts DEF New, Storable
<1>8. dedup \in [Mailboxes -> SUBSET Messages]
      /\ dedup' = [dedup EXCEPT ![b] = @ \cup {At(b, u) : u \in New(b, uids)}]
  BY DEF TypeInv, Store, New
<1> QED  BY <1>2, <1>3, <1>5, <1>6, <1>7, <1>8

-----------------------------------------------------------------------------
(* The steps that leave the rows and the job alone.                         *)
ArchiveType ==
    /\ queue \in Entries /\ index \in [Mailboxes -> SUBSET Docs] /\ dedup \in [Mailboxes -> SUBSET Messages]
    /\ lost \in [Mailboxes -> SUBSET Messages] /\ passed \in [Mailboxes -> SUBSET Messages]

(* The session's state is closed, or a folder of it marked.                 *)
Noted ==
    \/ state' = state \/ \E v \in Verdicts : state' = Close(state, v)
    \/ \E b \in Mailboxes, s \in FolderStatus : Folder(b, s)

(* Noting an outcome keeps the sync state a sync state.                     *)
LEMMA StateKept ==
    ASSUME TypeInv, Noted
    PROVE  state' \in States /\ state'.known = state.known
<1>1. state \in States  BY DEF TypeInv
<1>2. ASSUME NEW v \in Verdicts, state' = Close(state, v) PROVE state' \in States /\ state'.known = state.known
  BY <1>1, <1>2 DEF Close, States
<1>3. ASSUME NEW b \in Mailboxes, NEW s \in FolderStatus, Folder(b, s)
      PROVE  state' \in States /\ state'.known = state.known
  BY <1>1, <1>3 DEF Folder, States
<1> QED  BY <1>1, <1>2, <1>3 DEF Noted

(* UIDVALIDITYs only grow.                                                  *)
LEMMA OlderGrows ==
    ASSUME NEW v \in Nat, NEW e \in Nat, NEW f \in Nat, e <= f, Older(v, e)
    PROVE  Older(v, f)
  BY SMTT(30), MailboxSyncAssumption DEF Older

(* A step around the session.                                               *)
LEMMA Outside ==
    ASSUME IInv, UNCHANGED <<rows, step, listed, local, todo, updates, job>>, Noted,
           ArchiveType', ServerType', DocsInv',
           \A b \in Mailboxes : /\ Still(b) /\ AllDocs(b)' = AllDocs(b)
                                /\ server[b].validity <= server'[b].validity
    PROVE  IInv'
<1>1. state' \in States /\ state'.known = state.known  BY StateKept DEF IInv
<1>2. TypeInv'
  BY <1>1 DEF IInv, TypeInv, ArchiveType, ServerType, Entries, Table
<1>3. Shape'
  <2>1. job # NoJob => (Working => Working')  BY DEF Working, Box, Fresh
  <2> QED  BY <1>1, <2>1 DEF IInv, Shape, Fresh, TypeInv
<1>4. Epochs'
  <2>1. \A b \in Mailboxes : server[b].validity \in Nat /\ server'[b].validity \in Nat
    BY SMTT(30), <1>2, UidFacts DEF IInv, TypeInv
  <2>2. ASSUME NEW f, Table(f), Aged(f) PROVE \A b \in DOMAIN f : Older(f[b].validity, server'[b].validity)
    <3> SUFFICES ASSUME NEW b \in DOMAIN f PROVE Older(f[b].validity, server'[b].validity)  OBVIOUS
    <3>1. b \in Mailboxes /\ f[b].validity \in Nat /\ Older(f[b].validity, server[b].validity)
      BY <2>2 DEF Table, RowSet, Aged
    <3> QED  BY <2>1, <3>1, OlderGrows
  <2>3. Aged(rows)' /\ Aged(local)' /\ Aged(updates)'
    BY <2>2 DEF IInv, TypeInv, Epochs, Aged
  <2>4. ASSUME step \in Loops, NEW b \in Mailboxes PROVE listed[b].validity <= server'[b].validity
    BY SMTT(30), <2>1, <2>4 DEF IInv, Epochs, TypeInv
  <2>5. ASSUME job # NoJob PROVE job.epoch <= server'[Box].validity
    <3>1. Box \in Mailboxes /\ job.epoch \in Nat /\ job.epoch <= server[Box].validity
      BY <2>5 DEF IInv, TypeInv, JobSet, Box, Epochs
    <3> QED  BY SMTT(30), <2>1, <3>1
  <2> QED  BY <2>3, <2>4, <2>5 DEF IInv, Epochs, Box
<1> QED  BY <1>2, <1>3, <1>4, Framed DEF IInv, TypeInv, Table

(* The end of a session.                                                    *)
LEMMA RestKeeps ==
    ASSUME IInv, Rest, rows' = rows, server' = server, Noted, ArchiveType', DocsInv',
           \A b \in Mailboxes : Still(b)
    PROVE  IInv'
<1>1. state' \in States /\ state'.known = state.known  BY StateKept DEF IInv
<1>2. /\ step' = "idle" /\ job' = NoJob /\ todo' = {} /\ DOMAIN local' = {} /\ DOMAIN updates' = {}
  BY DEF Rest, NoRows
<1>3. TypeInv'
  BY <1>1, <1>2 DEF IInv, TypeInv, ArchiveType, Entries, Table, Loops
<1>4. Shape'  BY <1>1, <1>2 DEF IInv, Shape, Loops
<1>5. Epochs'  BY <1>2 DEF IInv, Epochs, Aged, Loops
<1> QED  BY <1>2, <1>3, <1>4, <1>5, Framed DEF IInv, TypeInv, Table

(* A step on to another folder or another loop.                             *)
LEMMA MovesOn ==
    ASSUME IInv, Shape', UNCHANGED <<server, rows, listed, local, updates, job>>, Noted \/ state' = NewSession,
           todo' \subseteq Mailboxes, step' \in Loops => step \in Loops,
           ArchiveType', DocsInv', \A b \in Mailboxes : Still(b)
    PROVE  IInv'
<1>1. state' \in States
  <2>1. CASE Noted  BY <2>1, StateKept DEF IInv
  <2>2. CASE state' = NewSession  BY <2>2 DEF NewSession, States, Verdicts, FolderStatus
  <2> QED  BY <2>1, <2>2
<1>2. TypeInv'
  BY <1>1 DEF IInv, TypeInv, ArchiveType, Entries, Table
<1>3. Epochs'  BY DEF IInv, Epochs, Aged, Box
<1> QED  BY <1>2, <1>3, Framed DEF IInv, TypeInv, Table

(* Where neither server nor archive changes, every mailbox stays.           *)
Stay == UNCHANGED <<setup, server, archive, lost, passed>>

(* Such a step keeps what is fetched and what is numbered.                  *)
LEMMA StayStill ==
    ASSUME IInv, Stay, rows' = rows
    PROVE  ArchiveType' /\ ServerType' /\ DocsInv' /\ \A b \in Mailboxes : Still(b) /\ AllDocs(b)' = AllDocs(b)
<1>1. \A b : AllDocs(b)' = AllDocs(b) /\ Archived(b)' = Archived(b) /\ Uids(b)' = Uids(b)
  BY DEF Stay, archive, AllDocs, Archived, Uids
<1>2. \A b \in Mailboxes : Len(server[b].at) \in Nat  BY UidFacts DEF IInv
<1>3. \A b \in Mailboxes : Still(b)
  BY SMTT(30), <1>1, <1>2 DEF Still, Keeps, Numbered, Stay, archive, At
<1>4. ArchiveType' /\ ServerType'  BY DEF IInv, TypeInv, ArchiveType, ServerType, Stay, archive, Entries
<1>5. DocsInv'  BY <1>1 DEF IInv, DocsInv, Stay, archive
<1> QED  BY <1>1, <1>3, <1>4, <1>5

(* A message added at the end, and one taken from the middle.               *)
LEMMA AppendFacts ==
    ASSUME NEW M, NEW s \in Seq(M), NEW x \in M
    PROVE  /\ Append(s, x) \in Seq(M) /\ Len(s) <= Len(Append(s, x))
           /\ \A u \in DOMAIN Append(s, x) : u <= Len(s) => u \in DOMAIN s /\ Append(s, x)[u] = s[u]
<1>1. /\ Append(s, x) \in Seq(M) /\ Len(s) \in Nat /\ Len(Append(s, x)) = Len(s) + 1
      /\ \A i \in 1 .. Len(s) : Append(s, x)[i] = s[i]
  BY SMTT(30), AppendProperties
<1>2. DOMAIN Append(s, x) = 1 .. Len(s) + 1 /\ DOMAIN s = 1 .. Len(s)  BY SMTT(30), <1>1
<1> QED  BY SMTT(30), <1>1, <1>2

(* And one replaced.                                                        *)
LEMMA ChangeFacts ==
    ASSUME NEW M, NEW s \in Seq(M), NEW x \in M, NEW u
    PROVE  LET t == [s EXCEPT ![u] = x]
           IN  /\ t \in Seq(M) /\ Len(t) = Len(s) /\ DOMAIN t = DOMAIN s /\ Len(s) \in Nat
               /\ \A i \in DOMAIN t : t[i] # x => t[i] = s[i]
<1> DEFINE t == [s EXCEPT ![u] = x]
<1>1. DOMAIN t = DOMAIN s /\ \A i \in DOMAIN t : t[i] = IF i = u THEN x ELSE s[i]  OBVIOUS
<1>2. Len(s) \in Nat /\ DOMAIN s = 1 .. Len(s) /\ \A i \in 1 .. Len(s) : s[i] \in M  BY SMTT(30)
<1>3. t = [i \in 1 .. Len(s) |-> t[i]]  BY <1>1, <1>2
<1> HIDE DEF t
<1>4. t \in Seq(M) /\ Len(t) = Len(s)  BY SMTT(30), <1>1, <1>2, <1>3, IsASeq
<1> QED  BY <1>1, <1>2, <1>4 DEF t

(* New mail, and mail deleted or renumbered at the server.                  *)
LEMMA ServerKeeps ==
    ASSUME IInv, NEW b \in Mailboxes,
           \/ \E m \in Messages : Deliver(b, m)
           \/ \E u \in 1 .. MaxUid : Expunge(b, u)
           \/ \E keep \in BOOLEAN : Revalidate(b, keep)
    PROVE  IInv'
<1>1. UNCHANGED <<account, rows, archive, state, session, history>>
  BY DEF Deliver, Expunge, Revalidate
<1>2. server[b] \in [validity : 1 .. MaxValidity, at : Seq(Messages \cup {Gone})]  BY DEF IInv, TypeInv
<1>10. server[b].at \in Seq(Messages \cup {Gone}) /\ server[b].validity \in 1 .. MaxValidity  BY <1>2
<1>3. /\ server'[b] \in [validity : 1 .. MaxValidity, at : Seq(Messages \cup {Gone})]
      /\ server' = [server EXCEPT ![b] = server'[b]]
      /\ Numbered(b) \/ server'[b].validity > server[b].validity
  <2>1. ASSUME NEW m \in Messages, Deliver(b, m)
        PROVE  /\ server'[b] = [validity |-> server[b].validity, at |-> Append(server[b].at, m)]
               /\ server' = [server EXCEPT ![b] = server'[b]]
    BY <1>2, <2>1 DEF IInv, TypeInv, Deliver
  <2>2. ASSUME NEW u \in 1 .. MaxUid, Expunge(b, u)
        PROVE  /\ server'[b] = [validity |-> server[b].validity, at |-> [server[b].at EXCEPT ![u] = Gone]]
               /\ server' = [server EXCEPT ![b] = server'[b]]
    BY <1>2, <2>2 DEF IInv, TypeInv, Expunge
  <2>3. ASSUME NEW keep \in BOOLEAN, Revalidate(b, keep)
        PROVE  /\ server'[b].validity = server[b].validity + 1 /\ server[b].validity < MaxValidity
               /\ server'[b].at \in Seq(Messages \cup {Gone})
               /\ server'[b] = [validity |-> server'[b].validity, at |-> server'[b].at]
               /\ server' = [server EXCEPT ![b] = server'[b]]
    <3> DEFINE s == Ascending(Uids(b))
               c == Cardinality(Uids(b))
    <3>1. c \in Nat /\ DOMAIN s = 1 .. c /\ Range(s) = Uids(b)  BY UidFacts, AscendingFacts DEF IInv
    <3>2. \A i \in 1 .. c : At(b, s[i]) \in Messages
      <4>1. \A i \in 1 .. c : s[i] \in Uids(b)  BY <3>1 DEF Range
      <4> QED  BY <4>1, UidFacts DEF IInv
    <3>3. /\ server[b].validity < MaxValidity
          /\ server' = [server EXCEPT ![b] = [validity |-> server[b].validity + 1,
                at |-> IF keep THEN [i \in 1 .. c |-> At(b, s[i])] ELSE <<>>]]
      BY <2>3 DEF Revalidate
    <3> HIDE DEF s, c
    <3>4. [i \in 1 .. c |-> At(b, s[i])] \in Seq(Messages \cup {Gone})  BY SMTT(30), <3>1, <3>2
    <3>5. server'[b] = [validity |-> server[b].validity + 1,
                        at |-> IF keep THEN [i \in 1 .. c |-> At(b, s[i])] ELSE <<>>]
      BY <3>3 DEF IInv, TypeInv
    <3>6. server'[b].at \in Seq(Messages \cup {Gone})  BY SMTT(30), <3>4, <3>5
    <3>7. server'[b].validity = server[b].validity + 1 /\ server'[b] = [validity |-> server'[b].validity, at |-> server'[b].at]
      BY SMTT(30), <3>5
    <3>8. server' = [server EXCEPT ![b] = server'[b]]
      <4> DEFINE x == [validity |-> server[b].validity + 1,
                       at |-> IF keep THEN [i \in 1 .. c |-> At(b, s[i])] ELSE <<>>]
      <4>1. server' = [server EXCEPT ![b] = x] /\ server'[b] = x  BY <3>3, <3>5
      <4> HIDE DEF x
      <4> QED  BY <4>1
    <3> QED  BY <3>3, <3>6, <3>7, <3>8
  <2>4. ASSUME NEW m \in Messages, Deliver(b, m)
        PROVE  server'[b] \in [validity : 1 .. MaxValidity, at : Seq(Messages \cup {Gone})] /\ Numbered(b)
    <3>1. server'[b] = [validity |-> server[b].validity, at |-> Append(server[b].at, m)]  BY <2>1, <2>4
    <3>2. server'[b].at = Append(server[b].at, m) /\ server'[b].validity = server[b].validity  BY SMTT(30), <3>1
    <3>3. /\ Append(server[b].at, m) \in Seq(Messages \cup {Gone})
          /\ Len(server[b].at) <= Len(Append(server[b].at, m))
          /\ \A u \in DOMAIN Append(server[b].at, m) : u <= Len(server[b].at) =>
                 u \in DOMAIN server[b].at /\ Append(server[b].at, m)[u] = server[b].at[u]
      BY SMTT(30), <1>10, AppendFacts
    <3>4. Numbered(b)  BY <3>2, <3>3 DEF Numbered, Uids, At
    <3> QED  BY SMTT(30), <1>10, <3>1, <3>3, <3>4
  <2>5. ASSUME NEW u \in 1 .. MaxUid, Expunge(b, u)
        PROVE  server'[b] \in [validity : 1 .. MaxValidity, at : Seq(Messages \cup {Gone})] /\ Numbered(b)
    <3> DEFINE t == [server[b].at EXCEPT ![u] = Gone]
    <3>1. server'[b] = [validity |-> server[b].validity, at |-> t]  BY <2>2, <2>5
    <3>3. /\ t \in Seq(Messages \cup {Gone}) /\ Len(t) = Len(server[b].at) /\ DOMAIN t = DOMAIN server[b].at
          /\ \A i \in DOMAIN t : t[i] # Gone => t[i] = server[b].at[i]
          /\ Len(server[b].at) \in Nat
      BY SMTT(30), <1>10, ChangeFacts
    <3> HIDE DEF t
    <3>2. server'[b].at = t /\ server'[b].validity = server[b].validity  BY SMTT(30), <3>1
    <3>4. Numbered(b)  BY SMTT(30), <3>2, <3>3 DEF Numbered, Uids, At
    <3> QED  BY SMTT(30), <1>10, <3>1, <3>3, <3>4
  <2>6. ASSUME NEW keep \in BOOLEAN, Revalidate(b, keep)
        PROVE  /\ server'[b] \in [validity : 1 .. MaxValidity, at : Seq(Messages \cup {Gone})]
               /\ server'[b].validity > server[b].validity
    <3>1. /\ server'[b].validity = server[b].validity + 1 /\ server[b].validity < MaxValidity
          /\ server'[b].at \in Seq(Messages \cup {Gone})
          /\ server'[b] = [validity |-> server'[b].validity, at |-> server'[b].at]
      BY <2>3, <2>6
    <3>2. server'[b].validity \in 1 .. MaxValidity /\ server'[b].validity > server[b].validity
      BY SMTT(30), <1>10, <3>1, MailboxSyncAssumption
    <3> QED  BY <3>1, <3>2
  <2> QED  BY <2>1, <2>2, <2>3, <2>4, <2>5, <2>6
<1>4. \A c \in Mailboxes : c # b => server'[c] = server[c]  BY <1>3 DEF IInv, TypeInv
<1>5. ServerType'  BY <1>2, <1>3 DEF ServerType, IInv, TypeInv
<1>6. \A c : AllDocs(c)' = AllDocs(c) /\ Archived(c)' = Archived(c) /\ Keeps(c)
  BY <1>1 DEF account, archive, history, AllDocs, Archived, Keeps
<1>7. \A c \in Mailboxes : Still(c) /\ server[c].validity <= server'[c].validity
  <2> SUFFICES ASSUME NEW c \in Mailboxes PROVE Still(c) /\ server[c].validity <= server'[c].validity  OBVIOUS
  <2>1. server[c].validity \in Nat /\ Len(server[c].at) \in Nat  BY UidFacts DEF IInv
  <2>2. c # b => Numbered(c)  BY SMTT(30), <1>4, <2>1 DEF Numbered, Uids, At
  <2>3. server'[b].validity \in Nat  BY SMTT(30), <1>3
  <2> QED  BY SMTT(30), <1>3, <1>4, <1>6, <2>1, <2>2, <2>3 DEF Still, Numbered
<1>8. ArchiveType'  BY <1>1 DEF IInv, TypeInv, ArchiveType, archive, history, Entries
<1>9. DocsInv'  BY <1>1, <1>6 DEF IInv, DocsInv, archive
<1> QED  BY <1>1, <1>5, <1>6, <1>7, <1>8, <1>9, Outside DEF session, Noted

(* A commit moves documents from the queue to the index.                    *)
LEMMA IndexedFacts ==
    ASSUME TypeInv, NEW n \in 0 .. Len(queue)
    PROVE  /\ Indexed(n) \in [Mailboxes -> SUBSET Docs] /\ After(n) \in Entries
           /\ \A b \in Mailboxes : /\ Indexed(n)[b] = index[b] \cup Of(b, First(n))
                                   /\ Indexed(n)[b] \cup Of(b, After(n)) = AllDocs(b)
<1>1. \A b \in Mailboxes : index[b] \subseteq Docs  BY DEF TypeInv
<1> QED  BY <1>1, SplitFacts DEF Indexed, Entries, AllDocs

(* The index writer committing part of the queue keeps the invariant.       *)
LEMMA CommitKeeps ==
    ASSUME IInv, NEW n \in 1 .. Len(queue), Commit(n)
    PROVE  IInv'
<1>0. n \in 0 .. Len(queue)  BY SMTT(30)
<1>1. UNCHANGED <<account, server, rows, dedup, state, session, history>>
  BY DEF Commit
<1>2. index' = Indexed(n) /\ queue' = After(n)  BY DEF Commit
<1>3. \A b \in Mailboxes : AllDocs(b)' = AllDocs(b) /\ index[b] \subseteq index'[b]
  BY <1>0, <1>2, IndexedFacts DEF AllDocs, IInv
<1>4. \A b \in Mailboxes : Archived(b)' = Archived(b)  BY <1>3 DEF Archived
<1>5. \A b \in Mailboxes : server[b].validity \in Nat /\ Len(server[b].at) \in Nat  BY UidFacts DEF IInv
<1>6. \A b \in Mailboxes : Still(b) /\ server[b].validity <= server'[b].validity
  BY SMTT(30), <1>1, <1>3, <1>4, <1>5 DEF Still, Keeps, Numbered, Uids, At, account, history
<1>7. ArchiveType'
  <2>1. index' \in [Mailboxes -> SUBSET Docs] /\ queue' \in Entries  BY <1>0, <1>2, IndexedFacts DEF IInv
  <2> QED  BY <1>1, <2>1 DEF IInv, TypeInv, ArchiveType, history
<1>8. ServerType'  BY <1>1 DEF IInv, TypeInv, ServerType
<1>9. DocsInv'  BY <1>1, <1>3, <1>4 DEF IInv, DocsInv
<1> QED  BY <1>1, <1>3, <1>6, <1>7, <1>8, <1>9, Outside DEF session, Noted

(* The user and the calendar, sessions that begin and end, and loops.       *)
LEMMA QuietKeeps ==
    ASSUME IInv,
           \/ \E q \in setup.requests : UpdateAccount(q)
           \/ DayPasses \/ FinalizeStale \/ Cancel
    PROVE  IInv'
<1>1. Stay /\ UNCHANGED <<rows, step, listed, local, todo, updates, job>>
  BY DEF UpdateAccount, DayPasses, FinalizeStale, Cancel, Stay, Rested, account, archive, history, session
<1>2. Noted
  BY DEF UpdateAccount, DayPasses, FinalizeStale, Cancel, Noted, Verdicts
<1>3. \A b \in Mailboxes : server[b].validity <= server'[b].validity
  <2>1. \A b \in Mailboxes : server[b].validity \in Nat  BY UidFacts DEF IInv
  <2> QED  BY SMTT(30), <1>1, <2>1 DEF Stay
<1> QED  BY <1>1, <1>2, <1>3, StayStill, Outside

(* So does the end of a run, with an error, cancelled or in order.          *)
LEMMA EndKeeps ==
    ASSUME IInv, ListFails \/ Abandon \/ Finish
    PROVE  IInv'
<1>1. Stay /\ rows' = rows /\ Rest
  BY DEF ListFails, Abandon, Finish, Stay, Rested, account, archive, history
<1>2. Noted
  BY DEF ListFails, Abandon, Finish, Noted, Verdicts
<1> QED  BY <1>1, <1>2, StayStill, RestKeeps DEF Stay

(* So do starting a run and passing from one of its loops to the next.      *)
LEMMA LoopsKeep ==
    ASSUME IInv, (\E gap \in BOOLEAN : Start(gap)) \/ StopLoop \/ BeginGap \/ finish_run
    PROVE  IInv'
<1>1. Stay /\ UNCHANGED <<rows, listed, local, updates, job>>
  BY DEF Start, StopLoop, BeginGap, finish_run, Stay, Rested, Session, account, archive, history
<1>2. \A b \in Mailboxes : AllDocs(b)' = AllDocs(b)  BY <1>1, StayStill
<1>3. (Noted \/ state' = NewSession) /\ (step' \in Loops => step \in Loops) /\ todo' \subseteq Mailboxes /\ Shape'
  <2>1. CASE \E gap \in BOOLEAN : Start(gap)
    <3>1. /\ step = "idle" /\ state' = NewSession /\ todo' = todo
          /\ step' = IF state.known THEN "list" ELSE "list_full"
      BY <2>1 DEF Start
    <3>2. job = NoJob /\ DOMAIN local = {} /\ DOMAIN updates = {}
      BY <3>1 DEF IInv, Shape, Loops
    <3>3. state'.known = TRUE  BY <3>1 DEF NewSession
    <3> QED  BY <1>1, <3>1, <3>2, <3>3 DEF IInv, Shape, Loops, TypeInv
  <2>2. CASE StopLoop
    <3>1. todo' = {} /\ step' = step /\ job = NoJob /\ Noted
      BY <2>2 DEF StopLoop, AtLoopHead, Session, Noted, Verdicts
    <3>2. state'.known = state.known  BY <3>1, StateKept DEF IInv
    <3> QED  BY <1>1, <3>1, <3>2 DEF IInv, Shape
  <2>3. CASE BeginGap
    <3>1. step = "missing" /\ step' = "gap" /\ state' = state /\ todo' = DOMAIN local /\ job = NoJob
      BY <2>3 DEF BeginGap, LoopDone, AtLoopHead
    <3> QED  BY <1>1, <3>1 DEF IInv, Shape, Noted, Loops, TypeInv, Table
  <2>4. CASE finish_run
    <3>1. step = "gap" /\ step' = "end" /\ state' = state /\ todo' = todo /\ job = NoJob
      BY <2>4 DEF finish_run, LoopDone, AtLoopHead
    <3> QED  BY <1>1, <3>1 DEF IInv, Shape, Noted, Loops, TypeInv
  <2> QED  BY <2>1, <2>2, <2>3, <2>4
<1> QED  BY <1>1, <1>3, StayStill, MovesOn DEF Stay

(* A restart: what it drops is lost, what it keeps is committed.            *)
LEMMA RestartKeeps ==
    ASSUME IInv, NEW n \in 0 .. Len(queue), Restart(n)
    PROVE  IInv'
<1>1. /\ index' = Indexed(n) /\ queue' = <<>> /\ Rest /\ UNCHANGED <<account, server, rows, passed>>
      /\ lost' = [b \in Mailboxes |-> lost[b] \cup Msgs(Of(b, After(n)))]
      /\ state' = Close(state, "cancelled")
  BY DEF Restart
<1>2. PICK recent \in SUBSET Messages : dedup' = [b \in Mailboxes |-> Msgs(index'[b]) \cap recent]
  BY DEF Restart
<1>3. \A b : Of(b, <<>>) = {}  BY SMTT(30) DEF Of, Range
<1>4. \A b \in Mailboxes : AllDocs(b)' = index'[b] /\ index[b] \subseteq index'[b]
                           /\ AllDocs(b) = index'[b] \cup Of(b, After(n))
  BY <1>1, <1>3, IndexedFacts DEF AllDocs, IInv
<1>5. \A b \in Mailboxes : /\ Archived(b)' = Msgs(index'[b])
                           /\ Archived(b) = Msgs(index'[b]) \cup Msgs(Of(b, After(n)))
  BY <1>4 DEF Archived, Msgs
<1>6. \A b \in Mailboxes : Archived(b) \subseteq Messages  BY DocFacts DEF Archived, Msgs, IInv
<1>7. \A b \in Mailboxes : Still(b)
  <2>1. \A b \in Mailboxes : Len(server[b].at) \in Nat  BY UidFacts DEF IInv
  <2>2. \A b \in Mailboxes : Numbered(b)  BY SMTT(30), <1>1, <2>1 DEF Numbered, Uids, At
  <2>3. \A b \in Mailboxes : Keeps(b)  BY SMTT(30), <1>1, <1>4, <1>5 DEF Keeps, account
  <2> QED  BY <1>4, <2>2, <2>3 DEF Still
<1>8. ArchiveType'
  <2>1. index' \in [Mailboxes -> SUBSET Docs]  BY <1>1, IndexedFacts DEF IInv
  <2>2. queue' \in Entries  BY SMTT(30), <1>1 DEF Entries
  <2>3. lost' \in [Mailboxes -> SUBSET Messages]  BY <1>1, <1>5, <1>6 DEF IInv, TypeInv
  <2>4. dedup' \in [Mailboxes -> SUBSET Messages] /\ passed' = passed  BY <1>1, <1>2
  <2> QED  BY <2>1, <2>2, <2>3, <2>4 DEF ArchiveType, IInv, TypeInv
<1>9. DocsInv'  BY <1>1, <1>2, <1>4, <1>5 DEF IInv, DocsInv
<1>10. Noted  BY <1>1 DEF Noted, Verdicts
<1> QED  BY <1>1, <1>7, <1>8, <1>9, <1>10, RestKeeps

(* What delete_mailbox_envelopes leaves.                                    *)
LEMMA DeleteFacts ==
    ASSUME TypeInv, NEW b \in Mailboxes, DeleteEnvelopes(b)
    PROVE  /\ queue' \in Entries /\ index' \in [Mailboxes -> SUBSET Docs]
           /\ dedup' \in [Mailboxes -> SUBSET Messages]
           /\ \A c \in Mailboxes : c # b => /\ AllDocs(c)' = AllDocs(c) /\ index[c] \subseteq index'[c]
                                            /\ dedup'[c] = dedup[c]
           /\ AllDocs(b)' \subseteq Of(b, queue) /\ index'[b] = {} /\ dedup'[b] = {}
<1>1. PICK n \in 0 .. Len(queue) : index' = [Indexed(n) EXCEPT ![b] = {}] /\ queue' = After(n)
  BY DEF DeleteEnvelopes
<1>2. /\ Indexed(n) \in [Mailboxes -> SUBSET Docs] /\ After(n) \in Entries
      /\ \A c \in Mailboxes : /\ Indexed(n)[c] = index[c] \cup Of(c, First(n))
                              /\ Indexed(n)[c] \cup Of(c, After(n)) = AllDocs(c)
  BY IndexedFacts
<1>3. Of(b, After(n)) \subseteq Of(b, queue)  BY SplitFacts
<1>4. index' \in [Mailboxes -> SUBSET Docs] /\ index'[b] = {} /\ \A c \in Mailboxes : c # b => index'[c] = Indexed(n)[c]
  BY <1>1, <1>2
<1>5. /\ dedup' \in [Mailboxes -> SUBSET Messages] /\ dedup'[b] = {}
      /\ \A c \in Mailboxes : c # b => dedup'[c] = dedup[c]
  BY DEF DeleteEnvelopes, TypeInv
<1> QED  BY <1>1, <1>2, <1>3, <1>4, <1>5 DEF AllDocs

(* It takes nothing from a mailbox that holds nothing.                      *)
LEMMA DeleteNothing ==
    ASSUME IInv, NEW b \in Mailboxes, DeleteEnvelopes(b), AllDocs(b) = {},
           UNCHANGED <<setup, server, lost>>, \A c \in Mailboxes : passed[c] \subseteq passed'[c]
    PROVE  /\ \A c \in Mailboxes : Still(c) /\ AllDocs(c)' = AllDocs(c)
           /\ \A c \in Mailboxes : dedup'[c] \subseteq Archived(c)'
<1>1. \A c \in Mailboxes : AllDocs(c)' = AllDocs(c) /\ index[c] \subseteq index'[c]
  BY DeleteFacts DEF AllDocs, IInv
<1>2. \A c \in Mailboxes : Archived(c)' = Archived(c)  BY <1>1 DEF Archived
<1>3. \A c \in Mailboxes : Len(server[c].at) \in Nat  BY UidFacts DEF IInv
<1>4. \A c \in Mailboxes : Still(c)
  BY SMTT(30), <1>1, <1>2, <1>3 DEF Still, Keeps, Numbered, Uids, At
<1>5. \A c \in Mailboxes : dedup'[c] \subseteq dedup[c]  BY DeleteFacts DEF IInv
<1> QED  BY <1>1, <1>2, <1>4, <1>5 DEF IInv, DocsInv

(* Deleting a mailbox drops its row with its documents.                     *)
LEMMA DeleteMailboxKeeps ==
    ASSUME IInv, NEW b \in Mailboxes, DeleteMailbox(b)
    PROVE  IInv'
<1>1. /\ step = "idle" /\ Of(b, queue) = {} /\ DeleteEnvelopes(b)
      /\ rows' = [c \in DOMAIN rows \ {b} |-> rows[c]]
      /\ UNCHANGED <<account, server, state, session, history>>
  BY DEF DeleteMailbox
<1>2. job = NoJob /\ DOMAIN local = {} /\ DOMAIN updates = {}  BY <1>1 DEF IInv, Shape, Loops
<1>3. DOMAIN rows' = DOMAIN rows \ {b} /\ \A c \in DOMAIN rows' : rows'[c] = rows[c]  BY <1>1
<1>4. \A c \in Mailboxes : c # b => Archived(c)' = Archived(c)  BY <1>1, DeleteFacts DEF Archived, IInv
<1>5. \A c \in Mailboxes : c # b => Still(c)
  <2>1. \A c \in Mailboxes : Len(server[c].at) \in Nat  BY UidFacts DEF IInv
  <2>2. \A c \in Mailboxes : c # b => AllDocs(c)' = AllDocs(c) /\ index[c] \subseteq index'[c]
    BY <1>1, DeleteFacts DEF IInv
  <2> QED  BY SMTT(30), <1>1, <1>4, <2>1, <2>2 DEF Still, Keeps, Numbered, Uids, At, account, history
<1>6. TypeInv'
  <2>1. queue' \in Entries /\ index' \in [Mailboxes -> SUBSET Docs] /\ dedup' \in [Mailboxes -> SUBSET Messages]
    BY <1>1, DeleteFacts DEF IInv
  <2>2. Table(rows)'  BY <1>3 DEF IInv, TypeInv, Table
  <2> QED  BY <1>1, <2>1, <2>2 DEF IInv, TypeInv, Table, session, history, Entries
<1>7. Shape'  BY <1>1, <1>2, <1>3 DEF IInv, Shape, Loops, session
<1>8. Epochs'  BY <1>1, <1>2, <1>3 DEF IInv, Epochs, Aged, Loops, session
<1>9. DocsInv'
  <2>1. AllDocs(b)' = {} /\ dedup'[b] = {}  BY <1>1, DeleteFacts DEF IInv
  <2>2. \A c \in Mailboxes : c # b => AllDocs(c)' = AllDocs(c) /\ dedup'[c] = dedup[c]
    BY <1>1, DeleteFacts DEF IInv
  <2> QED  BY <1>3, <1>4, <2>1, <2>2 DEF IInv, DocsInv
<1>10. \A c \in DOMAIN rows' : Still(c)  BY <1>3, <1>5 DEF IInv, TypeInv, Table
<1> QED  BY <1>1, <1>2, <1>3, <1>6, <1>7, <1>8, <1>9, <1>10, Framed DEF session

(* A folder that cannot be searched is left.                                *)
LEMMA VisitFailsKeeps ==
    ASSUME IInv, NEW b \in Mailboxes, VisitFails(b)
    PROVE  IInv'
<1>1. /\ b \in todo /\ todo' = todo \ {b} /\ job = NoJob
      /\ UNCHANGED <<account, server, rows, Session, updates, job, history>>
  BY DEF VisitFails, Visit, Visited, AtLoopHead
<1>2. Noted
  <2>1. {"failed"} \subseteq FolderStatus  BY DEF FolderStatus
  <2> QED  BY <2>1 DEF VisitFails, Noted
<1>3. state'.known = state.known  BY <1>2, StateKept DEF IInv
<1>4. /\ ArchiveType' /\ DocsInv' /\ \A c \in Mailboxes : Still(c) /\ AllDocs(c)' = AllDocs(c)
  <2>1. CASE step # "missing"
    <3>1. Stay  BY <1>1, <2>1 DEF VisitFails, Stay, account, history
    <3> QED  BY <1>1, <3>1, StayStill
  <2>2. CASE step = "missing"
    <3>1. DeleteEnvelopes(b) /\ AllDocs(b) = {}  BY <1>1, <2>2 DEF VisitFails, IInv, Shape
    <3>2. /\ \A c \in Mailboxes : Still(c) /\ AllDocs(c)' = AllDocs(c)
          /\ \A c \in Mailboxes : dedup'[c] \subseteq Archived(c)'
      BY <1>1, <3>1, DeleteNothing DEF account, history
    <3>3. DocsInv'  BY <1>1, <3>2 DEF IInv, DocsInv
    <3> QED  BY <1>1, <3>1, <3>2, <3>3, DeleteFacts DEF IInv, TypeInv, ArchiveType, history
  <2> QED  BY <2>1, <2>2
<1>5. Shape'
  <2>1. UNCHANGED <<rows, step, listed, local, updates, job>>  BY <1>1 DEF Session
  <2>2. todo' \subseteq todo /\ \A c \in Mailboxes : AllDocs(c)' = AllDocs(c)  BY <1>1, <1>4
  <2>3. \A c : Fresh(c)' <=> Fresh(c)  BY <2>1 DEF Fresh
  <2>4. todo \subseteq Mailboxes  BY DEF IInv, TypeInv
  <2> QED  BY <1>1, <1>3, <2>1, <2>2, <2>3, <2>4 DEF IInv, Shape
<1>6. todo' \subseteq Mailboxes /\ UNCHANGED <<server, rows, listed, local, updates, job, step>>
  BY <1>1 DEF IInv, TypeInv, Session
<1> QED  BY <1>2, <1>4, <1>5, <1>6, MovesOn

-----------------------------------------------------------------------------
(* The tables of rows.                                                      *)
LEMMA RowFacts ==
    ASSUME NEW v \in Nat, NEW h \in Nat, NEW x \in BOOLEAN
    PROVE  Row(v, h, x) \in RowSet /\ Row(v, h, x).validity = v /\ Row(v, h, x).highest = h /\ Row(v, h, x).holes = x
  BY DEF Row, RowSet

(* A new row of a mailbox that holds nothing promises nothing.              *)
LEMMA FreshOK ==
    ASSUME TypeInv, NEW b \in Mailboxes, AllDocs(b) = {}, NEW v \in Nat
    PROVE  RowOK(b, Row(v, 0, FALSE))
<1>1. UpTo(b, 0)  BY SMTT(30), UidFacts DEF UpTo
<1>2. Row(v, 0, FALSE).highest = 0  BY DEF Row
<1> QED  BY <1>1, <1>2 DEF RowOK

(* The listing.                                                             *)
LEMMA ListKeeps ==
    ASSUME IInv, List
    PROVE  IInv'
<1>1. /\ Stay /\ state' = state /\ updates' = updates /\ job' = job
      /\ step \in {"list", "list_full"}
  BY DEF List, Rested, Stay, account, archive, history
<1>0. ServerType'  BY <1>1 DEF IInv, TypeInv, ServerType, Stay
<1>2. job = NoJob /\ DOMAIN local = {} /\ DOMAIN updates = {}  BY <1>1 DEF IInv, Shape, Loops
<1>3. /\ listed' \in [Mailboxes -> [validity : Nat, exists : Nat]]
      /\ \A b \in Mailboxes : listed'[b].validity <= server[b].validity
  <2>1. PICK told \in SUBSET Mailboxes : listed' = [b \in Mailboxes |-> Status(b, b \in told)]
    BY DEF List
  <2>2. ASSUME NEW b \in Mailboxes
        PROVE  Status(b, b \in told) \in [validity : Nat, exists : Nat] /\ Status(b, b \in told).validity <= server[b].validity
    <3>1. server[b].validity \in Nat  BY UidFacts DEF IInv
    <3>2. Cardinality(Uids(b)) \in Nat  BY UidFacts, AscendingFacts DEF IInv
    <3> QED  BY SMTT(30), <3>1, <3>2 DEF Status
  <2> QED  BY <2>1, <2>2
<1>4. \A b \in Mailboxes : AllDocs(b)' = AllDocs(b) /\ Archived(b)' = Archived(b)
  BY <1>1 DEF Stay, archive, AllDocs, Archived
<1>5. CASE step = "list_full"
  <2>1. DOMAIN rows = {}  BY <1>5 DEF IInv, Shape
  <2>2. rows' = Over(Insert(Mailboxes, listed'), rows) /\ step' = "full" /\ todo' = Mailboxes /\ local' = local
    BY <1>5 DEF List
  <2>3. DOMAIN rows' = Mailboxes /\ \A b \in Mailboxes : rows'[b] = Row(listed'[b].validity, 0, FALSE)
    <3> DEFINE new == Insert(Mailboxes, listed')
    <3>1. DOMAIN new = Mailboxes /\ \A b \in Mailboxes : new[b] = Row(listed'[b].validity, 0, FALSE)  BY DEF Insert
    <3>2. rows' = Over(new, rows)  BY <2>2
    <3> HIDE DEF new
    <3> QED  BY <2>1, <3>1, <3>2 DEF Over
  <2>4. \A b \in Mailboxes : AllDocs(b) = {}  BY <2>1 DEF IInv, DocsInv
  <2>5. \A b \in Mailboxes : listed'[b].validity \in Nat  BY <1>3
  <2>6. TypeInv'
    <3>1. ASSUME NEW b \in Mailboxes PROVE rows'[b] \in RowSet
      <4>1. PICK v \in Nat : v = listed'[b].validity  BY <2>5
      <4>2. Row(v, 0, FALSE) \in RowSet  BY DEF Row, RowSet
      <4> QED  BY <2>3, <4>1, <4>2
    <3>2. Table(rows)'  BY <2>3, <3>1 DEF Table
    <3> QED  BY <1>1, <1>3, <2>2, <3>2 DEF IInv, TypeInv, Stay, archive, Table
  <2>7. Shape'  BY <1>1, <1>2, <2>2, <2>3 DEF IInv, Shape, Loops
  <2>8. Epochs'
    <3>1. \A b \in Mailboxes : rows'[b].validity = listed'[b].validity  BY SMTT(30), <2>3 DEF Row
    <3>2. Aged(rows)'  BY <1>1, <1>3, <2>3, <3>1 DEF Aged, Older, Stay
    <3> QED  BY <1>1, <1>2, <1>3, <2>2, <3>2 DEF Epochs, Aged, Stay
  <2>9. DocsInv'  BY <1>1, <1>4, <2>3 DEF IInv, DocsInv, Stay, archive
  <2>10. RowsInv'
    <3> SUFFICES ASSUME NEW b \in Mailboxes PROVE RowOK(b, rows[b])'  BY <2>3 DEF RowsInv
    <3>1. PICK r : r = Row(listed'[b].validity, 0, FALSE)  OBVIOUS
    <3>2. r \in RowSet /\ r.validity = listed'[b].validity  BY <2>5, <3>1 DEF Row, RowSet
    <3>3. RowOK(b, r)  BY <2>4, <2>5, <3>1, FreshOK DEF IInv
    <3>4. Still(b)  BY SMTT(30), <1>1, <1>4, UidFacts DEF Still, Keeps, Numbered, Stay, archive, Uids, At, IInv
    <3>5. Older(r.validity, server[b].validity)  BY <1>3, <3>2 DEF Older
    <3>6. RowOK(b, r)'  BY <1>0, <3>2, <3>3, <3>4, <3>5, RowKept DEF IInv
    <3> QED  BY <2>3, <3>1, <3>6
  <2>11. UpdatesInv' /\ LocalInv' /\ JobInv'  BY <1>1, <1>2, <2>2 DEF UpdatesInv, LocalInv, JobInv
  <2> QED  BY <2>6, <2>7, <2>8, <2>9, <2>10, <2>11 DEF IInv
<1>6. CASE step = "list"
  <2>1. local' = rows /\ rows' = rows /\ step' = "trace" /\ todo' = DOMAIN rows  BY <1>6 DEF List
  <2>2. TypeInv'  BY <1>1, <1>3, <2>1 DEF IInv, TypeInv, Stay, archive, Table
  <2>3. Shape'  BY <1>1, <1>2, <2>1 DEF IInv, Shape, Loops
  <2>4. Epochs'  BY <1>1, <1>2, <1>3, <2>1 DEF IInv, Epochs, Aged, Stay
  <2>5. ArchiveType' /\ ServerType' /\ DocsInv' /\ \A b \in Mailboxes : Still(b)  BY <1>1, <2>1, StayStill
  <2>6. \A b \in DOMAIN rows : RowOK(b, rows[b])'
    <3> SUFFICES ASSUME NEW b \in DOMAIN rows PROVE RowOK(b, rows[b])'  OBVIOUS
    <3>1. b \in Mailboxes /\ rows[b] \in RowSet /\ Older(rows[b].validity, server[b].validity) /\ RowOK(b, rows[b])
      BY DEF IInv, TypeInv, Table, Epochs, Aged, RowsInv
    <3> QED  BY <1>0, <2>1, <2>5, <3>1, RowKept DEF IInv
  <2>7. RowsInv' /\ LocalInv'  BY <2>1, <2>6 DEF RowsInv, LocalInv, RowOK
  <2>8. UpdatesInv' /\ JobInv'  BY <1>1, <1>2 DEF UpdatesInv, JobInv
  <2> QED  BY <2>2, <2>3, <2>4, <2>5, <2>7, <2>8 DEF IInv
<1> QED  BY <1>1, <1>5, <1>6

(* The reconciled rows are written, and rows for the other folders.         *)
LEMMA EndTraceKeeps ==
    ASSUME IInv, EndTrace
    PROVE  IInv'
<1> DEFINE missing == Mailboxes \ DOMAIN local
<1>1. /\ Stay /\ UNCHANGED <<state, listed, local, job>> /\ step = "trace" /\ job = NoJob
      /\ step' = "missing" /\ updates' = NoRows /\ todo' = {b \in missing : listed[b].exists > 0}
      /\ rows' = Over(Insert(missing, listed), Over(updates, rows))
  BY DEF EndTrace, Rested, Stay, account, archive, history, LoopDone, AtLoopHead
<1>0. ServerType'  BY <1>1 DEF IInv, TypeInv, ServerType, Stay
<1>2. /\ rows = local /\ DOMAIN updates \subseteq DOMAIN local /\ DOMAIN local \subseteq Mailboxes
      /\ listed \in [Mailboxes -> [validity : Nat, exists : Nat]]
      /\ \A b \in Mailboxes : listed[b].validity <= server[b].validity
  BY <1>1 DEF IInv, Shape, TypeInv, Table, Loops, Epochs
<1>3. /\ DOMAIN rows' = Mailboxes
      /\ \A b \in missing : rows'[b] = Row(listed[b].validity, 0, FALSE)
      /\ \A b \in DOMAIN updates : rows'[b] = updates[b]
      /\ \A b \in DOMAIN rows \ DOMAIN updates : rows'[b] = rows[b]
  <2>1. DOMAIN Insert(missing, listed) = missing /\ \A b \in missing : Insert(missing, listed)[b] = Row(listed[b].validity, 0, FALSE)
    BY DEF Insert
  <2>2. /\ DOMAIN Over(updates, rows) = DOMAIN updates \cup DOMAIN rows
        /\ \A b \in DOMAIN updates : Over(updates, rows)[b] = updates[b]
        /\ \A b \in DOMAIN rows \ DOMAIN updates : Over(updates, rows)[b] = rows[b]
    BY DEF Over
  <2>3. /\ DOMAIN rows' = missing \cup DOMAIN Over(updates, rows)
        /\ \A b \in missing : rows'[b] = Insert(missing, listed)[b]
        /\ \A b \in DOMAIN Over(updates, rows) \ missing : rows'[b] = Over(updates, rows)[b]
    <3> DEFINE new == Insert(missing, listed)
               old == Over(updates, rows)
    <3>1. DOMAIN new = missing /\ rows' = Over(new, old)  BY <1>1, <2>1
    <3> HIDE DEF new, old, missing
    <3>2. DOMAIN rows' = missing \cup DOMAIN old /\ (\A b \in missing : rows'[b] = new[b])
          /\ \A b \in DOMAIN old \ missing : rows'[b] = old[b]
      BY <3>1 DEF Over
    <3> QED  BY <3>2 DEF new, old
  <2> QED  BY <1>2, <2>1, <2>2, <2>3
<1>4. \A b \in missing : AllDocs(b) = {}  BY <1>2 DEF IInv, DocsInv
<1>5. \A b : AllDocs(b)' = AllDocs(b) /\ Archived(b)' = Archived(b)  BY <1>1 DEF Stay, archive, AllDocs, Archived
<1>6. \A b \in Mailboxes : Still(b)
  <2>1. \A b \in Mailboxes : Len(server[b].at) \in Nat  BY UidFacts DEF IInv
  <2> QED  BY SMTT(30), <1>1, <1>5, <2>1 DEF Still, Keeps, Numbered, Stay, archive, Uids, At
<1>7. \A b \in Mailboxes : rows'[b] \in RowSet /\ Older(rows'[b].validity, server[b].validity) /\ RowOK(b, rows'[b])
  <2> SUFFICES ASSUME NEW b \in Mailboxes
               PROVE  rows'[b] \in RowSet /\ Older(rows'[b].validity, server[b].validity) /\ RowOK(b, rows'[b])
    OBVIOUS
  <2>1. CASE b \in missing
    <3>1. listed[b].validity \in Nat /\ listed[b].validity <= server[b].validity  BY <1>2
    <3>2. PICK r : r = Row(listed[b].validity, 0, FALSE)  OBVIOUS
    <3>3. r \in RowSet /\ r.validity = listed[b].validity  BY <3>1, <3>2 DEF Row, RowSet
    <3>4. RowOK(b, r)  BY <1>4, <2>1, <3>1, <3>2, FreshOK DEF IInv
    <3> QED  BY <1>3, <2>1, <3>1, <3>2, <3>3, <3>4 DEF Older
  <2>2. CASE b \in DOMAIN updates
    BY <1>3, <2>2 DEF IInv, TypeInv, Table, Epochs, Aged, UpdatesInv
  <2>3. CASE b \in DOMAIN rows \ DOMAIN updates
    BY <1>3, <2>3 DEF IInv, TypeInv, Table, Epochs, Aged, RowsInv
  <2> QED  BY <1>2, <2>1, <2>2, <2>3
<1>8. TypeInv'
  <2>1. Table(rows)'  BY <1>3, <1>7 DEF Table
  <2>2. Table(updates)' /\ DOMAIN updates' = {}  BY <1>1 DEF Table, NoRows
  <2> QED  BY <1>1, <1>2, <2>1, <2>2 DEF IInv, TypeInv, Stay, archive, Table
<1>9. Shape'
  <2>1. DOMAIN updates' = {}  BY <1>1 DEF NoRows
  <2>2. \A b \in todo' : AllDocs(b)' = {} /\ Fresh(b)'  BY <1>1, <1>3, <1>4, <1>5 DEF Fresh
  <2>3. state.known  BY <1>1 DEF IInv, Shape
  <2> QED  BY <1>1, <1>2, <1>3, <2>1, <2>2, <2>3 DEF IInv, Shape, Loops
<1>10. Epochs'
  <2>1. Aged(rows)'  BY <1>1, <1>3, <1>7 DEF Aged, Stay
  <2> QED  BY <1>1, <1>2, <2>1 DEF IInv, Epochs, Aged, NoRows, Stay
<1>11. DocsInv'  BY <1>1, <1>3, <1>5 DEF IInv, DocsInv, Stay, archive
<1>12. RowsInv'
  <2> SUFFICES ASSUME NEW b \in Mailboxes PROVE RowOK(b, rows[b])'  BY <1>3 DEF RowsInv
  <2> QED  BY <1>0, <1>6, <1>7, RowKept DEF IInv
<1>13. LocalInv'
  <2> SUFFICES ASSUME NEW b \in DOMAIN local PROVE (Current(b, local[b]) => UpTo(b, local[b].highest))'
    BY <1>1 DEF LocalInv
  <2>1. /\ b \in Mailboxes /\ local[b] \in RowSet /\ Older(local[b].validity, server[b].validity)
        /\ Current(b, local[b]) => UpTo(b, local[b].highest)
    BY DEF IInv, TypeInv, Table, Epochs, Aged, LocalInv
  <2> QED  BY <1>0, <1>1, <1>6, <2>1, RowKept DEF IInv
<1>14. UpdatesInv' /\ JobInv'  BY <1>1 DEF UpdatesInv, JobInv, NoRows
<1> QED  BY <1>8, <1>9, <1>10, <1>11, <1>12, <1>13, <1>14 DEF IInv
=============================================================================
