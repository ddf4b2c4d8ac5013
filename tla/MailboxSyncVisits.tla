------------------------- MODULE MailboxSyncVisits --------------------------
(***************************************************************************)
(* A folder's visit keeps the invariant of the download sessions, and no    *)
(* step makes a second copy of a message.                                   *)
(***************************************************************************)
EXTENDS MailboxSyncFacts

(* A leaf that names no prover is Zenon's.                                  *)
USE ZenonT(20)

-----------------------------------------------------------------------------
(* A folder is visited and a download planned.                              *)
LEMMA JobMade ==
    ASSUME IInv, NEW b \in Mailboxes, NEW kind \in Kinds, NEW uids \in SUBSET Uids(b), NEW top \in Nat,
           NEW validity \in Nat, NEW complete \in BOOLEAN,
           job' = Job(b, kind, uids, top, validity, complete), server' = server,
           top <= Len(server[b].at), \A u \in uids : u <= top,
           Sound' => \A u \in Uids(b) : u <= top => Good(b, At(b, u))' \/ u \in uids
    PROVE  /\ job' \in JobSet /\ JobInv' /\ Box' = b /\ job'.kind = kind /\ job'.validity = validity
           /\ job'.epoch = server[b].validity /\ job'.complete = complete
<1>1. /\ Ascending(uids) \in Seq(Nat \ {0}) /\ Range(Ascending(uids)) = uids
      /\ \A i, j \in DOMAIN Ascending(uids) : i < j => Ascending(uids)[i] < Ascending(uids)[j]
  <2>1. uids \in SUBSET (1 .. Len(server[b].at)) /\ Len(server[b].at) \in Nat  BY UidFacts DEF IInv
  <2> QED  BY <2>1, AscendingFacts
<1>2. server[b].validity \in Nat  BY UidFacts DEF IInv
<1>3. /\ job' \in JobSet /\ Box' = b /\ job'.kind = kind /\ job'.validity = validity
      /\ job'.epoch = server[b].validity /\ job'.complete = complete /\ job'.top = top
      /\ job'.uids = Ascending(uids)
  BY <1>1, <1>2 DEF Job, JobSet, Box
<1>4. \A i \in DOMAIN Ascending(uids) : Ascending(uids)[i] <= top  BY <1>1 DEF Range
<1>5. \A u \in Uids(b)' : u \in Uids(b) /\ At(b, u)' = At(b, u)  BY DEF Uids, At
<1> QED  BY <1>1, <1>3, <1>4, <1>5 DEF JobInv

(* What the date range keeps out is noted.                                  *)
LEMMA PassFacts ==
    ASSUME IInv, NEW b \in Mailboxes, NEW uids \in SUBSET Uids(b), NEW top \in Nat, Pass(b, uids, top)
    PROVE  /\ passed' \in [Mailboxes -> SUBSET Messages] /\ \A c \in Mailboxes : passed[c] \subseteq passed'[c]
           /\ \A u \in uids \ Within(b, uids) : u <= top => At(b, u) \in passed'[b]
<1> DEFINE late == {v \in uids \ Within(b, uids) : v <= top}
<1>1. \A u \in late : At(b, u) \in Messages  BY UidFacts DEF IInv
<1>2. passed \in [Mailboxes -> SUBSET Messages]  BY DEF IInv, TypeInv
<1>3. passed' = [passed EXCEPT ![b] = @ \cup {At(b, u) : u \in late}]  BY DEF Pass
<1> QED  BY <1>1, <1>2, <1>3

(* The downloads of a whole folder, with and without a date range.          *)
LEMMA RebuildFacts ==
    ASSUME IInv, NEW b \in Mailboxes, NEW validity \in Nat, Rebuild(b, validity), server' = server
    PROVE  /\ job' \in JobSet /\ JobInv' /\ Box' = b /\ job'.kind \in {"full", "dated"}
           /\ job'.validity = validity /\ job'.epoch = server[b].validity
           /\ passed' \in [Mailboxes -> SUBSET Messages] /\ \A c \in Mailboxes : passed[c] \subseteq passed'[c]
<1>1. Uids(b) \in SUBSET (1 .. Len(server[b].at)) /\ Len(server[b].at) \in Nat  BY UidFacts DEF IInv
<1>2. {"full", "dated"} \subseteq Kinds  BY DEF Kinds
<1>3. CASE FullJob(b, validity)
  <2>1. job' = Job(b, "full", Uids(b), Top(Uids(b)), validity, TRUE) /\ passed' = passed  BY <1>3 DEF FullJob
  <2>2. Top(Uids(b)) \in Nat /\ Top(Uids(b)) <= Len(server[b].at) /\ \A u \in Uids(b) : u <= Top(Uids(b))
    BY <1>1, TopFacts
  <2>3. passed' \in [Mailboxes -> SUBSET Messages]  BY <2>1 DEF IInv, TypeInv
  <2> QED  BY <1>2, <2>1, <2>2, <2>3, JobMade
<1>4. CASE DatedJob(b, validity)
  <2> DEFINE uids == Within(b, Uids(b))
  <2>1. uids \in SUBSET Uids(b)  BY DEF Within
  <2>2. job' = Job(b, "dated", uids, Top(uids), validity, TRUE) /\ Pass(b, Uids(b), Top(uids))
    BY <1>4 DEF DatedJob
  <2> HIDE DEF uids
  <2>3. Top(uids) \in Nat /\ Top(uids) <= Len(server[b].at) /\ \A u \in uids : u <= Top(uids)
    BY <1>1, <2>1, TopFacts
  <2>4. /\ passed' \in [Mailboxes -> SUBSET Messages] /\ \A c \in Mailboxes : passed[c] \subseteq passed'[c]
        /\ \A u \in Uids(b) \ uids : u <= Top(uids) => At(b, u) \in passed'[b]
    BY <2>2, <2>3, PassFacts DEF uids
  <2>5. \A u \in Uids(b) : u <= Top(uids) => Good(b, At(b, u))' \/ u \in uids
    <3>1. \A u : At(b, u)' = At(b, u)  BY DEF At
    <3> QED  BY <2>4, <3>1 DEF Good
  <2>6. "dated" \in Kinds /\ TRUE \in BOOLEAN  BY <1>2
  <2>7. /\ job' \in JobSet /\ JobInv' /\ Box' = b /\ job'.kind = "dated"
        /\ job'.validity = validity /\ job'.epoch = server[b].validity
    BY <2>1, <2>2, <2>3, <2>5, <2>6, JobMade
  <2> QED  BY <2>4, <2>7
<1> QED  BY <1>3, <1>4 DEF Rebuild

(* A visit that plans a download keeps the invariant.                       *)
LEMMA VisitKeeps ==
    ASSUME IInv, NEW b \in Mailboxes, b \in todo, AtLoopHead, todo' = todo \ {b},
           UNCHANGED <<server, step, listed, local, updates>>, Noted, ArchiveType',
           \A c \in Mailboxes : Still(c) /\ AllDocs(c)' = AllDocs(c),
           \A c \in Mailboxes : dedup'[c] \subseteq Archived(c)',
           step # "gap" => rows' = rows, DOMAIN rows' = DOMAIN rows,
           \A c \in DOMAIN rows : c # b => rows'[c] = rows[c],
           rows'[b] \in RowSet, rows'[b].validity = rows[b].validity, RowOK(b, rows[b])',
           job' \in JobSet, JobInv', Box' = b,
           job'.epoch = server[b].validity, Older(job'.validity, server[b].validity),
           step \in {"full", "missing"} => job'.kind \in {"full", "dated"},
           step = "trace" => /\ job'.kind \in {"full", "dated", "new", "before", "reconcile"}
                             /\ job'.kind = "reconcile" <=> job'.validity # local[b].validity
                             /\ job'.validity = listed[b].validity \/ listed[b].validity = 0,
           step = "gap" => job'.kind = "gap"
    PROVE  IInv'
<1>1. state' \in States /\ state'.known = state.known  BY StateKept DEF IInv
<1>2. step \in Loops /\ job = NoJob  BY DEF AtLoopHead
<1>3. b \in DOMAIN rows /\ job' # NoJob
  <2>1. b \in DOMAIN rows  BY <1>2 DEF IInv, Shape, Loops
  <2>2. job'.kind \in Kinds  BY DEF JobSet
  <2> QED  BY SMTT(30), <2>1, <2>2 DEF NoJob, Kinds
<1>4. TypeInv'
  <2>1. Table(rows)'
    <3> SUFFICES ASSUME NEW c \in DOMAIN rows PROVE c \in Mailboxes /\ rows'[c] \in RowSet  BY DEF Table
    <3> QED  BY DEF IInv, TypeInv, Table
  <2> QED  BY <1>1, <2>1 DEF IInv, TypeInv, ArchiveType, Entries, Table
<1>5. Shape'
  <2>1. Working'
    <3>1. step = "missing" => Fresh(b)'
      BY DEF IInv, Shape, Fresh
    <3>2. step = "trace" => b \in DOMAIN local \ DOMAIN updates  BY DEF IInv, Shape
    <3>3. step = "gap" => b \in DOMAIN local  BY DEF IInv, Shape
    <3> QED  BY <1>3, <3>1, <3>2, <3>3 DEF Working, Fresh
  <2>2. step = "missing" => \A c \in todo' : AllDocs(c)' = {} /\ Fresh(c)'
    BY DEF IInv, Shape, Fresh, TypeInv
  <2> QED  BY <1>1, <1>2, <2>1, <2>2 DEF IInv, Shape, Loops
<1>6. Epochs'
  <2>1. Aged(rows)'
    <3> SUFFICES ASSUME NEW c \in DOMAIN rows PROVE Older(rows'[c].validity, server[c].validity)
      BY DEF Aged
    <3> QED  BY DEF IInv, Epochs, Aged
  <2>2. Older(rows'[b].validity, server[b].validity)  BY <1>3 DEF IInv, Epochs, Aged
  <2>3. b \in DOMAIN local => Older(local[b].validity, server[b].validity)  BY DEF IInv, Epochs, Aged
  <2>4. listed[b].validity <= server[b].validity  BY <1>2 DEF IInv, Epochs
  <2>5. server[b].validity <= server[b].validity  BY SMTT(30), UidFacts DEF IInv
  <2> QED  BY <1>2, <2>1, <2>2, <2>3, <2>4, <2>5 DEF IInv, Epochs, Aged, Box
<1>7. DocsInv'  BY DEF IInv, DocsInv
<1>8. \A c \in Mailboxes : Numbered(c)
  <2>1. \A c \in Mailboxes : server[c].validity \in Nat /\ Len(server[c].at) \in Nat  BY UidFacts DEF IInv
  <2> QED  BY SMTT(30), <2>1 DEF Numbered, Uids, At
<1>9. b \notin DOMAIN updates'
  BY <1>2 DEF IInv, Shape
<1> QED  BY <1>4, <1>5, <1>6, <1>7, <1>8, <1>9, OneBox DEF Still

(* Planning leaves the archive alone.                                       *)
LEMMA PlanStill ==
    ASSUME IInv, UNCHANGED <<setup, server, archive, lost>>,
           passed' \in [Mailboxes -> SUBSET Messages], \A c \in Mailboxes : passed[c] \subseteq passed'[c]
    PROVE  /\ ArchiveType' /\ \A c \in Mailboxes : Still(c) /\ AllDocs(c)' = AllDocs(c)
           /\ \A c \in Mailboxes : dedup'[c] \subseteq Archived(c)'
<1>1. \A c : AllDocs(c)' = AllDocs(c) /\ Archived(c)' = Archived(c) /\ Uids(c)' = Uids(c)
  BY DEF archive, AllDocs, Archived, Uids
<1>2. \A c \in Mailboxes : Len(server[c].at) \in Nat  BY UidFacts DEF IInv
<1>3. \A c \in Mailboxes : Still(c)  BY SMTT(30), <1>1, <1>2 DEF Still, Keeps, Numbered, archive, At
<1>4. ArchiveType'  BY DEF IInv, TypeInv, ArchiveType, archive, Entries
<1> QED  BY <1>1, <1>3, <1>4 DEF IInv, DocsInv, archive

(* A folder that a loop visits has a row, and its promise holds.            *)
LEMMA PlannedRow ==
    ASSUME IInv, NEW b \in Mailboxes, b \in todo, AtLoopHead, server' = server, Still(b)
    PROVE  /\ b \in DOMAIN rows /\ rows[b] \in RowSet /\ Older(rows[b].validity, server[b].validity)
           /\ \A r : r = rows[b] => RowOK(b, r) /\ RowOK(b, r)'
<1>1. b \in DOMAIN rows  BY DEF IInv, Shape, AtLoopHead, Loops
<1>2. rows[b] \in RowSet /\ Older(rows[b].validity, server[b].validity) /\ RowOK(b, rows[b])
  BY <1>1 DEF IInv, TypeInv, Table, Epochs, Aged, RowsInv
<1>3. ServerType'  BY DEF IInv, TypeInv, ServerType
<1>4. ASSUME NEW r, r = rows[b] PROVE RowOK(b, r) /\ RowOK(b, r)'
  BY <1>2, <1>3, <1>4, RowKept DEF IInv
<1> QED  BY <1>1, <1>2, <1>4

(* Of a full fetch.                                                         *)
LEMMA VisitFullKeeps ==
    ASSUME IInv, NEW b \in Mailboxes, VisitFull(b)
    PROVE  IInv'
<1>1. /\ step = "full" /\ AtLoopHead /\ b \in todo /\ todo' = todo \ {b}
      /\ UNCHANGED <<setup, server, rows, archive, step, listed, local, updates, lost>>
  BY DEF VisitFull, Visit, Visited, account, Session
<1>2. CASE listed[b].exists = 0
  <2>1. Folder(b, "success") /\ job' = job /\ passed' = passed /\ job = NoJob
    BY <1>1, <1>2 DEF VisitFull, AtLoopHead
  <2>2. Noted  BY <2>1 DEF Noted, FolderStatus
  <2>3. state'.known = state.known  BY <2>2, StateKept DEF IInv
  <2>4. Stay  BY <1>1, <2>1 DEF Stay
  <2>5. Shape'  BY <1>1, <2>1, <2>3 DEF IInv, Shape
  <2>6. todo' \subseteq Mailboxes  BY <1>1 DEF IInv, TypeInv
  <2> QED  BY <1>1, <2>1, <2>2, <2>4, <2>5, <2>6, StayStill, MovesOn
<1>3. CASE listed[b].exists # 0
  <2>1. Rebuild(b, listed[b].validity) /\ state' = state  BY <1>3 DEF VisitFull
  <2>2. listed[b].validity \in Nat /\ Older(listed[b].validity, server[b].validity)
    BY <1>1 DEF IInv, TypeInv, Loops, Epochs, Older
  <2>3. /\ job' \in JobSet /\ JobInv' /\ Box' = b /\ job'.kind \in {"full", "dated"}
        /\ job'.validity = listed[b].validity /\ job'.epoch = server[b].validity
        /\ passed' \in [Mailboxes -> SUBSET Messages] /\ \A c \in Mailboxes : passed[c] \subseteq passed'[c]
    BY <1>1, <2>1, <2>2, RebuildFacts
  <2>4. /\ ArchiveType' /\ \A c \in Mailboxes : Still(c) /\ AllDocs(c)' = AllDocs(c)
        /\ \A c \in Mailboxes : dedup'[c] \subseteq Archived(c)'
    BY <1>1, <2>3, PlanStill
  <2>5. rows' = rows /\ rows[b] \in RowSet /\ RowOK(b, rows[b])'
    BY <1>1, <2>4, PlannedRow
  <2> QED  BY <1>1, <2>1, <2>2, <2>3, <2>4, <2>5, VisitKeeps DEF Noted
<1> QED  BY <1>2, <1>3

(* Of a folder without a row: there is nothing to clear.                    *)
LEMMA VisitMissingKeeps ==
    ASSUME IInv, NEW b \in Mailboxes, VisitMissing(b)
    PROVE  IInv'
<1>1. /\ step = "missing" /\ AtLoopHead /\ b \in todo /\ todo' = todo \ {b}
      /\ DeleteEnvelopes(b) /\ Rebuild(b, listed[b].validity)
      /\ UNCHANGED <<setup, server, rows, state, step, listed, local, updates, lost>>
  BY DEF VisitMissing, Visit, Visited, account, Session
<1>2. listed[b].validity \in Nat /\ Older(listed[b].validity, server[b].validity) /\ AllDocs(b) = {}
  BY <1>1 DEF IInv, TypeInv, Loops, Epochs, Older, Shape
<1>3. /\ job' \in JobSet /\ JobInv' /\ Box' = b /\ job'.kind \in {"full", "dated"}
      /\ job'.validity = listed[b].validity /\ job'.epoch = server[b].validity
      /\ passed' \in [Mailboxes -> SUBSET Messages] /\ \A c \in Mailboxes : passed[c] \subseteq passed'[c]
  BY <1>1, <1>2, RebuildFacts
<1>4. /\ \A c \in Mailboxes : Still(c) /\ AllDocs(c)' = AllDocs(c)
      /\ \A c \in Mailboxes : dedup'[c] \subseteq Archived(c)'
  BY <1>1, <1>2, <1>3, DeleteNothing
<1>5. ArchiveType'
  <2>1. queue' \in Entries /\ index' \in [Mailboxes -> SUBSET Docs] /\ dedup' \in [Mailboxes -> SUBSET Messages]
    BY <1>1, DeleteFacts DEF IInv
  <2> QED  BY <1>1, <1>3, <2>1 DEF IInv, TypeInv, ArchiveType
<1>6. rows' = rows /\ rows[b] \in RowSet /\ RowOK(b, rows[b])'  BY <1>1, <1>4, PlannedRow
<1> QED  BY <1>1, <1>2, <1>3, <1>4, <1>5, <1>6, VisitKeeps DEF Noted

(* Where an incremental sync starts, all below was fetched.                 *)
LEMMA StartCovers ==
    ASSUME IInv, step = "trace", NEW b \in DOMAIN local, Current(b, local[b])
    PROVE  StartUid(b) \in Nat /\ \A u \in Uids(b) : u < StartUid(b) => Good(b, At(b, u))
<1>0. b \in Mailboxes /\ local[b] \in RowSet /\ rows[b] = local[b] /\ b \in DOMAIN rows
  BY DEF IInv, TypeInv, Table, Shape
<1>1. /\ Len(server[b].at) \in Nat /\ \A u \in Uids(b) : u \in Nat  BY <1>0, UidFacts DEF IInv
<1>2. CASE local[b].highest # 0
  <2>1. UpTo(b, local[b].highest) /\ local[b].highest \in Nat  BY <1>0 DEF IInv, LocalInv, RowSet
  <2>2. StartUid(b) = local[b].highest + 1  BY <1>2 DEF StartUid
  <2> QED  BY SMTT(30), <1>1, <2>1, <2>2 DEF UpTo
<1>3. CASE local[b].highest = 0
  <2> DEFINE S == {d.uid : d \in index[b]}
  <2>1. RowOK(b, local[b])  BY <1>0 DEF IInv, RowsInv
  <2>2. \A d \in index[b] : UpTo(b, d.uid) /\ d \in Docs  BY <1>0, <1>3, <2>1 DEF RowOK, AllDocs, IInv, TypeInv
  <2>3. \A d \in index[b] : d.uid \in Nat /\ d.uid # 0  BY <2>2 DEF Docs
  <2>4. S \in SUBSET (1 .. Len(server[b].at))  BY SMTT(30), <1>1, <2>2, <2>3 DEF UpTo
  <2>5. \A h \in S : UpTo(b, h)  BY <2>2
  <2> HIDE DEF S
  <2>6. Top(S) \in Nat /\ (S = {} <=> Top(S) = 0) /\ (S # {} => Top(S) \in S)  BY <1>1, <2>4, TopFacts
  <2>7. StartUid(b) = Top(S) + 1  BY <1>3 DEF StartUid, MaxIndexed, S
  <2>8. CASE S = {}
    <3>1. \A u \in Uids(b) : u # 0  BY <1>0, UidFacts DEF IInv
    <3> QED  BY SMTT(30), <1>1, <2>6, <2>7, <2>8, <3>1
  <2>9. CASE S # {}
    <3>1. UpTo(b, Top(S))  BY <2>5, <2>6, <2>9
    <3> QED  BY SMTT(30), <1>1, <2>6, <2>7, <3>1 DEF UpTo
  <2> QED  BY <2>8, <2>9
<1> QED  BY <1>2, <1>3

(* What an answer to a search for new mail leaves out is too large or was   *)
(* fetched.                                                                 *)
LEMMA NewMailFacts ==
    ASSUME IInv, step = "trace", NEW b \in Mailboxes, b \in DOMAIN local, NEW validity \in Nat,
           fetch_new_mail(b, validity), UNCHANGED <<setup, server, local, archive, lost>>
    PROVE  /\ job' \in JobSet /\ JobInv' /\ Box' = b /\ job'.kind \in {"new", "before"}
           /\ job'.validity = validity /\ job'.epoch = server[b].validity
           /\ passed' \in [Mailboxes -> SUBSET Messages] /\ \A c \in Mailboxes : passed[c] \subseteq passed'[c]
<1>1. PICK answered \in BOOLEAN :
        LET uids == IF answered THEN {u \in collect_range_uids(b) : u >= StartUid(b)} ELSE {}
        IN  IF window.kind = "before" THEN BeforeJob(b, validity, uids) ELSE NewJob(b, validity, uids)
  BY DEF fetch_new_mail
<1> DEFINE uids == IF answered THEN {u \in collect_range_uids(b) : u >= StartUid(b)} ELSE {}
<1>2. uids \in SUBSET Uids(b)  BY DEF collect_range_uids
<1>3. Uids(b) \in SUBSET (1 .. Len(server[b].at)) /\ Len(server[b].at) \in Nat  BY UidFacts DEF IInv
<1>4. {"new", "before"} \subseteq Kinds  BY DEF Kinds
<1>5. \A u : At(b, u)' = At(b, u)  BY DEF At
<1>6. ASSUME passed[b] \subseteq passed'[b] PROVE Keeps(b)
  <2>1. Archived(b)' = Archived(b)  BY DEF archive, Archived, AllDocs
  <2> QED  BY <1>6, <2>1 DEF Keeps, archive
<1>7. ASSUME Current(b, local[b]), passed[b] \subseteq passed'[b], answered, NEW u \in Uids(b), u \notin uids
      PROVE  Good(b, At(b, u))'
  <2>1. CASE u < StartUid(b)
    <3>1. Good(b, At(b, u))  BY <1>7, <2>1, StartCovers
    <3> QED  BY <1>5, <1>6, <1>7, <3>1, GoodKept
  <2>2. CASE u >= StartUid(b)
    <3>1. At(b, u) \in Oversized  BY <1>7, <2>2 DEF collect_range_uids
    <3> QED  BY <1>5, <3>1 DEF Good, Wanted, Oversized
  <2> QED  BY SMTT(30), <1>3, <1>7, <2>1, <2>2, StartCovers
<1> HIDE DEF uids
<1>8. CASE window.kind # "before"
  <2>1. job' = Job(b, "new", uids, Top(uids), validity, TRUE) /\ passed' = passed
    BY <1>1, <1>8 DEF NewJob, uids
  <2>2. Sound' => Current(b, local[b])  BY <2>1 DEF Sound, Job, Box, Current
  <2>3. Top(uids) \in Nat /\ Top(uids) <= Len(server[b].at) /\ \A u \in uids : u <= Top(uids)
    BY <1>2, <1>3, TopFacts
  <2>4. ASSUME Sound', NEW u \in Uids(b), u <= Top(uids), u \notin uids PROVE Good(b, At(b, u))'
    <3>1. CASE answered  BY <1>7, <2>1, <2>2, <2>4, <3>1
    <3>2. CASE ~answered
      <4>1. uids = {} /\ Top(uids) = 0  BY <3>2 DEF uids, Top
      <4> QED  BY SMTT(30), <1>3, <2>4, <4>1
    <3> QED  BY <3>1, <3>2
  <2>5. passed' \in [Mailboxes -> SUBSET Messages]  BY <2>1 DEF IInv, TypeInv
  <2> QED  BY <1>2, <1>4, <2>1, <2>3, <2>4, <2>5, JobMade
<1>9. CASE window.kind = "before"
  <2> DEFINE early == filter_before_date(b, uids)
  <2>1. job' = Job(b, "before", early, Top(early), validity, TRUE) /\ Pass(b, uids, Top(early))
    BY <1>1, <1>9 DEF BeforeJob, uids
  <2>2. early = Within(b, uids) /\ early \in SUBSET uids  BY DEF filter_before_date, Within
  <2> HIDE DEF early
  <2>3. Sound' => Current(b, local[b])  BY <2>1 DEF Sound, Job, Box, Current
  <2>4. Top(early) \in Nat /\ Top(early) <= Len(server[b].at) /\ \A u \in early : u <= Top(early)
    BY <1>2, <1>3, <2>2, TopFacts
  <2>5. /\ passed' \in [Mailboxes -> SUBSET Messages] /\ \A c \in Mailboxes : passed[c] \subseteq passed'[c]
        /\ \A u \in uids \ early : u <= Top(early) => At(b, u) \in passed'[b]
    BY <1>2, <2>1, <2>2, <2>4, PassFacts
  <2>6. ASSUME Sound', NEW u \in Uids(b), u <= Top(early), u \notin early PROVE Good(b, At(b, u))'
    <3>1. CASE u \in uids  BY <1>5, <2>5, <2>6, <3>1 DEF Good
    <3>2. CASE answered /\ u \notin uids  BY <1>7, <2>3, <2>5, <2>6, <3>2
    <3>3. CASE ~answered
      <4>1. uids = {} /\ early = {} /\ Top(early) = 0  BY <2>2, <3>3 DEF uids, Top
      <4> QED  BY SMTT(30), <1>3, <2>6, <4>1
    <3> QED  BY <3>1, <3>2, <3>3
  <2>7. "before" \in Kinds /\ TRUE \in BOOLEAN /\ early \in SUBSET Uids(b)  BY <1>2, <2>2 DEF Kinds
  <2>8. Sound' => \A u \in Uids(b) : u <= Top(early) => Good(b, At(b, u))' \/ u \in early  BY <2>6
  <2>9. /\ job' \in JobSet /\ JobInv' /\ Box' = b /\ job'.kind = "before"
        /\ job'.validity = validity /\ job'.epoch = server[b].validity
    BY <2>1, <2>4, <2>7, <2>8, JobMade
  <2> QED  BY <1>4, <2>5, <2>9
<1> QED  BY <1>8, <1>9

(* The UIDVALIDITY a folder is reconciled with.                             *)
LEMMA ResolvedFacts ==
    ASSUME IInv, step = "trace", NEW b \in DOMAIN local, NEW v \in Resolved(b)
    PROVE  v \in Nat /\ Older(v, server[b].validity) /\ (v = listed[b].validity \/ listed[b].validity = 0)
<1>1. b \in Mailboxes /\ local[b].validity \in Nat /\ Older(local[b].validity, server[b].validity)
  BY DEF IInv, TypeInv, Table, RowSet, Epochs, Aged
<1>2. listed[b].validity \in Nat /\ listed[b].validity <= server[b].validity
  BY <1>1 DEF IInv, TypeInv, Epochs, Loops
<1>3. server[b].validity \in Nat /\ MaxValidity \in Nat  BY <1>1, UidFacts DEF IInv
<1> QED  BY SMTT(30), <1>1, <1>2, <1>3 DEF Resolved, fetch_uid_validity_with_retry, Synthetic, Older

(* Where the UIDVALIDITY is the stored one, an unmoved watermark leaves the *)
(* row as it was.                                                           *)
LEMMA KeepSame ==
    ASSUME IInv, step = "trace", NEW b \in DOMAIN local, NEW v, v = local[b].validity,
           v = listed[b].validity \/ listed[b].validity = 0, NEW h, h = 0 \/ h = local[b].highest
    PROVE  Keep(b, v, h) = local[b]
<1>1. local[b] \in RowSet  BY DEF IInv, TypeInv, Table
<1>2. Keep(b, v, h) = Row(local[b].validity, local[b].highest, local[b].holes)  BY DEF Keep
<1> QED  BY <1>1, <1>2 DEF Row, RowSet

(* Of a reconciled folder.                                                  *)
LEMMA VisitTraceKeeps ==
    ASSUME IInv, NEW b \in Mailboxes, VisitTrace(b)
    PROVE  IInv'
<1>1. /\ step = "trace" /\ AtLoopHead /\ b \in todo /\ todo' = todo \ {b}
      /\ UNCHANGED <<setup, server, rows, archive, state, step, listed, local, lost>>
  BY DEF VisitTrace, Visit, Visited, account, Session
<1>2. b \in DOMAIN local /\ b \in DOMAIN rows /\ b \notin DOMAIN updates /\ rows = local /\ local[b] \in RowSet
  BY <1>1 DEF IInv, Shape, TypeInv, Table
<1>3. PICK v \in Resolved(b) :
        \/ v # local[b].validity /\ ReconcileJob(b, v) /\ UNCHANGED <<updates, faults>>
        \/ v = local[b].validity /\ perform_incremental_sync(b, v)
  BY DEF VisitTrace
<1>4. v \in Nat /\ Older(v, server[b].validity) /\ (v = listed[b].validity \/ listed[b].validity = 0)
  BY <1>1, <1>2, ResolvedFacts
<1>5. ASSUME job' \in JobSet, JobInv', Box' = b, job'.validity = v, job'.epoch = server[b].validity,
             job'.kind \in {"full", "dated", "new", "before", "reconcile"},
             job'.kind = "reconcile" <=> v # local[b].validity,
             passed' \in [Mailboxes -> SUBSET Messages], \A c \in Mailboxes : passed[c] \subseteq passed'[c],
             updates' = updates
      PROVE  IInv'
  <2>1. /\ ArchiveType' /\ \A c \in Mailboxes : Still(c) /\ AllDocs(c)' = AllDocs(c)
        /\ \A c \in Mailboxes : dedup'[c] \subseteq Archived(c)'
    BY <1>1, <1>5, PlanStill
  <2>2. rows' = rows /\ rows[b] \in RowSet /\ RowOK(b, rows[b])'  BY <1>1, <2>1, PlannedRow
  <2> QED  BY <1>1, <1>4, <1>5, <2>1, <2>2, VisitKeeps DEF Noted
<1>6. CASE v # local[b].validity /\ ReconcileJob(b, v) /\ UNCHANGED <<updates, faults>>
  <2> DEFINE uids == Within(b, Uids(b))
             missing == Missing(b, fetch_uid_metadata(b, uids))
  <2>1. uids \in SUBSET Uids(b) /\ missing \in SUBSET uids  BY DEF Within, Missing, fetch_uid_metadata
  <2>2. \A u \in uids \ missing : \E m \in Msgs(index[b]) : setup.id[m] = setup.id[At(b, u)] /\ setup.id[m] # NoId
    BY DEF Missing, fetch_uid_metadata, get_message_ids_for_mailbox
  <2>3. job' = Job(b, "reconcile", missing, Top(uids), v, TRUE) /\ Pass(b, Uids(b), Top(uids))
    BY <1>6 DEF ReconcileJob
  <2>4. Uids(b) \in SUBSET (1 .. Len(server[b].at)) /\ Len(server[b].at) \in Nat  BY UidFacts DEF IInv
  <2> HIDE DEF missing
  <2>5. /\ passed' \in [Mailboxes -> SUBSET Messages] /\ \A c \in Mailboxes : passed[c] \subseteq passed'[c]
        /\ \A u \in Uids(b) \ uids : u <= Top(uids) => At(b, u) \in passed'[b]
        /\ Top(uids) \in Nat /\ Top(uids) <= Len(server[b].at) /\ \A u \in uids : u <= Top(uids)
    <3>1. Top(uids) \in Nat /\ Top(uids) <= Len(server[b].at) /\ \A u \in uids : u <= Top(uids)
      BY <2>1, <2>4, TopFacts
    <3> QED  BY <2>3, <3>1, PassFacts
  <2> HIDE DEF uids
  <2>6. ASSUME NEW u \in Uids(b), u <= Top(uids), u \notin missing PROVE Good(b, At(b, u))'
    <3>1. At(b, u)' = At(b, u)  BY <1>1 DEF At
    <3>2. CASE u \notin uids  BY <2>5, <2>6, <3>1, <3>2 DEF Good
    <3>3. CASE u \in uids
      <4>1. PICK m \in Msgs(index[b]) : setup.id[m] = setup.id[At(b, u)] /\ setup.id[m] # NoId  BY <2>2, <2>6, <3>3
      <4>2. m \in Msgs(index[b])' /\ Alike(m, At(b, u))'  BY <1>1, <3>1, <4>1 DEF archive, Alike, Msgs
      <4> QED  BY <4>2 DEF Good
    <3> QED  BY <3>2, <3>3
  <2>7. "reconcile" \in Kinds /\ missing \in SUBSET Uids(b) /\ \A u \in missing : u <= Top(uids)
    BY <2>1, <2>5 DEF Kinds
  <2>8. /\ job' \in JobSet /\ JobInv' /\ Box' = b /\ job'.kind = "reconcile" /\ job'.validity = v
        /\ job'.epoch = server[b].validity
    BY <1>1, <1>4, <2>3, <2>5, <2>6, <2>7, JobMade
  <2> QED  BY <1>5, <1>6, <2>5, <2>8
<1>7. CASE v = local[b].validity /\ perform_incremental_sync(b, v)
  <2>1. CASE updates' = Put(b, Keep(b, v, local[b].highest), updates) /\ UNCHANGED <<job, passed>>
    <3>1. updates' = Put(b, local[b], updates)  BY <1>1, <1>2, <1>4, <1>7, <2>1, KeepSame
    <3>2. /\ DOMAIN updates' = DOMAIN updates \cup {b} /\ updates'[b] = local[b]
          /\ \A c \in DOMAIN updates : c # b => updates'[c] = updates[c]
      BY <3>1 DEF Put, Over
    <3>3. Stay  BY <1>1, <2>1 DEF Stay
    <3>4. ArchiveType' /\ ServerType' /\ DocsInv' /\ \A c \in Mailboxes : Still(c) /\ AllDocs(c)' = AllDocs(c)
      BY <1>1, <3>3, StayStill
    <3>5. job = NoJob /\ job' = NoJob  BY <1>1, <2>1 DEF AtLoopHead
    <3>6. TypeInv'
      <4>1. Table(updates)'  BY <1>2, <3>2 DEF IInv, TypeInv, Table
      <4> QED  BY <1>1, <3>4, <3>5, <4>1 DEF IInv, TypeInv, ArchiveType, Entries, Table
    <3>7. Shape'  BY <1>1, <1>2, <3>2, <3>5 DEF IInv, Shape
    <3>8. Epochs'
      <4>1. Older(local[b].validity, server[b].validity)  BY <1>2 DEF IInv, Epochs, Aged
      <4>2. Aged(updates)'  BY <1>1, <3>2, <4>1 DEF IInv, Epochs, Aged
      <4> QED  BY <1>1, <3>5, <4>2 DEF IInv, Epochs, Aged
    <3>9. RowOK(b, rows[b])' /\ RowOK(b, updates[b])'
      BY <1>1, <1>2, <3>2, <3>4, PlannedRow
    <3>10. JobInv'  BY <3>5 DEF JobInv
    <3>11. \A c \in Mailboxes : Numbered(c)
      <4>1. \A c \in Mailboxes : server[c].validity \in Nat /\ Len(server[c].at) \in Nat  BY UidFacts DEF IInv
      <4> QED  BY SMTT(30), <1>1, <4>1 DEF Numbered, Uids, At
    <3> QED  BY <1>1, <3>2, <3>4, <3>6, <3>7, <3>8, <3>9, <3>10, <3>11, OneBox DEF Still
  <2>2. CASE Rebuild(b, v) /\ updates' = updates
    <3>1. /\ job' \in JobSet /\ JobInv' /\ Box' = b /\ job'.kind \in {"full", "dated"}
          /\ job'.validity = v /\ job'.epoch = server[b].validity
          /\ passed' \in [Mailboxes -> SUBSET Messages] /\ \A c \in Mailboxes : passed[c] \subseteq passed'[c]
      BY <1>1, <1>4, <2>2, RebuildFacts
    <3> QED  BY <1>5, <1>7, <2>2, <3>1
  <2>3. CASE fetch_new_mail(b, v) /\ updates' = updates
    <3>1. /\ job' \in JobSet /\ JobInv' /\ Box' = b /\ job'.kind \in {"new", "before"}
          /\ job'.validity = v /\ job'.epoch = server[b].validity
          /\ passed' \in [Mailboxes -> SUBSET Messages] /\ \A c \in Mailboxes : passed[c] \subseteq passed'[c]
      BY <1>1, <1>2, <1>4, <2>3, NewMailFacts
    <3> QED  BY <1>5, <1>7, <2>3, <3>1
  <2> QED  BY <1>7, <2>1, <2>2, <2>3 DEF perform_incremental_sync
<1> QED  BY <1>3, <1>6, <1>7

(* Of gap-fill: what it does not find missing is alike to a committed       *)
(* message; where it could not compare everything, the row is marked.       *)
LEMMA VisitGapKeeps ==
    ASSUME IInv, NEW b \in Mailboxes, VisitGap(b)
    PROVE  IInv'
<1>1. /\ step = "gap" /\ AtLoopHead /\ b \in todo /\ todo' = todo \ {b}
      /\ UNCHANGED <<setup, server, archive, state, step, listed, local, updates, lost, passed>>
  BY DEF VisitGap, Visit, Visited, account, Session, history
<1>2. PICK seen \in SUBSET Uids(b) :
        /\ IF seen = Uids(b) THEN rows' = rows ELSE MarkHoles(b)
        /\ job' = Job(b, "gap", compute_missing_uids(b, fetch_uid_headers(b, seen)),
                      Top(compute_missing_uids(b, fetch_uid_headers(b, seen))), listed[b].validity, seen = Uids(b))
  BY DEF VisitGap
<1> DEFINE missing == compute_missing_uids(b, fetch_uid_headers(b, seen))
<1>3. missing \in SUBSET seen  BY DEF compute_missing_uids, fetch_uid_headers
<1>4. \A u \in seen \ missing : \E m \in Msgs(index[b]) : Alike(m, At(b, u))
  BY SMTT(30) DEF compute_missing_uids, fetch_uid_headers, get_envelope_snapshots_for_mailbox, Alike
<1> HIDE DEF missing
<1>5. passed' \in [Mailboxes -> SUBSET Messages]  BY <1>1 DEF IInv, TypeInv
<1>6. /\ ArchiveType' /\ \A c \in Mailboxes : Still(c) /\ AllDocs(c)' = AllDocs(c)
      /\ \A c \in Mailboxes : dedup'[c] \subseteq Archived(c)'
  BY <1>1, <1>5, PlanStill
<1>7. /\ b \in DOMAIN rows /\ rows[b] \in RowSet /\ \A r : r = rows[b] => RowOK(b, r)'
  BY <1>1, <1>6, PlannedRow
<1>8. /\ DOMAIN rows' = DOMAIN rows /\ \A c \in DOMAIN rows : c # b => rows'[c] = rows[c]
      /\ rows'[b] \in RowSet /\ rows'[b].validity = rows[b].validity /\ rows'[b].highest = rows[b].highest
      /\ rows[b].holes => rows'[b].holes
      /\ seen # Uids(b) /\ rows[b].highest = 0 => rows'[b].holes
  <2>1. CASE rows' = rows /\ seen = Uids(b)  BY <1>7, <2>1
  <2>2. CASE MarkHoles(b)
    <3>1. rows'[b] = [rows[b] EXCEPT !.holes = rows[b].holes \/ rows[b].highest = 0]
          /\ DOMAIN rows' = DOMAIN rows /\ \A c \in DOMAIN rows : c # b => rows'[c] = rows[c]
      BY <1>7, <2>2 DEF MarkHoles
    <3> QED  BY <1>7, <3>1 DEF RowSet
  <2> QED  BY <1>2, <2>1, <2>2
<1>9. RowOK(b, rows[b])'
  BY <1>7, <1>8 DEF RowOK, Current
<1>10. Uids(b) \in SUBSET (1 .. Len(server[b].at)) /\ Len(server[b].at) \in Nat  BY UidFacts DEF IInv
<1>11. Top(missing) \in Nat /\ Top(missing) <= Len(server[b].at) /\ \A u \in missing : u <= Top(missing)
  BY <1>3, <1>10, TopFacts
<1>12. job' = Job(b, "gap", missing, Top(missing), listed[b].validity, seen = Uids(b))
  BY <1>2 DEF missing
<1>13. Sound' => seen = Uids(b)
  <2>1. job'.kind = "gap" /\ Box' = b /\ job'.complete = (seen = Uids(b))  BY <1>12 DEF Job, Box
  <2> QED  BY <1>8, <2>1 DEF Sound
<1>14. ASSUME Sound', NEW u \in Uids(b), u \notin missing PROVE Good(b, At(b, u))'
  <2>1. PICK m \in Msgs(index[b]) : Alike(m, At(b, u))  BY <1>4, <1>13, <1>14
  <2>2. m \in Msgs(index[b])' /\ Alike(m, At(b, u))' /\ At(b, u)' = At(b, u)
    BY <1>1, <2>1 DEF archive, Alike, Msgs, At
  <2> QED  BY <2>2 DEF Good
<1>15. /\ listed[b].validity \in Nat /\ Older(listed[b].validity, server[b].validity)
       /\ "gap" \in Kinds /\ missing \in SUBSET Uids(b) /\ (seen = Uids(b)) \in BOOLEAN
  BY <1>1, <1>3 DEF IInv, TypeInv, Loops, Epochs, Older, Kinds
<1>16. /\ job' \in JobSet /\ JobInv' /\ Box' = b /\ job'.kind = "gap" /\ job'.validity = listed[b].validity
       /\ job'.epoch = server[b].validity
  <2>1. Sound' => \A u \in Uids(b) : u <= Top(missing) => Good(b, At(b, u))' \/ u \in missing  BY <1>14
  <2>2. server' = server  BY <1>1
  <2> DEFINE all == seen = Uids(b)
  <2>3. all \in BOOLEAN /\ job' = Job(b, "gap", missing, Top(missing), listed[b].validity, all)
    BY <1>12, <1>15
  <2> HIDE DEF all
  <2> QED  BY SMTT(30), <1>11, <1>15, <2>1, <2>2, <2>3, JobMade
<1> QED  BY <1>1, <1>6, <1>8, <1>9, <1>15, <1>16, VisitKeeps DEF Noted

-----------------------------------------------------------------------------
(* One document per message.  The cache knows every archived message the    *)
(* last restart did not leave out, and no message is twice in a mailbox.    *)
ServerInv == \A b \in Mailboxes : \A u, w \in Uids(b) : At(b, u) = At(b, w) => u = w
CachedInv == \A b \in Mailboxes : Archived(b) \ forgot[b] \subseteq dedup[b]
Single ==
    \A b \in Mailboxes :
        /\ \A d, e \in index[b] : d.msg = e.msg /\ d.msg \notin forgot[b] => d = e
        /\ \A i, j \in DOMAIN queue :
             queue[i].box = b /\ queue[j].box = b /\ queue[i].doc.msg = queue[j].doc.msg
               /\ queue[i].doc.msg \notin forgot[b] => i = j
        /\ \A d \in index[b] : \A i \in DOMAIN queue :
             queue[i].box = b /\ queue[i].doc.msg = d.msg => d.msg \in forgot[b]
CopyInv == ServerInv /\ CachedInv /\ Single

(* A step of the server.                                                    *)
LEMMA ServerCopies ==
    ASSUME IInv, CopyInv, NEW b \in Mailboxes,
           \/ \E m \in Messages : Deliver(b, m)
           \/ \E u \in 1 .. MaxUid : Expunge(b, u)
           \/ \E keep \in BOOLEAN : Revalidate(b, keep)
    PROVE  CopyInv'
<1>1. UNCHANGED <<archive, forgot>>  BY DEF Deliver, Expunge, Revalidate, history
<1>2. CachedInv' /\ Single'  BY SMTT(30), <1>1 DEF CopyInv, CachedInv, Single, archive, Archived, AllDocs
<1>3. server[b] \in [validity : 1 .. MaxValidity, at : Seq(Messages \cup {Gone})]  BY DEF IInv, TypeInv
<1>4. ASSUME NEW m \in Messages, Deliver(b, m), NEW u \in Uids(b)', NEW w \in Uids(b)', At(b, u)' = At(b, w)'
      PROVE  u = w
  <2> DEFINE s == server[b].at
  <2>1. server'[b].at = Append(s, m) /\ s \in Seq(Messages \cup {Gone}) /\ m \notin OnServer(b)
    BY <1>3, <1>4 DEF Deliver, IInv, TypeInv
  <2> HIDE DEF s
  <2>2. DOMAIN Append(s, m) = 1 .. Len(s) + 1 /\ DOMAIN s = 1 .. Len(s) /\ Len(s) \in Nat
        /\ Append(s, m)[Len(s) + 1] = m /\ \A i \in 1 .. Len(s) : Append(s, m)[i] = s[i]
    BY SMTT(30), <2>1
  <2>3. \A i \in Uids(b)' : i \in 1 .. Len(s) + 1 /\ At(b, i)' = Append(s, m)[i] /\ At(b, i)' # Gone
    BY <2>1, <2>2 DEF Uids, At
  <2>4. \A i \in Uids(b)' : i # Len(s) + 1 => i \in Uids(b) /\ At(b, i)' = At(b, i) /\ At(b, i) # m
    <3> SUFFICES ASSUME NEW i \in Uids(b)', i # Len(s) + 1
                 PROVE  i \in Uids(b) /\ At(b, i)' = At(b, i) /\ At(b, i) # m
      OBVIOUS
    <3>1. i \in 1 .. Len(s)  BY SMTT(30), <2>2, <2>3
    <3>2. i \in Uids(b) /\ At(b, i)' = At(b, i)  BY <2>2, <2>3, <3>1 DEF Uids, At, s
    <3> QED  BY <2>1, <3>2 DEF OnServer
  <2>5. \A i \in Uids(b)' : i = Len(s) + 1 => At(b, i)' = m  BY <2>2, <2>3
  <2> QED  BY <1>4, <2>4, <2>5 DEF CopyInv, ServerInv
<1>5. ASSUME NEW v \in 1 .. MaxUid, Expunge(b, v), NEW u \in Uids(b)', NEW w \in Uids(b)', At(b, u)' = At(b, w)'
      PROVE  u = w
  <2>1. server'[b].at = [server[b].at EXCEPT ![v] = Gone]  BY <1>3, <1>5 DEF Expunge, IInv, TypeInv
  <2>2. \A i \in Uids(b)' : i \in Uids(b) /\ At(b, i)' = At(b, i)  BY <2>1 DEF Uids, At
  <2> QED  BY <1>5, <2>2 DEF CopyInv, ServerInv
<1>6. ASSUME NEW keep \in BOOLEAN, Revalidate(b, keep), NEW u \in Uids(b)', NEW w \in Uids(b)', At(b, u)' = At(b, w)'
      PROVE  u = w
  <2> DEFINE s == Ascending(Uids(b))
             c == Cardinality(Uids(b))
  <2>1. /\ c \in Nat /\ DOMAIN s = 1 .. c /\ Range(s) = Uids(b) /\ s \in Seq(Nat \ {0})
        /\ \A i, j \in DOMAIN s : i < j => s[i] < s[j]
    BY UidFacts, AscendingFacts DEF IInv
  <2>2. server'[b].at = IF keep THEN [i \in 1 .. c |-> At(b, s[i])] ELSE <<>>
    BY <1>3, <1>6 DEF Revalidate, IInv, TypeInv
  <2> HIDE DEF s, c
  <2>3. keep  BY SMTT(30), <1>6, <2>2 DEF Uids
  <2>4. \A i \in Uids(b)' : i \in 1 .. c /\ At(b, i)' = At(b, s[i]) /\ s[i] \in Uids(b)
    BY <2>1, <2>2, <2>3 DEF Uids, At, Range
  <2>5. s[u] = s[w] /\ u \in 1 .. c /\ w \in 1 .. c  BY <1>6, <2>4 DEF CopyInv, ServerInv
  <2> QED  BY SMTT(30), <2>1, <2>5
<1>7. \A c \in Mailboxes : c # b => Uids(c)' = Uids(c) /\ \A u : At(c, u)' = At(c, u)
  <2>1. \A c \in Mailboxes : c # b => server'[c] = server[c]
    BY DEF Deliver, Expunge, Revalidate, IInv, TypeInv
  <2> QED  BY <2>1 DEF Uids, At
<1>8. \A u, w \in Uids(b)' : At(b, u)' = At(b, w)' => u = w  BY <1>4, <1>5, <1>6
<1>9. ServerInv'  BY SMTT(30), <1>7, <1>8 DEF CopyInv, ServerInv
<1> QED  BY <1>2, <1>9 DEF CopyInv

(* A batch adds only messages the cache does not know.                      *)
LEMMA StoreCopies ==
    ASSUME IInv, CopyInv, NEW b \in Mailboxes, NEW uids, Store(b, uids), UNCHANGED <<server, forgot>>
    PROVE  CopyInv'
<1>20. PICK t \in Entries : Adds(b, uids, t)  BY StoreQueue DEF IInv
<1>1. /\ queue' = queue \o t
      /\ \A i \in DOMAIN t : t[i].box = b /\ \E u \in New(b, uids) : t[i].doc = DocAt(b, u)
      /\ \A i, j \in DOMAIN t : t[i].doc.uid = t[j].doc.uid => i = j
  BY <1>20 DEF Adds
<1>2. /\ index' = index
      /\ \A c \in Mailboxes : c # b => AllDocs(c)' = AllDocs(c) /\ dedup'[c] = dedup[c]
      /\ AllDocs(b)' = AllDocs(b) \cup {DocAt(b, u) : u \in New(b, uids)}
      /\ dedup'[b] = dedup[b] \cup {At(b, u) : u \in New(b, uids)}
  BY StoreFacts DEF IInv
<1>3. ServerInv'  BY SMTT(30) DEF CopyInv, ServerInv, Uids, At
<1>4. CachedInv'  BY SMTT(30), <1>2 DEF CopyInv, CachedInv, Archived, Msgs, DocAt
<1>5. \A u \in New(b, uids) : u \in Uids(b) /\ (At(b, u) \in Archived(b) => At(b, u) \in forgot[b])
  BY DEF New, Storable, CopyInv, CachedInv
<1> DEFINE n == Len(queue)
<1>6. /\ queue \in Entries /\ n \in Nat /\ DOMAIN queue = 1 .. n /\ DOMAIN t = 1 .. Len(t) /\ Len(t) \in Nat
      /\ DOMAIN queue' = 1 .. n + Len(t)
      /\ \A i \in 1 .. n : queue'[i] = queue[i]
      /\ \A i \in 1 .. Len(t) : queue'[n + i] = t[i]
  BY SMTT(30), <1>1 DEF IInv, TypeInv, Entries
<1> HIDE DEF n
<1>7. \A i \in DOMAIN queue' : \/ i \in DOMAIN queue /\ queue'[i] = queue[i]
                               \/ i > n /\ i - n \in DOMAIN t /\ queue'[i] = t[i - n]
  <2> SUFFICES ASSUME NEW i \in DOMAIN queue', i \notin DOMAIN queue
               PROVE  i > n /\ i - n \in DOMAIN t /\ queue'[i] = t[i - n]
    BY <1>6
  <2>1. i > n /\ i - n \in 1 .. Len(t) /\ n + (i - n) = i  BY SMTT(30), <1>6
  <2> QED  BY <1>6, <2>1
<1>8. \A i \in DOMAIN queue : queue[i].box = b => queue[i].doc.msg \in Archived(b)
  BY DEF Archived, Msgs, AllDocs, Of, Range
<1>9. \A d \in index[b] : d.msg \in Archived(b)  BY DEF Archived, Msgs, AllDocs
<1>10. \A i \in DOMAIN t : t[i].doc.msg \in Archived(b) => t[i].doc.msg \in forgot[b]
  <2> SUFFICES ASSUME NEW i \in DOMAIN t, t[i].doc.msg \in Archived(b) PROVE t[i].doc.msg \in forgot[b]  OBVIOUS
  <2>1. PICK u \in New(b, uids) : t[i].doc = DocAt(b, u)  BY <1>1
  <2>2. t[i].doc.msg = At(b, u)  BY SMTT(30), <2>1 DEF DocAt
  <2> QED  BY <1>5, <2>2
<1>11. \A i, j \in DOMAIN t : t[i].doc.msg = t[j].doc.msg => i = j
  <2> SUFFICES ASSUME NEW i \in DOMAIN t, NEW j \in DOMAIN t, t[i].doc.msg = t[j].doc.msg PROVE i = j  OBVIOUS
  <2>1. PICK u \in New(b, uids) : t[i].doc = DocAt(b, u)  BY <1>1
  <2>2. PICK w \in New(b, uids) : t[j].doc = DocAt(b, w)  BY <1>1
  <2>3. At(b, u) = At(b, w)  BY SMTT(30), <2>1, <2>2 DEF DocAt
  <2>4. u = w  BY <1>5, <2>3 DEF CopyInv, ServerInv
  <2> QED  BY <1>1, <2>1, <2>2, <2>4
<1>12. Single'
  <2> SUFFICES ASSUME NEW c \in Mailboxes
               PROVE  /\ \A d, e \in index[c] : d.msg = e.msg /\ d.msg \notin forgot[c] => d = e
                      /\ \A i, j \in DOMAIN queue' :
                           queue'[i].box = c /\ queue'[j].box = c /\ queue'[i].doc.msg = queue'[j].doc.msg
                             /\ queue'[i].doc.msg \notin forgot[c] => i = j
                      /\ \A d \in index[c] : \A i \in DOMAIN queue' :
                           queue'[i].box = c /\ queue'[i].doc.msg = d.msg => d.msg \in forgot[c]
    BY <1>2 DEF Single
  <2>1. \A d, e \in index[c] : d.msg = e.msg /\ d.msg \notin forgot[c] => d = e  BY DEF CopyInv, Single
  <2>2. ASSUME NEW i \in DOMAIN queue', NEW j \in DOMAIN queue', queue'[i].box = c, queue'[j].box = c,
               queue'[i].doc.msg = queue'[j].doc.msg, queue'[i].doc.msg \notin forgot[c]
        PROVE  i = j
    <3>1. CASE i \in DOMAIN queue /\ queue'[i] = queue[i] /\ j \in DOMAIN queue /\ queue'[j] = queue[j]
      BY <2>2, <3>1 DEF CopyInv, Single
    <3>2. CASE i \in DOMAIN queue /\ queue'[i] = queue[i] /\ j - n \in DOMAIN t /\ queue'[j] = t[j - n]
      BY SMTT(30), <1>1, <1>8, <1>10, <2>2, <3>2
    <3>3. CASE j \in DOMAIN queue /\ queue'[j] = queue[j] /\ i - n \in DOMAIN t /\ queue'[i] = t[i - n]
      BY SMTT(30), <1>1, <1>8, <1>10, <2>2, <3>3
    <3>4. CASE i - n \in DOMAIN t /\ queue'[i] = t[i - n] /\ j - n \in DOMAIN t /\ queue'[j] = t[j - n]
      <4>1. i - n = j - n  BY <1>11, <2>2, <3>4
      <4> QED  BY SMTT(30), <1>6, <4>1
    <3> QED  BY <1>7, <3>1, <3>2, <3>3, <3>4
  <2>3. ASSUME NEW d \in index[c], NEW i \in DOMAIN queue', queue'[i].box = c, queue'[i].doc.msg = d.msg
        PROVE  d.msg \in forgot[c]
    <3>1. CASE i \in DOMAIN queue /\ queue'[i] = queue[i]  BY <2>3, <3>1 DEF CopyInv, Single
    <3>2. CASE i - n \in DOMAIN t /\ queue'[i] = t[i - n]  BY <1>1, <1>9, <1>10, <2>3, <3>2
    <3> QED  BY <1>7, <3>1, <3>2
  <2> QED  BY <2>1, <2>2, <2>3
<1> QED  BY <1>3, <1>4, <1>12 DEF CopyInv

(* A commit, a deletion or a restart moves documents or drops them.         *)
LEMMA MoveCopies ==
    ASSUME IInv, CopyInv, NEW n \in 0 .. Len(queue), server' = server,
           \A b \in Mailboxes : index'[b] \subseteq Indexed(n)[b] /\ forgot[b] \subseteq forgot'[b],
           queue' = After(n) \/ queue' = <<>>, CachedInv'
    PROVE  CopyInv'
<1>1. ServerInv'  BY SMTT(30) DEF CopyInv, ServerInv, Uids, At
<1>2. queue \in Entries /\ DOMAIN queue = 1 .. Len(queue) /\ Len(queue) \in Nat  BY SMTT(30) DEF IInv, TypeInv, Entries
<1>3. \A i \in DOMAIN queue' : n + i \in DOMAIN queue /\ queue'[i] = queue[n + i] /\ i \in Nat /\ i > 0
  BY SMTT(30), <1>2 DEF After, Entries
<1>4. \A i \in DOMAIN First(n) : i \in DOMAIN queue /\ First(n)[i] = queue[i] /\ i <= n
  BY SMTT(30), <1>2 DEF First, Entries
<1>5. ASSUME NEW b \in Mailboxes, NEW d \in index'[b]
      PROVE  d \in index[b] \/ \E i \in DOMAIN queue : i <= n /\ queue[i].box = b /\ queue[i].doc = d
  <2>1. d \in index[b] \/ d \in Of(b, First(n))  BY <1>5, IndexedFacts DEF IInv
  <2> QED  BY SMTT(30), <1>4, <2>1 DEF Of, Range
<1>6. Single'
  <2> SUFFICES ASSUME NEW b \in Mailboxes
               PROVE  /\ \A d, e \in index'[b] : d.msg = e.msg /\ d.msg \notin forgot'[b] => d = e
                      /\ \A i, j \in DOMAIN queue' :
                           queue'[i].box = b /\ queue'[j].box = b /\ queue'[i].doc.msg = queue'[j].doc.msg
                             /\ queue'[i].doc.msg \notin forgot'[b] => i = j
                      /\ \A d \in index'[b] : \A i \in DOMAIN queue' :
                           queue'[i].box = b /\ queue'[i].doc.msg = d.msg => d.msg \in forgot'[b]
    BY DEF Single
  <2>1. /\ \A d, e \in index[b] : d.msg = e.msg /\ d.msg \notin forgot[b] => d = e
        /\ \A i, j \in DOMAIN queue :
             queue[i].box = b /\ queue[j].box = b /\ queue[i].doc.msg = queue[j].doc.msg
               /\ queue[i].doc.msg \notin forgot[b] => i = j
        /\ \A d \in index[b] : \A i \in DOMAIN queue :
             queue[i].box = b /\ queue[i].doc.msg = d.msg => d.msg \in forgot[b]
    BY DEF CopyInv, Single
  <2>2. \A m : m \notin forgot'[b] => m \notin forgot[b]  OBVIOUS
  <2>3. \A d, e \in index'[b] : d.msg = e.msg /\ d.msg \notin forgot'[b] => d = e
    BY SMTT(30), <1>5, <2>1, <2>2
  <2>4. \A i, j \in DOMAIN queue' :
          queue'[i].box = b /\ queue'[j].box = b /\ queue'[i].doc.msg = queue'[j].doc.msg
            /\ queue'[i].doc.msg \notin forgot'[b] => i = j
    <3>1. \A i, j \in DOMAIN queue' : n + i = n + j => i = j  BY SMTT(30), <1>3
    <3> QED  BY SMTT(30), <1>3, <2>1, <2>2, <3>1
  <2>5. ASSUME NEW d \in index'[b], NEW i \in DOMAIN queue', queue'[i].box = b, queue'[i].doc.msg = d.msg,
               d.msg \notin forgot'[b]
        PROVE  FALSE
    <3>1. n + i \in DOMAIN queue /\ queue'[i] = queue[n + i] /\ i \in Nat /\ i > 0  BY <1>3
    <3>2. CASE d \in index[b]  BY <2>1, <2>2, <2>5, <3>1, <3>2
    <3>3. ASSUME NEW j \in DOMAIN queue, j <= n, queue[j].box = b, queue[j].doc = d PROVE FALSE
      <4>1. j = n + i  BY <2>1, <2>2, <2>5, <3>1, <3>3
      <4> QED  BY SMTT(30), <1>2, <3>1, <3>3, <4>1
    <3> QED  BY SMTT(30), <1>5, <3>2, <3>3
  <2> QED  BY <2>3, <2>4, <2>5
<1> QED  BY <1>1, <1>6 DEF CopyInv

(* A commit makes no copy.                                                  *)
LEMMA CommitCopies ==
    ASSUME IInv, CopyInv, NEW n \in 1 .. Len(queue), Commit(n)
    PROVE  CopyInv'
<1>1. n \in 0 .. Len(queue) /\ index' = Indexed(n) /\ queue' = After(n) /\ UNCHANGED <<server, dedup, forgot>>
  BY SMTT(30) DEF Commit, history
<1>2. \A b \in Mailboxes : AllDocs(b)' = AllDocs(b)  BY <1>1, IndexedFacts DEF AllDocs, IInv
<1>3. CachedInv'  BY <1>1, <1>2 DEF CopyInv, CachedInv, Archived
<1> QED  BY <1>1, <1>3, MoveCopies

(* What is deleted is no longer archived when the cache forgets it.         *)
LEMMA DeleteCopies ==
    ASSUME IInv, CopyInv, NEW b \in Mailboxes, DeleteEnvelopes(b), Of(b, queue) = {}, UNCHANGED <<server, forgot>>
    PROVE  CopyInv'
<1>1. PICK n \in 0 .. Len(queue) : index' = [Indexed(n) EXCEPT ![b] = {}] /\ queue' = After(n)
  BY DEF DeleteEnvelopes
<1>2. /\ \A c \in Mailboxes : c # b => AllDocs(c)' = AllDocs(c) /\ dedup'[c] = dedup[c]
      /\ AllDocs(b)' = {}
  BY DeleteFacts DEF IInv
<1>3. CachedInv'  BY <1>2 DEF CopyInv, CachedInv, Archived, Msgs
<1>4. \A c \in Mailboxes : index'[c] \subseteq Indexed(n)[c]
  <2>1. Indexed(n) \in [Mailboxes -> SUBSET Docs]  BY IndexedFacts DEF IInv
  <2> QED  BY <1>1, <2>1
<1> QED  BY <1>1, <1>3, <1>4, MoveCopies

(* A restart forgets part of the cache, and says of which messages.         *)
LEMMA RestartCopies ==
    ASSUME IInv, CopyInv, NEW n \in 0 .. Len(queue), Restart(n)
    PROVE  CopyInv'
<1>1. index' = Indexed(n) /\ queue' = <<>> /\ server' = server  BY DEF Restart
<1>2. PICK recent \in SUBSET Messages :
        /\ dedup' = [b \in Mailboxes |-> Msgs(index'[b]) \cap recent]
        /\ forgot' = [b \in Mailboxes |-> forgot[b] \cup (Msgs(index'[b]) \ recent)]
  BY DEF Restart
<1>3. \A b \in Mailboxes : Archived(b)' = Msgs(index'[b])  BY SMTT(30), <1>1 DEF Archived, AllDocs, Of, Range, Msgs
<1>4. CachedInv'  BY <1>2, <1>3 DEF CachedInv
<1> QED  BY <1>1, <1>2, <1>4, MoveCopies

(* All other steps leave the server and the archive alone.                  *)
LEMMA QuietCopies ==
    ASSUME CopyInv, UNCHANGED <<server, archive, forgot>>
    PROVE  CopyInv'
  BY SMTT(30) DEF CopyInv, ServerInv, CachedInv, Single, archive, Uids, At, Archived, AllDocs

(* The folders a session visits, and its batches.                           *)
LEMMA SessionCopies ==
    ASSUME IInv, CopyInv, SessionStep \/ Fault
    PROVE  CopyInv'
<1>1. ASSUME NEW b \in Mailboxes, VisitMissing(b) \/ (VisitFails(b) /\ step = "missing") PROVE CopyInv'
  <2>1. DeleteEnvelopes(b) /\ UNCHANGED <<server, forgot>> /\ b \in todo /\ step = "missing"
    BY <1>1 DEF VisitMissing, VisitFails, Visit, history
  <2>2. Of(b, queue) = {}  BY <2>1 DEF IInv, Shape, AllDocs
  <2> QED  BY <2>1, <2>2, DeleteCopies
<1>2. ASSUME NEW b \in Mailboxes, VisitFull(b) \/ VisitTrace(b) \/ VisitGap(b) \/ (VisitFails(b) /\ step # "missing")
      PROVE  CopyInv'
  <2>1. UNCHANGED <<server, archive, forgot>>
    BY <1>2 DEF VisitFull, VisitTrace, VisitGap, VisitFails, history
  <2> QED  BY <2>1, QuietCopies
<1>3. CASE List \/ StopLoop \/ CancelFolder \/ FolderDone \/ GapDone \/ EndTrace \/ BeginGap \/ finish_run \/ Finish
           \/ ListFails \/ Cancel \/ Abandon
  <2>1. UNCHANGED <<server, archive, forgot>>
    BY <1>3 DEF List, StopLoop, CancelFolder, FolderDone, GapDone, EndTrace, BeginGap, finish_run, Finish,
                ListFails, Cancel, Abandon, Rested, history
  <2> QED  BY <2>1, QuietCopies
<1>4. ASSUME FetchBatch \/ \E k : RetryBatch(k) \/ FailBatch(k) PROVE CopyInv'
  <2>1. Downloading /\ UNCHANGED <<server, forgot>> /\ \E uids : Store(Box, uids)
    BY <1>4 DEF FetchBatch, RetryBatch, FailBatch, Break, history
  <2>2. PICK b \in Mailboxes : b = Box  BY <2>1 DEF Downloading, IInv, TypeInv, JobSet, Box
  <2>3. PICK uids : Store(b, uids)  BY <2>1, <2>2
  <2> QED  BY <2>1, <2>3, StoreCopies
<1>5. CASE SessionStep  BY <1>1, <1>2, <1>3, <1>4, <1>5 DEF SessionStep
<1>6. CASE Fault  BY <1>1, <1>2, <1>3, <1>4, <1>6, RestartCopies DEF Fault
<1> QED  BY <1>5, <1>6

(* No step makes a second copy of a message the cache remembers.            *)
LEMMA NextCopies ==
    ASSUME IInv, CopyInv, [Next]_vars
    PROVE  CopyInv'
<1>1. ASSUME NEW b \in Mailboxes, DeleteMailbox(b) PROVE CopyInv'
  <2>1. DeleteEnvelopes(b) /\ Of(b, queue) = {} /\ UNCHANGED <<server, forgot>>  BY <1>1 DEF DeleteMailbox, history
  <2> QED  BY <2>1, DeleteCopies
<1>2. CASE \/ \E q \in setup.requests : UpdateAccount(q)
           \/ DayPasses \/ FinalizeStale \/ (\E gap \in BOOLEAN : Start(gap)) \/ UNCHANGED vars
  <2>1. UNCHANGED <<server, archive, forgot>>
    BY <1>2 DEF UpdateAccount, DayPasses, FinalizeStale, Start, vars, Rested, history
  <2> QED  BY <2>1, QuietCopies
<1> QED  BY <1>1, <1>2, ServerCopies, CommitCopies, SessionCopies DEF Next
=============================================================================
