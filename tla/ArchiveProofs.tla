--------------------------- MODULE ArchiveProofs ---------------------------
(***************************************************************************)
(* For any number of workers, mailboxes, messages and attachments: no       *)
(* document loses its content, no blob is left behind unnoticed, cache,     *)
(* attachments and mailboxes refer to what exists, and only a deletion      *)
(* removes what was committed.                                              *)
(***************************************************************************)
EXTENDS Archive, TLAPS

Kinds == Deletions \cup {"none", "ingest", "tags", "recover"}
Steps == {"idle", "check", "populate", "detach", "queue", "finish", "collect", "remove",
          "cleanup", "attach", "write", "store"}
Docs == [box : Boxes, content : Contents]
Ops == [kind : Kinds, step : Steps, box : Boxes \cup {"none"}, content : Contents \cup {"none"},
        ids : SUBSET Nat, boxes : SUBSET Boxes, only : SUBSET Contents,
        keys : SUBSET Keys, seen : SUBSET Nat, early : BOOLEAN]

TypeInv ==
    /\ rows \subseteq Boxes /\ old \subseteq Contents /\ held \in BOOLEAN
    /\ doc \in Seq(Docs)
    /\ Live \cup attQueue \cup attIndex \subseteq Ids
    /\ blobQueue \in Seq(Keys) /\ blobs \subseteq Keys
    /\ DOMAIN cache \subseteq Triples /\ populated \in BOOLEAN
    /\ lock \in Workers \cup {"free"}
    /\ op \in [Workers -> Ops]

(* A document that the query of a deletion finds.                           *)
Picks(o, i) == i \in o.ids \/ (doc[i].box \in o.boxes /\ doc[i].content \in o.only)

(* A deletion of whole mailboxes.                                           *)
Whole(o) == o.kind \in {"mailbox", "account"}

(* What an operation carries with it from step to step.                     *)
OpInv(w, o) ==
    /\ o.ids \cup o.seen \subseteq Ids
    /\ o.kind = "ingest" => o.box \in Boxes /\ o.content \in Contents
    /\ o.kind = "ingest" /\ o.step = "finish" => \E n \in Ids : o.ids = {n} /\ doc[n].box = o.box /\ doc[n].content = o.content
    /\ Whole(o) => o.ids = {} /\ o.only = Contents
    /\ o.kind \in Deletions =>
          /\ \A i \in o.seen : Picks(o, i) /\ KeysOf(doc[i].content) \subseteq o.keys
          /\ held => o.early
    /\ o.kind \in Deletions /\ o.step = "cleanup" <=> lock = w
OpsInv == \A w \in Workers : OpInv(w, op[w])

(* While a deletion holds the writer nothing is added and not committed.    *)
WriterInv == lock # "free" => buffer = {}

Stored == blobs \cup Range(blobQueue)
Queued(o) == o.kind = "ingest" /\ o.step = "queue"

(* What refers to a key: a document, or a message about to become one.      *)
Needed(k) ==
    \/ \E i \in Live : k \in KeysOf(doc[i].content)
    \/ \E w \in Workers : Queued(op[w]) /\ k \in KeysOf(op[w].content)
Backed == \A k : Needed(k) => k \in Stored \cup lost
Owned == \A k \in Stored : Needed(k) \/ k \in leaked \/ (lock # "free" /\ k \in op[lock].keys)

(* A cache entry whose document is being deleted, by what will forget it.   *)
Leaving(o, t) ==
    /\ o.kind \in Deletions /\ o.step = "cleanup"
    /\ t \in Entries(o.seen) \/ (Whole(o) /\ t[1] \in o.boxes)
CacheInv ==
    \A t \in DOMAIN cache :
        \/ t \in Entries(Live) \/ t \in blind \/ t[1] \in failed
        \/ \E w \in Workers : Leaving(op[w], t)

(* A deletion that has removed the documents and not yet their attachments. *)
Clearing(o) == o.kind \in Deletions \ {"retention"} /\ o.step \in {"cleanup", "attach"}
AttachInv ==
    \A i \in attIndex \cup attQueue :
        i \in Live \/ i \in loose \/ \E w \in Workers : Clearing(op[w]) /\ Picks(op[w], i)

(* A deletion of mailboxes that has removed the rows and not the documents. *)
Emptying(o) == Whole(o) /\ o.step \in {"collect", "remove"}
BoxInv ==
    \A i \in Live :
        \/ doc[i].box \in rows \/ doc[i].box \in failed \/ i \in stray
        \/ \E w \in Workers : Emptying(op[w]) /\ doc[i].box \in op[w].boxes

IInv == TypeInv /\ OpsInv /\ WriterInv /\ Backed /\ Owned /\ CacheInv /\ AttachInv /\ BoxInv

-----------------------------------------------------------------------------
(* One worker moves on, the others stay where they are.                     *)
Moves(w) ==
    op' \in [Workers -> Ops] /\ \A v \in Workers : v # w => op'[v] = op[v]

(* A leaf that names no prover is Zenon's.                                  *)
USE ZenonT(20)

(* Do is such a move.                                                       *)
LEMMA DoMoves ==
    ASSUME TypeInv, NEW w \in Workers, NEW o \in Ops, Do(w, o)
    PROVE  Moves(w) /\ op'[w] = o
  BY DEF TypeInv, Do, Moves

(* So is Goto, and it changes the step only.                                *)
LEMMA GotoMoves ==
    ASSUME TypeInv, NEW w \in Workers, NEW s \in Steps, Goto(w, s)
    PROVE  Moves(w) /\ op'[w] = [op[w] EXCEPT !.step = s]
<1>1. op[w] \in Ops  BY DEF TypeInv
<1>2. [op[w] EXCEPT !.step = s] \in Ops  BY <1>1 DEF Ops
<1>3. op' = [op EXCEPT ![w] = [op[w] EXCEPT !.step = s]]  BY DEF Goto
<1> QED  BY <1>2, <1>3, DoMoves DEF Do

(* An operation that has not begun carries nothing.                         *)
LEMMA NoOpFacts ==
    /\ NoOp \in Ops /\ NoOp.kind = "none" /\ NoOp.step = "idle"
    /\ NoOp.ids = {} /\ NoOp.seen = {} /\ NoOp.boxes = {} /\ NoOp.only = {} /\ NoOp.keys = {}
  BY DEF NoOp, Ops, Kinds, Steps

(* A worker that ends leaves an operation that carries nothing.             *)
LEMMA EndMoves ==
    ASSUME TypeInv, NEW w \in Workers, End(w)
    PROVE  Moves(w) /\ op'[w] = NoOp
  BY DoMoves, NoOpFacts DEF End

(* The facts a worker carries do not depend on what another one does.       *)
LEMMA OthersKept ==
    ASSUME TypeInv, OpsInv, NEW w \in Workers, Moves(w),
           Len(doc) <= Len(doc'), Len(doc') \in Nat, \A i \in Ids : doc'[i] = doc[i],
           held' => held, \A v \in Workers : v # w => (lock' = v <=> lock = v),
           OpInv(w, op[w])'
    PROVE  OpsInv'
<1> SUFFICES ASSUME NEW v \in Workers PROVE OpInv(v, op[v])'  BY DEF OpsInv
<1>1. CASE v = w  BY <1>1
<1>2. CASE v # w
  <2>1. op'[v] = op[v] /\ OpInv(v, op[v])  BY <1>2 DEF Moves, OpsInv
  <2>2. Len(doc) \in Nat  BY SMTT(30) DEF TypeInv
  <2>3. Ids \subseteq Ids'  BY SMTT(30), <2>2 DEF Ids
  <2> QED  BY SMTT(30), <1>2, <2>1, <2>3 DEF OpInv, Picks, Whole
<1> QED  BY <1>1, <1>2

(* What documents hold.                                                     *)
LEMMA DocFacts ==
    ASSUME TypeInv
    PROVE  /\ Len(doc) \in Nat /\ Ids \subseteq Nat /\ Live \subseteq Ids
           /\ \A i \in Ids : /\ doc[i] \in Docs /\ doc[i].box \in Boxes /\ doc[i].content \in Contents
                             /\ KeysOf(doc[i].content) \subseteq Keys /\ Entry(i) \in Triples
<1>1. Len(doc) \in Nat /\ Ids \subseteq Nat /\ Live \subseteq Ids  BY SMTT(30) DEF TypeInv, Ids
<1>2. \A i \in Ids : doc[i] \in Docs  BY SMTT(30) DEF TypeInv, Ids
<1>3. \A i \in Ids : doc[i].box \in Boxes /\ doc[i].content \in Contents  BY <1>2 DEF Docs
<1> QED  BY <1>1, <1>2, <1>3 DEF Keys, Entry, Triples

(* A step of a worker that adds cache entries, queued blobs and queued      *)
(* attachments only with what they belong to.  The worker had neither       *)
(* removed documents nor queued content; rows of mailboxes go only when a   *)
(* deletion of them begins.                                                 *)
LEMMA QuietMove ==
    ASSUME IInv, NEW w \in Workers, Moves(w), OpInv(w, op[w])',
           UNCHANGED <<old, held, doc, indexes, attIndex, blobs, lock, lost, stray, failed>>,
           blobQueue' \in Seq(Keys), populated' \in BOOLEAN, rows' \subseteq Boxes,
           leaked \subseteq leaked', blind \subseteq blind', loose \subseteq loose',
           ~Queued(op[w]), ~Clearing(op[w]), lock # w,
           Emptying(op[w]) => Emptying(op'[w]) /\ op'[w].boxes = op[w].boxes,
           \A b \in rows \ rows' : Emptying(op'[w]) /\ b \in op'[w].boxes,
           Queued(op'[w]) => KeysOf(op'[w].content) \subseteq Stored',
           Stored \subseteq Stored', \A k \in Stored' \ Stored : Needed(k)' \/ k \in leaked',
           \A t \in DOMAIN cache' \ DOMAIN cache : t \in Triples /\ (t \in Entries(Live) \/ t \in blind'),
           \A i \in attQueue' \ attQueue : i \in Ids /\ (i \in Live \/ i \in loose')
    PROVE  IInv'
<1> USE DEF IInv
<1>0. Live' = Live /\ Ids' = Ids /\ doc' = doc  BY DEF Live, Ids, indexes
<1>1. TypeInv'
  <2>1. attQueue' \subseteq Ids /\ attIndex \subseteq Ids /\ Live \subseteq Ids  BY DEF TypeInv
  <2>2. DOMAIN cache' \subseteq Triples  BY DEF TypeInv
  <2> QED  BY <1>0, <2>1, <2>2 DEF TypeInv, Moves
<1>2. OpsInv'
  <2>1. Len(doc) \in Nat  BY SMTT(30) DEF TypeInv
  <2> QED  BY SMTT(30), <2>1, OthersKept
<1>3. WriterInv'  BY DEF WriterInv, indexes
<1>4. \A k : /\ Needed(k) => Needed(k)'
             /\ Needed(k)' => Needed(k) \/ (Queued(op'[w]) /\ k \in KeysOf(op'[w].content))
  BY <1>0 DEF Needed, Moves
<1>5. Backed'  BY <1>4 DEF Backed
<1>6. Owned'
  <2>1. lock # "free" => lock \in Workers /\ op'[lock] = op[lock]  BY DEF TypeInv, Moves
  <2> QED  BY <1>4, <2>1 DEF Owned
<1>7. CacheInv'
  <2>1. \A t : ~Leaving(op[w], t)  BY DEF OpsInv, OpInv, Leaving
  <2>2. Entries(Live)' = Entries(Live)  BY <1>0 DEF Entries, Entry
  <2>3. \A v \in Workers : \A t : Leaving(op[v], t) => Leaving(op[v], t)'
    BY SMTT(30), <1>0, <2>1 DEF Moves, Leaving, Entries, Entry, Whole
  <2> QED  BY <2>2, <2>3 DEF CacheInv
<1>8. AttachInv'  BY <1>0 DEF AttachInv, Moves, Picks
<1>9. BoxInv'
  BY <1>0 DEF BoxInv, Moves
<1> QED  BY <1>1, <1>2, <1>3, <1>5, <1>6, <1>7, <1>8, <1>9

(* The same of a step that leaves content, cache and attachments alone.     *)
LEMMA SilentMove ==
    ASSUME IInv, NEW w \in Workers, Moves(w), OpInv(w, op[w])',
           UNCHANGED <<old, held, doc, indexes, attachments, store, cache, lock, history>>,
           populated' \in BOOLEAN, rows' \subseteq Boxes,
           ~Queued(op[w]), ~Queued(op'[w]), ~Clearing(op[w]), lock # w,
           Emptying(op[w]) => Emptying(op'[w]) /\ op'[w].boxes = op[w].boxes,
           \A b \in rows \ rows' : Emptying(op'[w]) /\ b \in op'[w].boxes
    PROVE  IInv'
<1>1. Stored' = Stored /\ blobQueue' \in Seq(Keys)  BY DEF Stored, store, IInv, TypeInv
<1> QED  BY <1>1, QuietMove DEF history, attachments, store

(* An idle worker that begins an operation which is not a deletion.         *)
LEMMA StartKeeps ==
    ASSUME IInv, NEW w \in Workers, Idle(w), NEW o \in Ops, Do(w, o),
           o.kind \in {"ingest", "tags", "recover"}, o.step \notin {"queue", "finish"},
           o.kind = "ingest" => o.box \in Boxes /\ o.content \in Contents,
           o.ids \subseteq Ids, o.seen = {},
           UNCHANGED <<setting, doc, indexes, attachments, store, dedup, lock, history>>
    PROVE  IInv'
<1>1. Moves(w) /\ op'[w] = o  BY DoMoves DEF IInv
<1>2. ~Queued(op[w]) /\ ~Clearing(op[w]) /\ ~Emptying(op[w]) /\ ~Queued(op'[w])
  BY <1>1, NoOpFacts DEF Idle, Queued, Clearing, Emptying, Whole, Deletions
<1>3. lock # w  BY NoOpFacts DEF IInv, OpsInv, OpInv, Idle, Deletions
<1>4. OpInv(w, op[w])'  BY <1>1, <1>3 DEF OpInv, Whole, Deletions, Ids
<1>5. populated' \in BOOLEAN /\ rows' \subseteq Boxes /\ rows \ rows' = {}
  BY DEF IInv, TypeInv, setting, dedup
<1> QED  BY <1>1, <1>2, <1>3, <1>4, <1>5, SilentMove DEF setting, dedup

(* An idle worker that begins a deletion, with or without taking the rows   *)
(* of the mailboxes it is about.                                            *)
LEMMA BeginKeeps ==
    ASSUME IInv, NEW w \in Workers, Idle(w), ~held,
           NEW kind \in Deletions, NEW ids, NEW boxes \in SUBSET Boxes, NEW only \in SUBSET Contents,
           ids \subseteq Ids, kind \in {"mailbox", "account"} => ids = {} /\ only = Contents,
           Begin(w, kind, ids, boxes, only),
           UNCHANGED <<old, held, doc, indexes, attachments, store, dedup, lock, history>>,
           rows' \subseteq Boxes, \A b \in rows \ rows' : kind \in {"mailbox", "account"} /\ b \in boxes
    PROVE  IInv'
<1> DEFINE o == [NoOp EXCEPT !.kind = kind, !.step = "collect", !.ids = ids,
                             !.boxes = boxes, !.only = only]
<1>1. /\ o \in Ops /\ o.kind = kind /\ o.step = "collect" /\ o.ids = ids
      /\ o.boxes = boxes /\ o.only = only /\ o.seen = {}
  <2>1. ids \in SUBSET Nat  BY SMTT(30) DEF Ids
  <2> QED  BY <2>1 DEF NoOp, Ops, Kinds, Steps
<1>2. Do(w, o)  BY DEF Begin
<1> HIDE DEF o
<1>3. Moves(w) /\ op'[w] = o  BY <1>1, <1>2, DoMoves DEF IInv
<1>4. ~Queued(op[w]) /\ ~Clearing(op[w]) /\ ~Emptying(op[w]) /\ ~Queued(op'[w])
  BY <1>1, <1>3, NoOpFacts DEF Idle, Queued, Clearing, Emptying, Whole, Deletions
<1>5. lock # w  BY NoOpFacts DEF IInv, OpsInv, OpInv, Idle, Deletions
<1>6. OpInv(w, op[w])'  BY <1>1, <1>3, <1>5 DEF OpInv, Whole, Deletions, Ids
<1>7. populated' \in BOOLEAN  BY DEF IInv, TypeInv, dedup
<1>8. \A b \in rows \ rows' : Emptying(op'[w]) /\ b \in op'[w].boxes
  BY <1>1, <1>3 DEF Emptying, Whole
<1> QED  BY <1>3, <1>4, <1>5, <1>6, <1>7, <1>8, SilentMove DEF dedup

(* Every request that a worker takes up keeps the invariant.                *)
LEMMA RequestKeeps ==
    ASSUME IInv, NEW w \in Workers, Request(w)
    PROVE  IInv'
<1>0. index \subseteq Ids /\ Ids \subseteq Nat /\ rows \subseteq Boxes /\ old \subseteq Contents
  BY SMTT(30) DEF IInv, TypeInv, Live, Ids
<1>1. ASSUME NEW b \in Boxes, NEW c \in Contents, IngestStart(w, b, c) PROVE IInv'
  <2> DEFINE o == [NoOp EXCEPT !.kind = "ingest", !.step = "check", !.box = b, !.content = c]
  <2>1. /\ o \in Ops /\ o.kind = "ingest" /\ o.step = "check" /\ o.box = b /\ o.content = c
        /\ o.ids = {} /\ o.seen = {}
    BY DEF NoOp, Ops, Kinds, Steps
  <2>2. Do(w, o)  BY <1>1 DEF IngestStart
  <2> HIDE DEF o
  <2> QED  BY <1>1, <2>1, <2>2, StartKeeps DEF IngestStart
<1>2. ASSUME NEW i \in index, delete_messages_impl(w, i) PROVE IInv'
  <2>1. Begin(w, "messages", {i}, {}, {})  BY <1>2 DEF delete_messages_impl, delete_envelopes_multi_account
  <2>2. "messages" \in Deletions /\ {i} \subseteq Ids /\ rows' = rows  BY <1>0, <1>2 DEF Deletions, delete_messages_impl, setting
  <2> QED  BY SMTT(30), <1>0, <1>2, <2>1, <2>2, BeginKeeps DEF delete_messages_impl, setting
<1>3. ASSUME NEW i \in index, NEW kind \in {"tags", "recover"}, NEW step \in {"write", "store"}, Idle(w),
             Do(w, [NoOp EXCEPT !.kind = kind, !.step = step, !.ids = {i}]),
             UNCHANGED <<setting, doc, indexes, attachments, store, dedup, lock, history>>
      PROVE  IInv'
  <2> DEFINE o == [NoOp EXCEPT !.kind = kind, !.step = step, !.ids = {i}]
  <2>1. /\ o \in Ops /\ o.kind = kind /\ o.step = step /\ o.ids = {i} /\ o.seen = {}
    BY <1>0, <1>3 DEF NoOp, Ops, Kinds, Steps
  <2>2. Do(w, o)  BY <1>3
  <2> HIDE DEF o
  <2> QED  BY <1>0, <1>3, <2>1, <2>2, StartKeeps
<1>4. ASSUME NEW i \in index, TagRead(w, i) PROVE IInv'
  BY <1>3, <1>4 DEF TagRead
<1>5. ASSUME NEW i \in index, recover_message_blob(w, i) PROVE IInv'
  BY <1>3, <1>5 DEF recover_message_blob
<1>6. ASSUME NEW b \in Boxes, delete_mailbox_impl(w, b) PROVE IInv'
  <2>1. Begin(w, "mailbox", {}, Under[b] \cap rows, Contents)  BY <1>6 DEF delete_mailbox_impl, delete_mailbox_envelopes
  <2>2. "mailbox" \in Deletions /\ rows' = rows \ Under[b]  BY <1>6 DEF Deletions, delete_mailbox_impl
  <2> QED  BY SMTT(30), <1>0, <1>6, <2>1, <2>2, BeginKeeps DEF delete_mailbox_impl
<1>7. CASE cleanup(w)
  <2>1. Begin(w, "account", {}, Boxes, Contents)  BY <1>7 DEF cleanup, delete_account_envelopes
  <2>2. "account" \in Deletions /\ rows' = {}  BY <1>7 DEF Deletions, cleanup
  <2> QED  BY <1>0, <1>7, <2>1, <2>2, BeginKeeps DEF cleanup
<1>8. CASE retention_sweep(w)
  <2>1. Begin(w, "retention", {}, Boxes, old)  BY <1>8 DEF retention_sweep, delete_envelopes_before
  <2>2. "retention" \in Deletions /\ rows' = rows  BY <1>8 DEF Deletions, retention_sweep, setting
  <2> QED  BY SMTT(30), <1>0, <1>8, <2>1, <2>2, BeginKeeps DEF retention_sweep, setting
<1> QED
  BY <1>1, <1>2, <1>4, <1>5, <1>6, <1>7, <1>8
  DEF Request, reattach_eml_content_self_healing, repair_envelope_blobs

-----------------------------------------------------------------------------
(* A worker that changes its step and its documents keeps the rest.         *)
LEMMA EditMoves ==
    ASSUME TypeInv, NEW w \in Workers, NEW s \in Steps, NEW S \in SUBSET Nat,
           op' = [op EXCEPT ![w].step = s, ![w].ids = S]
    PROVE  /\ Moves(w) /\ op'[w].step = s /\ op'[w].ids = S
           /\ op'[w].kind = op[w].kind /\ op'[w].box = op[w].box /\ op'[w].content = op[w].content
           /\ op'[w].seen = op[w].seen
<1> DEFINE o == [op[w] EXCEPT !.step = s, !.ids = S]
<1>1. op[w] \in Ops  BY DEF TypeInv
<1>2. /\ o \in Ops /\ o.step = s /\ o.ids = S /\ o.kind = op[w].kind /\ o.box = op[w].box
      /\ o.content = op[w].content /\ o.seen = op[w].seen
  BY <1>1 DEF Ops
<1>3. op' = [op EXCEPT ![w] = o]  BY DEF TypeInv
<1> HIDE DEF o
<1> QED  BY <1>2, <1>3, DoMoves DEF Do

(* A worker that goes to another step keeps what it carries.                *)
LEMMA GotoKeeps ==
    ASSUME TypeInv, NEW w \in Workers, NEW s \in Steps, Goto(w, s)
    PROVE  /\ Moves(w) /\ op'[w].step = s /\ op'[w].kind = op[w].kind
           /\ op'[w].box = op[w].box /\ op'[w].content = op[w].content /\ op'[w].ids = op[w].ids
           /\ op'[w].boxes = op[w].boxes /\ op'[w].only = op[w].only /\ op'[w].keys = op[w].keys
           /\ op'[w].seen = op[w].seen /\ op'[w].early = op[w].early
<1>1. op[w] \in Ops  BY DEF TypeInv
<1>2. Moves(w) /\ op'[w] = [op[w] EXCEPT !.step = s]  BY GotoMoves
<1> QED  BY <1>1, <1>2 DEF Ops

(* A worker that ingests holds no writer and deletes nothing.               *)
LEMMA IngestIsQuiet ==
    ASSUME OpsInv, NEW w \in Workers, op[w].kind \in {"none", "ingest", "tags", "recover"}
    PROVE  lock # w /\ ~Clearing(op[w]) /\ ~Emptying(op[w]) /\ \A t : ~Leaving(op[w], t)
  BY DEF OpsInv, OpInv, Clearing, Emptying, Whole, Leaving, Deletions

(* Reading the index for the cache, and looking into the cache.             *)
LEMMA CheckKeeps ==
    ASSUME IInv, NEW w \in Workers, do_populate(w) \/ IngestCheck(w)
    PROVE  IInv'
<1>1. CASE do_populate(w)
  <2>1. index \in SUBSET Nat /\ index \subseteq Ids  BY SMTT(30) DEF IInv, TypeInv, Live, Ids
  <2>2. op' = [op EXCEPT ![w].step = "populate", ![w].ids = index] /\ "populate" \in Steps
    BY <1>1 DEF do_populate, Steps
  <2>3. /\ Moves(w) /\ op'[w].step = "populate" /\ op'[w].ids = index
        /\ op'[w].kind = op[w].kind /\ op'[w].box = op[w].box /\ op'[w].content = op[w].content
        /\ op'[w].seen = op[w].seen
    BY <2>1, <2>2, EditMoves DEF IInv
  <2>4. op[w].kind = "ingest" /\ op[w].step = "check"  BY <1>1 DEF do_populate, At
  <2>5. lock # w /\ ~Clearing(op[w]) /\ ~Emptying(op[w])  BY <2>4, IngestIsQuiet DEF IInv
  <2>6. doc' = doc /\ lock' = lock /\ held' = held /\ rows' = rows /\ populated' = TRUE
    BY <1>1 DEF do_populate, setting
  <2>7. OpInv(w, op[w])'
    BY <2>1, <2>3, <2>4, <2>5, <2>6 DEF OpInv, Whole, Deletions, Ids, IInv, OpsInv
  <2>8. ~Queued(op[w]) /\ ~Queued(op'[w]) /\ rows' \subseteq Boxes
    BY <2>3, <2>4, <2>6 DEF Queued, IInv, TypeInv
  <2> QED  BY <1>1, <2>3, <2>5, <2>6, <2>7, <2>8, SilentMove DEF do_populate, setting
<1>2. CASE IngestCheck(w)
  <2>1. op[w].kind = "ingest" /\ op[w].step = "check"  BY <1>2 DEF IngestCheck, At
  <2>2. lock # w /\ ~Clearing(op[w]) /\ ~Emptying(op[w])  BY <2>1, IngestIsQuiet DEF IInv
  <2>3. UNCHANGED <<setting, doc, indexes, attachments, store, dedup, lock, events, history>>
    BY <1>2 DEF IngestCheck
  <2>4. Moves(w) /\ OpInv(w, op[w])' /\ ~Queued(op'[w])
    <3>1. CASE Goto(w, "detach")
      <4>1. "detach" \in Steps  BY DEF Steps
      <4> QED  BY <2>1, <2>2, <2>3, <3>1, <4>1, GotoKeeps
               DEF OpInv, Whole, Deletions, Ids, IInv, OpsInv, Queued, setting
    <3>2. CASE End(w)
      BY <2>2, <2>3, <3>2, EndMoves, NoOpFacts DEF OpInv, Whole, Deletions, Ids, IInv, Queued, setting
    <3> QED  BY <1>2, <3>1, <3>2 DEF IngestCheck
  <2>5. ~Queued(op[w]) /\ rows' = rows /\ rows' \subseteq Boxes /\ populated' \in BOOLEAN
    BY <2>1, <2>3 DEF Queued, IInv, TypeInv, setting, dedup
  <2> QED  BY <2>2, <2>3, <2>4, <2>5, SilentMove DEF setting, dedup
<1> QED  BY <1>1, <1>2

(* The query of a deletion, and the keys of what it finds.                  *)
LEMMA CollectKeeps ==
    ASSUME IInv, NEW w \in Workers, collect_content_hashes(w)
    PROVE  IInv'
<1> DEFINE found == Match(w, index)
           o == [op[w] EXCEPT !.step = "remove", !.keys = DocKeys(found), !.seen = found]
<1>0. op[w] \in Ops /\ op[w].kind \in Deletions /\ op[w].step = "collect"
  BY DEF IInv, TypeInv, collect_content_hashes, At
<1>1. /\ found \subseteq Ids /\ found \subseteq Nat /\ DocKeys(found) \subseteq Keys
      /\ \A i \in found : Picks(op[w], i) /\ KeysOf(doc[i].content) \subseteq DocKeys(found)
  <2>1. index \subseteq Ids /\ Ids \subseteq Nat  BY SMTT(30) DEF IInv, TypeInv, Live, Ids
  <2>2. found \subseteq Ids /\ found \subseteq Nat /\ \A i \in found : Picks(op[w], i)
    BY <2>1 DEF Match, Picks
  <2>3. \A i \in Ids : doc[i].content \in Contents  BY DocFacts DEF IInv
  <2>4. DocKeys(found) \subseteq Keys  BY <2>2, <2>3 DEF DocKeys, Keys
  <2>5. \A i \in found : KeysOf(doc[i].content) \subseteq DocKeys(found)  BY DEF DocKeys
  <2> QED  BY <2>2, <2>4, <2>5
<1>2. lock # w /\ ~Clearing(op[w]) /\ ~Queued(op[w])
  BY <1>0 DEF IInv, OpsInv, OpInv, Clearing, Queued, Deletions
<1>3. UNCHANGED <<setting, doc, indexes, attachments, store, dedup, lock, events, history>>
  BY DEF collect_content_hashes
<1>4. /\ Moves(w) /\ OpInv(w, op[w])' /\ ~Queued(op'[w])
      /\ Emptying(op[w]) => Emptying(op'[w]) /\ op'[w].boxes = op[w].boxes
  <2>1. CASE op[w].kind = "retention" /\ End(w)
    BY <1>2, <1>3, <2>1, EndMoves, NoOpFacts
    DEF OpInv, Whole, Deletions, Ids, IInv, Queued, Emptying, setting
  <2>2. CASE op' = [op EXCEPT ![w].step = "remove", ![w].keys = DocKeys(found), ![w].seen = found]
    <3>1. /\ o \in Ops /\ o.kind = op[w].kind /\ o.step = "remove" /\ o.ids = op[w].ids
          /\ o.boxes = op[w].boxes /\ o.only = op[w].only /\ o.early = op[w].early
          /\ o.keys = DocKeys(found) /\ o.seen = found
      <4> HIDE DEF found
      <4> QED  BY <1>0, <1>1 DEF Ops, Steps
    <3>2. op' = [op EXCEPT ![w] = o]  BY <2>2 DEF IInv, TypeInv
    <3> HIDE DEF o, found
    <3>3. Moves(w) /\ op'[w] = o  BY <3>1, <3>2, DoMoves DEF IInv, Do
    <3>4. OpInv(w, op[w])'
      <4>1. doc' = doc /\ held' = held /\ lock' = lock  BY <1>3 DEF setting
      <4>2. \A i \in found : Picks(op[w], i)' /\ KeysOf(doc'[i].content) \subseteq op'[w].keys
        BY <1>1, <3>1, <3>3, <4>1 DEF Picks
      <4>3. OpInv(w, op[w])  BY DEF IInv, OpsInv
      <4> QED  BY <1>0, <1>1, <1>2, <3>1, <3>3, <4>1, <4>2, <4>3 DEF OpInv, Whole, Ids, Deletions
    <3> QED  BY <1>0, <3>1, <3>3, <3>4 DEF Queued, Emptying, Whole, Deletions
  <2> QED  BY <2>1, <2>2 DEF collect_content_hashes
<1>5. rows' = rows /\ rows' \subseteq Boxes /\ populated' \in BOOLEAN
  BY <1>3 DEF IInv, TypeInv, setting, dedup
<1> QED  BY <1>2, <1>3, <1>4, <1>5, SilentMove DEF setting, dedup

-----------------------------------------------------------------------------
(* The elements of two sequences, one after the other.                      *)
LEMMA RangeConcat ==
    ASSUME NEW S, NEW s \in Seq(S), NEW t \in Seq(S)
    PROVE  Range(s \o t) = Range(s) \cup Range(t)
<1>1. /\ Len(s) \in Nat /\ Len(t) \in Nat /\ Len(s \o t) = Len(s) + Len(t)
      /\ DOMAIN s = 1 .. Len(s) /\ DOMAIN t = 1 .. Len(t) /\ DOMAIN (s \o t) = 1 .. Len(s) + Len(t)
  BY SMTT(30)
<1>2. \A i \in 1 .. Len(s) + Len(t) : (s \o t)[i] = IF i <= Len(s) THEN s[i] ELSE t[i - Len(s)]
  BY SMTT(30)
<1>3. ASSUME NEW i \in DOMAIN (s \o t) PROVE (s \o t)[i] \in Range(s) \cup Range(t)
  <2>1. CASE i <= Len(s)  BY SMTT(30), <1>1, <1>2, <2>1 DEF Range
  <2>2. CASE ~(i <= Len(s))
    <3>1. i - Len(s) \in DOMAIN t /\ (s \o t)[i] = t[i - Len(s)]  BY SMTT(30), <1>1, <1>2, <2>2
    <3> QED  BY <3>1 DEF Range
  <2> QED  BY <2>1, <2>2
<1>4. ASSUME NEW i \in DOMAIN s PROVE s[i] \in Range(s \o t)
  <2>1. i \in DOMAIN (s \o t) /\ (s \o t)[i] = s[i]  BY SMTT(30), <1>1, <1>2
  <2> QED  BY <2>1 DEF Range
<1>5. ASSUME NEW i \in DOMAIN t PROVE t[i] \in Range(s \o t)
  <2>1. Len(s) + i \in DOMAIN (s \o t) /\ (s \o t)[Len(s) + i] = t[i]  BY SMTT(30), <1>1, <1>2
  <2> QED  BY <2>1 DEF Range
<1> QED  BY <1>3, <1>4, <1>5 DEF Range

(* What detach_and_store_attachments adds to the queue of the blob writer.  *)
LEMMA DetachFacts ==
    ASSUME TypeInv, NEW c \in Contents, Detach(c)
    PROVE  blobQueue' \in Seq(Keys) /\ Range(blobQueue') = Range(blobQueue) \cup KeysOf(c)
<1>1. Attached[c] \in Seq(Range(Attached[c]))  BY AttachedAssumption
<1>2. Range(Attached[c]) \subseteq Keys /\ c \in Keys  BY SMTT(30) DEF Keys, KeysOf
<1>3. Attached[c] \in Seq(Keys) /\ <<c>> \in Seq(Keys) /\ blobQueue \in Seq(Keys)
  <2>1. Attached[c] \in Seq(Keys)  BY SMTT(30), <1>1, <1>2
  <2> QED  BY SMTT(30), <1>2, <2>1 DEF TypeInv
<1>4. Range(<<c>>) = {c}  BY SMTT(30) DEF Range
<1> DEFINE q == blobQueue \o <<c>>
<1>5. q \in Seq(Keys) /\ Range(q) = Range(blobQueue) \cup {c}
  <2>1. q \in Seq(Keys)  BY SMTT(30), <1>3
  <2>2. Range(q) = Range(blobQueue) \cup Range(<<c>>)  BY <1>3, RangeConcat
  <2> QED  BY <1>4, <2>1, <2>2
<1> HIDE DEF q
<1>6. q \o Attached[c] \in Seq(Keys) /\ Range(q \o Attached[c]) = Range(blobQueue) \cup {c} \cup Range(Attached[c])
  <2>1. q \o Attached[c] \in Seq(Keys)  BY SMTT(30), <1>3, <1>5
  <2>2. Range(q \o Attached[c]) = Range(q) \cup Range(Attached[c])  BY SMTT(30), <1>3, <1>5, RangeConcat
  <2> QED  BY <1>5, <2>1, <2>2
<1>7. blobQueue' = q \o Attached[c]  BY DEF Detach, q
<1>8. KeysOf(c) = {c} \cup Range(Attached[c])  BY DEF KeysOf
<1> QED  BY <1>6, <1>7, <1>8

(* Loading the cache from what the index held.                              *)
LEMMA PopulatedKeeps ==
    ASSUME IInv, NEW w \in Workers, Populated(w)
    PROVE  IInv'
<1>1. op[w].kind = "ingest" /\ op[w].step = "populate"  BY DEF Populated, At
<1>2. lock # w /\ ~Clearing(op[w]) /\ ~Emptying(op[w])  BY <1>1, IngestIsQuiet DEF IInv
<1>3. OpInv(w, op[w])  BY DEF IInv, OpsInv
<1>4. PICK n \in 0 .. Len(doc) :
         /\ DOMAIN cache' = DOMAIN cache \cup Entries({i \in op[w].ids : i > n})
         /\ blind' = blind \cup Entries({i \in op[w].ids : i > n} \ Live)
  BY DEF Populated
<1> DEFINE recent == {i \in op[w].ids : i > n}
<1>5. op' = [op EXCEPT ![w].step = "check", ![w].ids = {}]  BY DEF Populated
<1>6. /\ Moves(w) /\ op'[w].step = "check" /\ op'[w].ids = {}
      /\ op'[w].kind = op[w].kind /\ op'[w].box = op[w].box /\ op'[w].content = op[w].content
      /\ op'[w].seen = op[w].seen
  <2>1. {} \in SUBSET Nat /\ "check" \in Steps  BY DEF Steps
  <2> QED  BY <1>5, <2>1, EditMoves DEF IInv
<1>7. /\ UNCHANGED <<rows, old, held, doc, indexes, attachments, store, populated, lock>>
      /\ UNCHANGED <<lost, leaked, loose, stray, failed>>
  BY DEF Populated, setting
<1>8. OpInv(w, op[w])'
  BY <1>1, <1>2, <1>3, <1>6, <1>7 DEF OpInv, Whole, Deletions, Ids
<1>9. \A t \in DOMAIN cache' \ DOMAIN cache : t \in Triples /\ (t \in Entries(Live) \/ t \in blind')
  <2> SUFFICES ASSUME NEW i \in recent
               PROVE  Entry(i) \in Triples /\ (Entry(i) \in Entries(Live) \/ Entry(i) \in blind')
    BY <1>4 DEF Entries
  <2>1. i \in Ids  BY <1>3 DEF OpInv
  <2>2. Entry(i) \in Triples  BY <2>1, DocFacts DEF IInv
  <2> QED  BY <1>4, <2>2 DEF Entries
<1>10. /\ Stored' = Stored /\ blobQueue' \in Seq(Keys) /\ populated' \in BOOLEAN /\ rows' \subseteq Boxes
       /\ attQueue' = attQueue
  BY <1>7 DEF Stored, store, attachments, IInv, TypeInv
<1>11. ~Queued(op[w]) /\ ~Queued(op'[w])  BY <1>1, <1>6 DEF Queued
<1> QED
  BY <1>2, <1>4, <1>6, <1>7, <1>8, <1>9, <1>10, <1>11, QuietMove DEF attachments, store

(* A message whose content is queued for the blob writer.                   *)
LEMMA DetachKeeps ==
    ASSUME IInv, NEW w \in Workers, IngestDetach(w)
    PROVE  IInv'
<1>1. op[w].kind = "ingest" /\ op[w].step = "detach"  BY DEF IngestDetach, At
<1>2. lock # w /\ ~Clearing(op[w]) /\ ~Emptying(op[w]) /\ ~Queued(op[w])
  BY <1>1, IngestIsQuiet DEF IInv, Queued
<1>3. OpInv(w, op[w]) /\ op[w].content \in Contents  BY <1>1 DEF IInv, OpsInv, OpInv
<1>4. blobQueue' \in Seq(Keys) /\ Range(blobQueue') = Range(blobQueue) \cup KeysOf(op[w].content)
  BY <1>3, DetachFacts DEF IngestDetach, IInv
<1>5. /\ UNCHANGED <<rows, old, held, doc, indexes, attachments, blobs, cache, populated, lock>>
      /\ UNCHANGED <<lost, leaked, blind, loose, stray, failed>>
  BY DEF IngestDetach, setting, dedup, history
<1>6. "queue" \in Steps /\ Goto(w, "queue")  BY DEF Steps, IngestDetach
<1>7. /\ Moves(w) /\ op'[w].step = "queue" /\ op'[w].kind = op[w].kind
      /\ op'[w].box = op[w].box /\ op'[w].content = op[w].content /\ op'[w].ids = op[w].ids
      /\ op'[w].seen = op[w].seen
  BY <1>6, GotoKeeps DEF IInv
<1>8. OpInv(w, op[w])'
  BY <1>1, <1>2, <1>3, <1>5, <1>7 DEF OpInv, Whole, Deletions, Ids
<1>9. Stored' = Stored \cup KeysOf(op[w].content)  BY <1>4, <1>5 DEF Stored
<1>10. \A k \in KeysOf(op[w].content) : Needed(k)'  BY <1>1, <1>7 DEF Needed, Queued
<1>11. populated' \in BOOLEAN /\ rows' \subseteq Boxes /\ attQueue' = attQueue /\ attIndex' = attIndex
  BY <1>5 DEF IInv, TypeInv, attachments
<1> QED  BY <1>2, <1>4, <1>5, <1>7, <1>8, <1>9, <1>10, <1>11, QuietMove

(* The content of a document that is fetched again.                         *)
LEMMA RecoverKeeps ==
    ASSUME IInv, NEW w \in Workers, RecoverStore(w)
    PROVE  IInv'
<1>1. op[w].kind = "recover" /\ op[w].step = "store"  BY DEF RecoverStore, At
<1>2. lock # w /\ ~Clearing(op[w]) /\ ~Emptying(op[w]) /\ ~Queued(op[w])
  BY <1>1, IngestIsQuiet DEF IInv, Queued
<1>3. Moves(w) /\ op'[w] = NoOp  BY EndMoves DEF IInv, RecoverStore
<1>4. /\ UNCHANGED <<rows, old, held, doc, indexes, attachments, blobs, cache, populated, lock>>
      /\ UNCHANGED <<lost, blind, loose, stray, failed>>
  BY DEF RecoverStore, setting, dedup
<1>5. OpInv(w, op[w])' /\ ~Queued(op'[w]) /\ ~Emptying(op'[w])
  BY <1>2, <1>3, <1>4, NoOpFacts DEF OpInv, Whole, Deletions, Ids, Queued, Emptying
<1>6. /\ blobQueue' \in Seq(Keys) /\ Stored \subseteq Stored' /\ leaked \subseteq leaked'
      /\ \A k \in Stored' \ Stored : Needed(k)' \/ k \in leaked'
  <2>1. ASSUME NEW i \in op[w].ids, Detach(doc[i].content),
               leaked' = IF i \in Live THEN leaked ELSE leaked \cup DocKeys({i})
        PROVE  /\ blobQueue' \in Seq(Keys) /\ Stored \subseteq Stored' /\ leaked \subseteq leaked'
               /\ \A k \in Stored' \ Stored : Needed(k)' \/ k \in leaked'
    <3>1. i \in Ids /\ doc[i].content \in Contents
      BY DocFacts DEF IInv, OpsInv, OpInv
    <3>2. blobQueue' \in Seq(Keys) /\ Range(blobQueue') = Range(blobQueue) \cup KeysOf(doc[i].content)
      BY <2>1, <3>1, DetachFacts DEF IInv
    <3>3. Stored' = Stored \cup KeysOf(doc[i].content)  BY <1>4, <3>2 DEF Stored
    <3>4. i \in Live => \A k \in KeysOf(doc[i].content) : Needed(k)'
      BY <1>4 DEF Needed, Live, indexes
    <3>5. DocKeys({i}) = KeysOf(doc[i].content)  BY DEF DocKeys
    <3> QED  BY <2>1, <3>2, <3>3, <3>4, <3>5
  <2>2. CASE UNCHANGED <<blobQueue, leaked>>
    BY <1>4, <2>2 DEF Stored, IInv, TypeInv
  <2> QED  BY <2>1, <2>2 DEF RecoverStore
<1>7. populated' \in BOOLEAN /\ rows' \subseteq Boxes /\ attQueue' = attQueue /\ attIndex' = attIndex
  BY <1>4 DEF IInv, TypeInv, attachments
<1> QED  BY <1>2, <1>3, <1>4, <1>5, <1>6, <1>7, QuietMove

(* DedupCache::insert adds the entry, or drops some.                        *)
LEMMA InsertFacts ==
    ASSUME NEW t, Insert(t)
    PROVE  DOMAIN cache' \subseteq DOMAIN cache \cup {t}
<1> DEFINE entries == [s \in DOMAIN cache \cup {t} |-> IF s = t THEN Len(doc) ELSE cache[s]]
<1>1. DOMAIN entries = DOMAIN cache \cup {t}  OBVIOUS
<1>2. PICK K \in Kept(entries) : cache' = [s \in K |-> entries[s]]  BY DEF Insert
<1> HIDE DEF entries
<1>3. K \subseteq DOMAIN entries  BY <1>2 DEF Kept
<1> QED  BY <1>1, <1>2, <1>3

(* A message whose document is queued: cache entry and attachments.         *)
LEMMA FinishKeeps ==
    ASSUME IInv, NEW w \in Workers, IngestFinish(w)
    PROVE  IInv'
<1>1. op[w].kind = "ingest" /\ op[w].step = "finish"  BY DEF IngestFinish, At
<1>2. lock # w /\ ~Clearing(op[w]) /\ ~Emptying(op[w]) /\ ~Queued(op[w])
  BY <1>1, IngestIsQuiet DEF IInv, Queued
<1>3. PICK n \in Ids : op[w].ids = {n} /\ doc[n].box = op[w].box /\ doc[n].content = op[w].content
  BY <1>1 DEF IInv, OpsInv, OpInv
<1>4. Moves(w) /\ op'[w] = NoOp  BY EndMoves DEF IInv, IngestFinish
<1>5. /\ UNCHANGED <<rows, old, held, doc, indexes, attIndex, store, populated, lock>>
      /\ UNCHANGED <<lost, leaked, stray, failed>>
  BY DEF IngestFinish, setting
<1>6. OpInv(w, op[w])' /\ ~Queued(op'[w]) /\ ~Emptying(op'[w])
  BY <1>2, <1>4, <1>5, NoOpFacts DEF OpInv, Whole, Deletions, Ids, Queued, Emptying
<1>7. DOMAIN cache' \subseteq DOMAIN cache \cup {Entry(n)}
  <2>1. Insert(Entry(n))  BY <1>3 DEF IngestFinish, Entry
  <2> QED  BY <2>1, InsertFacts
<1>8. Entry(n) \in Triples /\ (Entry(n) \in Entries(Live) \/ Entry(n) \in blind') /\ blind \subseteq blind'
  <2>1. Entry(n) \in Triples  BY <1>3, DocFacts DEF IInv
  <2>2. blind' = blind \cup Entries({n} \ Live)  BY <1>3 DEF IngestFinish
  <2> QED  BY <2>1, <2>2 DEF Entries
<1>9. \A i \in attQueue' \ attQueue : i \in Ids /\ (i \in Live \/ i \in loose')
  BY <1>3 DEF IngestFinish
<1>10. loose \subseteq loose'  BY DEF IngestFinish
<1>11. /\ Stored' = Stored /\ blobQueue' \in Seq(Keys) /\ populated' \in BOOLEAN /\ rows' \subseteq Boxes
       /\ blobs' = blobs
  BY <1>5 DEF Stored, store, IInv, TypeInv
<1> QED
  BY <1>2, <1>4, <1>5, <1>6, <1>7, <1>8, <1>9, <1>10, <1>11, QuietMove

(* A document joins the channel of the envelope writer.                     *)
LEMMA QueueKeeps ==
    ASSUME IInv, NEW w \in Workers, IngestQueue(w)
    PROVE  IInv'
<1> DEFINE n == Len(doc) + 1
<1>1. op[w].kind = "ingest" /\ op[w].step = "queue" /\ Queued(op[w])  BY DEF IngestQueue, At, Queued
<1>2. lock # w /\ ~Clearing(op[w]) /\ ~Emptying(op[w]) /\ \A t : ~Leaving(op[w], t)
  BY <1>1, IngestIsQuiet DEF IInv
<1>3. OpInv(w, op[w]) /\ op[w].box \in Boxes /\ op[w].content \in Contents
  BY <1>1 DEF IInv, OpsInv, OpInv
<1>4. Len(doc) \in Nat /\ n \in Nat /\ Live \subseteq Ids /\ attQueue \cup attIndex \subseteq Ids
  BY SMTT(30), DocFacts DEF IInv, TypeInv
<1>5. /\ doc' \in Seq(Docs) /\ Len(doc') = n /\ Ids' = Ids \cup {n} /\ n \notin Ids
      /\ \A i \in Ids : doc'[i] = doc[i]
      /\ doc'[n].box = op[w].box /\ doc'[n].content = op[w].content
  <2>1. [box |-> op[w].box, content |-> op[w].content] \in Docs  BY <1>3 DEF Docs
  <2>2. doc' = Append(doc, [box |-> op[w].box, content |-> op[w].content])  BY DEF IngestQueue
  <2>3. doc' \in Seq(Docs) /\ Len(doc') = n  BY SMTT(30), <2>1, <2>2 DEF IInv, TypeInv
  <2>4. \A i \in Ids : doc'[i] = doc[i]  BY SMTT(30), <2>1, <2>2 DEF IInv, TypeInv, Ids
  <2>5. doc'[n] = [box |-> op[w].box, content |-> op[w].content]  BY SMTT(30), <2>1, <2>2 DEF IInv, TypeInv
  <2>6. Ids' = Ids \cup {n} /\ n \notin Ids  BY SMTT(30), <1>4, <2>3 DEF Ids
  <2> QED  BY SMTT(30), <2>3, <2>4, <2>5, <2>6
<1>6. op' = [op EXCEPT ![w].step = "finish", ![w].ids = {n}]  BY DEF IngestQueue
<1>7. /\ queue' = queue \cup {n} /\ stray \subseteq stray' /\ (op[w].box \in rows \/ n \in stray')
      /\ UNCHANGED <<rows, old, held, buffer, index, attQueue, attIndex, blobQueue, blobs, cache, populated, lock>>
      /\ UNCHANGED <<lost, leaked, blind, loose, failed>>
  BY DEF IngestQueue, setting, attachments, store, dedup
<1> HIDE DEF n
<1>8. /\ Moves(w) /\ op'[w].step = "finish" /\ op'[w].ids = {n}
      /\ op'[w].kind = op[w].kind /\ op'[w].box = op[w].box /\ op'[w].content = op[w].content
      /\ op'[w].seen = op[w].seen
  <2>1. {n} \in SUBSET Nat /\ "finish" \in Steps  BY <1>4 DEF Steps
  <2> QED  BY <1>6, <2>1, EditMoves DEF IInv
<1>9. Live' = Live \cup {n}  BY <1>7 DEF Live
<1>10. TypeInv'  BY <1>4, <1>5, <1>7, <1>8, <1>9 DEF IInv, TypeInv, Moves
<1>11. OpInv(w, op[w])'
  BY SMTT(30), <1>1, <1>2, <1>3, <1>5, <1>7, <1>8 DEF OpInv, Whole, Deletions
<1>12. OpsInv'
  <2>1. Len(doc) <= Len(doc') /\ Len(doc') \in Nat  BY SMTT(30), <1>4, <1>5 DEF n
  <2> QED  BY <1>5, <1>7, <1>8, <1>11, <2>1, OthersKept DEF IInv
<1>13. WriterInv'  BY <1>7 DEF IInv, WriterInv
<1>14. \A k : Needed(k)' <=> Needed(k)
  <2>1. ~Queued(op'[w])  BY <1>8 DEF Queued
  <2>2. \A v \in Workers : v # w => op'[v] = op[v]  BY <1>8 DEF Moves
  <2>3. \A i \in Live : doc'[i] = doc[i]  BY <1>4, <1>5
  <2>4. ASSUME NEW k, Needed(k) PROVE Needed(k)'
    <3>1. CASE \E i \in Live : k \in KeysOf(doc[i].content)  BY <1>9, <2>3, <3>1 DEF Needed
    <3>2. CASE \E v \in Workers : Queued(op[v]) /\ k \in KeysOf(op[v].content)
      <4>1. PICK v \in Workers : Queued(op[v]) /\ k \in KeysOf(op[v].content)  BY <3>2
      <4>2. CASE v = w  BY <1>5, <1>9, <4>1, <4>2 DEF Needed
      <4>3. CASE v # w  BY <2>2, <4>1, <4>3 DEF Needed
      <4> QED  BY <4>2, <4>3
    <3> QED  BY <2>4, <3>1, <3>2 DEF Needed
  <2>5. ASSUME NEW k, Needed(k)' PROVE Needed(k)
    BY SMTT(30), <1>1, <1>5, <1>9, <2>1, <2>2, <2>3, <2>5 DEF Needed
  <2> QED  BY <2>4, <2>5
<1>15. Backed'  BY <1>7, <1>14 DEF IInv, Backed, Stored
<1>16. Owned'
  <2>1. lock # "free" => lock \in Workers /\ op'[lock] = op[lock]  BY <1>2, <1>8 DEF IInv, TypeInv, Moves
  <2> QED  BY <1>7, <1>14, <2>1 DEF IInv, Owned, Stored
<1>17. CacheInv'
  <2>1. Entries(Live) \subseteq Entries(Live)'  BY <1>4, <1>5, <1>9 DEF Entries, Entry
  <2>2. \A v \in Workers : \A t : Leaving(op[v], t) => Leaving(op[v], t)'
    <3> SUFFICES ASSUME NEW v \in Workers, NEW t, Leaving(op[v], t) PROVE Leaving(op[v], t)'  OBVIOUS
    <3>1. op'[v] = op[v] /\ op[v].seen \subseteq Ids  BY <1>2, <1>8 DEF Moves, IInv, OpsInv, OpInv
    <3> QED  BY <1>5, <3>1 DEF Leaving, Entries, Entry, Whole
  <2> QED  BY <1>7, <2>1, <2>2 DEF IInv, CacheInv
<1>18. AttachInv'  BY SMTT(30), <1>2, <1>4, <1>5, <1>7, <1>8, <1>9 DEF IInv, AttachInv, Moves, Picks
<1>19. BoxInv'
  <2> SUFFICES ASSUME NEW i \in Live'
               PROVE  \/ doc'[i].box \in rows' \/ doc'[i].box \in failed' \/ i \in stray'
                      \/ \E v \in Workers : Emptying(op'[v]) /\ doc'[i].box \in op'[v].boxes
    BY DEF BoxInv
  <2>1. CASE i = n  BY <1>5, <1>7, <2>1
  <2>2. CASE i \in Live  BY <1>2, <1>4, <1>5, <1>7, <1>8, <2>2 DEF IInv, BoxInv, Moves
  <2> QED  BY <1>9, <2>1, <2>2
<1> QED  BY <1>10, <1>12, <1>13, <1>15, <1>16, <1>17, <1>18, <1>19 DEF IInv

-----------------------------------------------------------------------------
(* The writers and the world outside.                                       *)

(* A step that no worker takes: documents move between the channel, the     *)
(* writer and the index, attachments and blobs likewise, a blob that is     *)
(* lost is on record, and rows are only added.                              *)
LEMMA WorldKeeps ==
    ASSUME IInv, UNCHANGED <<op, doc, lock, cache, populated, leaked, blind, loose, stray, failed>>,
           held' \in BOOLEAN, held' => held, rows \subseteq rows', rows' \subseteq Boxes, old' \subseteq Contents,
           Live' = Live, lock # "free" => buffer' = {},
           attQueue' \cup attIndex' = attQueue \cup attIndex,
           blobQueue' \in Seq(Keys), blobs' \subseteq Keys, Stored' \subseteq Stored,
           Stored \cup lost \subseteq Stored' \cup lost'
    PROVE  IInv'
<1>1. Ids' = Ids  BY DEF Ids
<1>2. TypeInv'
  <2>1. Live' \cup attQueue' \cup attIndex' \subseteq Ids  BY DEF IInv, TypeInv
  <2> QED  BY <1>1, <2>1 DEF IInv, TypeInv
<1>3. OpsInv'  BY SMTT(30), <1>1 DEF IInv, OpsInv, OpInv, Picks, Whole
<1>4. WriterInv'  BY DEF WriterInv
<1>5. \A k : Needed(k)' <=> Needed(k)  BY DEF Needed
<1>6. Backed' /\ Owned'  BY <1>5 DEF IInv, Backed, Owned
<1>7. CacheInv'  BY SMTT(30) DEF IInv, CacheInv, Entries, Entry, Leaving, Whole
<1>8. AttachInv'  BY DEF IInv, AttachInv, Picks
<1>9. BoxInv'  BY DEF IInv, BoxInv
<1> QED  BY <1>2, <1>3, <1>4, <1>6, <1>7, <1>8, <1>9 DEF IInv

(* The head of a queue, and the rest of it.                                 *)
LEMMA HeadFacts ==
    ASSUME TypeInv, blobQueue # <<>>
    PROVE  /\ Tail(blobQueue) \in Seq(Keys) /\ Head(blobQueue) \in Keys
           /\ Range(blobQueue) = {Head(blobQueue)} \cup Range(Tail(blobQueue))
<1>1. blobQueue \in Seq(Keys)  BY DEF TypeInv
<1>2. /\ Tail(blobQueue) \in Seq(Keys) /\ Head(blobQueue) \in Keys
      /\ Len(Tail(blobQueue)) = Len(blobQueue) - 1
      /\ \A i \in 1 .. Len(Tail(blobQueue)) : Tail(blobQueue)[i] = blobQueue[i + 1]
  BY SMTT(30), <1>1
<1>3. Len(blobQueue) \in Nat /\ Len(blobQueue) > 0 /\ Head(blobQueue) = blobQueue[1]
  BY SMTT(30), <1>1
<1>4. DOMAIN blobQueue = 1 .. Len(blobQueue) /\ DOMAIN Tail(blobQueue) = 1 .. Len(Tail(blobQueue))
  BY SMTT(30), <1>1, <1>2
<1>5. ASSUME NEW i \in DOMAIN blobQueue
      PROVE  blobQueue[i] \in {Head(blobQueue)} \cup Range(Tail(blobQueue))
  <2>1. CASE i = 1  BY <1>3, <2>1
  <2>2. CASE i # 1
    <3>1. i - 1 \in DOMAIN Tail(blobQueue) /\ Tail(blobQueue)[i - 1] = blobQueue[i]  BY SMTT(30), <1>2, <1>3, <1>4, <2>2
    <3> QED  BY <3>1 DEF Range
  <2> QED  BY <2>1, <2>2
<1>6. ASSUME NEW i \in DOMAIN Tail(blobQueue) PROVE Tail(blobQueue)[i] \in Range(blobQueue)
  <2>1. i + 1 \in DOMAIN blobQueue /\ Tail(blobQueue)[i] = blobQueue[i + 1]  BY SMTT(30), <1>2, <1>3, <1>4
  <2> QED  BY <2>1 DEF Range
<1>7. Head(blobQueue) \in Range(blobQueue)  BY SMTT(30), <1>3, <1>4 DEF Range
<1> QED  BY <1>2, <1>5, <1>6, <1>7 DEF Range

(* The background writers, and what changes outside, but for                *)
(* deduplication, holds and restarts.                                       *)
LEMMA BackgroundKeeps ==
    ASSUME IInv,
           \/ WriterTake \/ WriterCommit \/ AttachmentWriter \/ BlobWrite \/ BlobWriteFails
           \/ (\E b \in Boxes : CreateMailbox(b)) \/ (\E c \in Contents : Age(c)) \/ ReleaseHold
    PROVE  IInv'
<1>0. /\ rows \subseteq Boxes /\ old \subseteq Contents /\ held \in BOOLEAN
      /\ blobQueue \in Seq(Keys) /\ blobs \subseteq Keys /\ (lock # "free" => buffer = {})
  BY DEF IInv, TypeInv, WriterInv
<1>1. CASE WriterTake \/ WriterCommit
  <2>1. Live' = Live  BY <1>1 DEF WriterTake, WriterCommit, Live
  <2>2. Stored' = Stored  BY <1>1 DEF WriterTake, WriterCommit, Stored, store
  <2> QED  BY SMTT(30), <1>0, <1>1, <2>1, <2>2, WorldKeeps
           DEF WriterTake, WriterCommit, setting, attachments, store, dedup, history
<1>2. CASE AttachmentWriter
  <2>1. Live' = Live /\ buffer' = buffer  BY <1>2 DEF AttachmentWriter, Live, indexes
  <2>2. Stored' = Stored  BY <1>2 DEF AttachmentWriter, Stored, store
  <2>3. attQueue' \cup attIndex' = attQueue \cup attIndex  BY <1>2 DEF AttachmentWriter
  <2> QED  BY <1>0, <1>2, <2>1, <2>2, <2>3, WorldKeeps
           DEF AttachmentWriter, setting, store, dedup, history
<1>3. CASE BlobWrite \/ BlobWriteFails
  <2>1. Live' = Live /\ buffer' = buffer  BY <1>3 DEF BlobWrite, BlobWriteFails, Live, indexes
  <2>2. /\ Tail(blobQueue) \in Seq(Keys) /\ Head(blobQueue) \in Keys
        /\ Range(blobQueue) = {Head(blobQueue)} \cup Range(Tail(blobQueue))
    BY <1>3, HeadFacts DEF BlobWrite, BlobWriteFails, IInv
  <2>3. /\ blobQueue' \in Seq(Keys) /\ blobs' \subseteq Keys /\ Stored' \subseteq Stored
        /\ Stored \cup lost \subseteq Stored' \cup lost'
    BY <1>0, <1>3, <2>2 DEF BlobWrite, BlobWriteFails, Stored
  <2> QED  BY SMTT(30), <1>0, <1>3, <2>1, <2>3, WorldKeeps
           DEF BlobWrite, BlobWriteFails, setting, dedup, attachments
<1>4. CASE (\E b \in Boxes : CreateMailbox(b)) \/ (\E c \in Contents : Age(c)) \/ ReleaseHold
  <2>1. /\ UNCHANGED <<op, doc, indexes, attachments, store, dedup, lock, history>>
        /\ held' \in BOOLEAN /\ (held' => held) /\ rows \subseteq rows' /\ rows' \subseteq Boxes
        /\ old' \subseteq Contents
    <3>1. CASE \E b \in Boxes : CreateMailbox(b)  BY SMTT(30), <1>0, <3>1 DEF CreateMailbox
    <3>2. CASE \E c \in Contents : Age(c)  BY SMTT(30), <1>0, <3>2 DEF Age
    <3>3. CASE ReleaseHold  BY <1>0, <3>3 DEF ReleaseHold
    <3> QED  BY <1>4, <3>1, <3>2, <3>3
  <2>2. Live' = Live /\ Stored' = Stored /\ buffer' = buffer  BY <2>1 DEF Live, Stored, indexes, store
  <2> QED  BY <1>0, <2>1, <2>2, WorldKeeps DEF attachments, store, dedup, history
<1> QED  BY <1>1, <1>2, <1>3, <1>4

(* A legal hold marks the deletions that are under way.                     *)
LEMMA HoldKeeps ==
    ASSUME IInv, PlaceHold
    PROVE  IInv'
<1>1. /\ UNCHANGED <<rows, old, doc, queue, buffer, index, attQueue, attIndex, blobQueue, blobs, cache, populated, lock>>
      /\ UNCHANGED <<lost, leaked, blind, loose, stray, failed>> /\ held' = TRUE
  BY DEF PlaceHold, indexes, attachments, store, dedup, history
<1>2. Ids' = Ids /\ Live' = Live  BY <1>1 DEF Live, Ids
<1>3. op' = [w \in Workers |-> [op[w] EXCEPT !.early = Deletes(w)]]  BY DEF PlaceHold
<1>4. ASSUME NEW w \in Workers
      PROVE  /\ op'[w] \in Ops /\ op'[w].kind = op[w].kind /\ op'[w].step = op[w].step
             /\ op'[w].box = op[w].box /\ op'[w].content = op[w].content /\ op'[w].ids = op[w].ids
             /\ op'[w].boxes = op[w].boxes /\ op'[w].only = op[w].only /\ op'[w].keys = op[w].keys
             /\ op'[w].seen = op[w].seen /\ (op[w].kind \in Deletions => op'[w].early)
  <2>1. op[w] \in Ops  BY DEF IInv, TypeInv
  <2>2. op'[w] = [op[w] EXCEPT !.early = Deletes(w)]  BY <1>3
  <2>3. Deletes(w) \in BOOLEAN /\ (op[w].kind \in Deletions => Deletes(w))  BY SMTT(30) DEF Deletes
  <2> HIDE DEF Deletes
  <2> QED  BY <2>1, <2>2, <2>3 DEF Ops
<1>5. TypeInv'
  <2>1. op' \in [Workers -> Ops]  BY <1>3, <1>4
  <2> QED  BY <1>1, <1>2, <2>1 DEF IInv, TypeInv
<1>6. OpsInv'
  <2> SUFFICES ASSUME NEW w \in Workers PROVE OpInv(w, op[w])'  BY DEF OpsInv
  <2>1. OpInv(w, op[w])  BY DEF IInv, OpsInv
  <2> QED  BY SMTT(30), <1>1, <1>2, <1>4, <2>1 DEF OpInv, Picks, Whole
<1>7. WriterInv'  BY <1>1 DEF IInv, WriterInv
<1>8. \A k : Needed(k)' <=> Needed(k)  BY SMTT(30), <1>1, <1>2, <1>4 DEF Needed, Queued
<1>9. Backed'  BY <1>1, <1>8 DEF IInv, Backed, Stored
<1>10. Owned'
  <2>1. lock # "free" => op'[lock].keys = op[lock].keys  BY <1>4 DEF IInv, TypeInv
  <2> QED  BY <1>1, <1>8, <2>1 DEF IInv, Owned, Stored
<1>11. CacheInv'
  <2>1. Entries(Live) = Entries(Live)'  BY <1>1, <1>2 DEF Entries, Entry
  <2>2. \A v \in Workers : \A t : Leaving(op[v], t) => Leaving(op[v], t)'
    BY <1>1, <1>4 DEF Leaving, Entries, Entry, Whole
  <2> QED  BY <1>1, <2>1, <2>2 DEF IInv, CacheInv
<1>12. AttachInv'
  <2>1. \A v \in Workers : \A i : Clearing(op[v]) /\ Picks(op[v], i) => Clearing(op'[v]) /\ Picks(op[v], i)'
    BY <1>1, <1>4 DEF Clearing, Picks
  <2> QED  BY <1>1, <1>2, <2>1 DEF IInv, AttachInv
<1>13. BoxInv'
  <2>1. \A v \in Workers : Emptying(op[v]) => Emptying(op'[v]) /\ op'[v].boxes = op[v].boxes
    BY <1>4 DEF Emptying, Whole
  <2> QED  BY <1>1, <1>2, <2>1 DEF IInv, BoxInv
<1> QED  BY <1>5, <1>6, <1>7, <1>9, <1>10, <1>11, <1>12, <1>13 DEF IInv

(* The next process finds what was written and committed.                   *)
LEMMA RestartKeeps ==
    ASSUME IInv, Shutdown \/ Crash
    PROVE  IInv'
<1>1. /\ UNCHANGED <<rows, old, held, doc, attIndex, stray>>
      /\ blobs \subseteq blobs' /\ blobs' \subseteq Stored /\ blobQueue' = <<>> /\ Stored \subseteq blobs' \cup lost'
      /\ index \subseteq index' /\ index' \subseteq index \cup buffer /\ buffer' = {} /\ queue' = {}
      /\ attQueue' = {} /\ DOMAIN cache' = {} /\ populated' = FALSE
      /\ lock' = "free" /\ op' = [w \in Workers |-> NoOp] /\ lost \subseteq lost'
      /\ leaked' = leaked \cup (blobs' \ DocKeys(index')) /\ attIndex \ index' \subseteq loose'
      /\ failed' = failed \cup UNION {op[w].boxes : w \in Workers}
  <2>1. CASE Shutdown  BY <2>1 DEF Shutdown, Restart, setting, Stored
  <2>2. CASE Crash  BY <2>2 DEF Crash, Restart, setting, Stored
  <2> QED  BY <2>1, <2>2
<1>2. Ids' = Ids /\ Live' = index' /\ Live' \subseteq Live  BY <1>1 DEF Live, Ids
<1>3. \A w \in Workers : op'[w] = NoOp  BY <1>1
<1>4. TypeInv'
  <2>1. Live' \cup attQueue' \cup attIndex' \subseteq Ids  BY <1>1, <1>2 DEF IInv, TypeInv
  <2>2. op' \in [Workers -> Ops]  BY <1>1, NoOpFacts
  <2>3. Range(blobQueue) \subseteq Keys  BY SMTT(30) DEF IInv, TypeInv, Range
  <2>4. blobs' \subseteq Keys /\ blobQueue' \in Seq(Keys)  BY SMTT(30), <1>1, <2>3 DEF IInv, TypeInv, Stored
  <2> QED  BY <1>1, <1>2, <2>1, <2>2, <2>4 DEF IInv, TypeInv
<1>5. OpsInv'
  BY <1>1, <1>3, NoOpFacts, WorkersAssumption DEF OpsInv, OpInv, Whole, Deletions
<1>6. WriterInv'  BY <1>1 DEF WriterInv
<1>7. Stored' = blobs'
  <2>1. Range(<<>>) = {}  BY SMTT(30) DEF Range
  <2> QED  BY <1>1, <2>1 DEF Stored
<1>8. \A k : Needed(k)' <=> k \in DocKeys(index')
  <2>1. \A w \in Workers : ~Queued(op'[w])  BY <1>3, NoOpFacts DEF Queued
  <2> QED  BY <1>1, <1>2, <2>1 DEF Needed, DocKeys
<1>9. Backed'
  <2>1. \A k : Needed(k)' => Needed(k)  BY SMTT(30), <1>1, <1>2, <1>8 DEF Needed, DocKeys
  <2> QED  BY <1>1, <1>7, <2>1 DEF IInv, Backed
<1>10. Owned'  BY <1>1, <1>7, <1>8 DEF Owned
<1>11. CacheInv'  BY <1>1 DEF CacheInv
<1>12. AttachInv'  BY <1>1, <1>2 DEF AttachInv
<1>13. BoxInv'
  <2>1. \A w \in Workers : op[w].boxes \subseteq failed'  BY <1>1
  <2> QED  BY <1>1, <1>2, <2>1 DEF IInv, BoxInv
<1> QED  BY <1>4, <1>5, <1>6, <1>9, <1>10, <1>11, <1>12, <1>13 DEF IInv

(* A process starts with an archive in which everything resolves.           *)
LEMMA InitHolds == Init => IInv
<1> SUFFICES ASSUME Init PROVE IInv  OBVIOUS
<1>1. doc \in Seq(Docs) /\ Archived \in Nat
  <2>1. Archived \in Nat  BY BoundsAssumption
  <2>2. doc \in [1 .. Archived -> Docs]  BY DEF Init, Docs
  <2> QED  BY SMTT(30), <2>1, <2>2
<1>2. Live = Ids /\ op = [w \in Workers |-> NoOp] /\ lock = "free"  BY DEF Init, Live
<1>3. \A i \in Ids : doc[i].content \in Contents /\ doc[i].box \in Boxes
  <2>1. \A i \in Ids : doc[i] \in Docs  BY SMTT(30), <1>1 DEF Ids
  <2> QED  BY <2>1 DEF Docs
<1>4. TypeInv
  <2>1. blobs \subseteq Keys
    <3>1. \A i \in Ids : KeysOf(doc[i].content) \subseteq Keys  BY <1>3 DEF Keys
    <3> QED  BY <3>1 DEF Init, DocKeys
  <2>2. op \in [Workers -> Ops]  BY <1>2, NoOpFacts
  <2>3. attIndex \cup attQueue \subseteq Ids  BY DEF Init
  <2>4. rows \subseteq Boxes /\ old \subseteq Contents /\ held \in BOOLEAN /\ populated \in BOOLEAN
    BY DEF Init
  <2>5. DOMAIN cache \subseteq Triples /\ blobQueue \in Seq(Keys)  BY SMTT(30) DEF Init
  <2> QED  BY <1>1, <1>2, <2>1, <2>2, <2>3, <2>4, <2>5 DEF TypeInv
<1>5. \A w \in Workers : op[w] = NoOp  BY <1>2
<1>6. OpsInv
  BY <1>2, <1>5, NoOpFacts, WorkersAssumption DEF OpsInv, OpInv, Whole, Deletions
<1>7. Stored = DocKeys(Ids)
  <2>1. Range(<<>>) = {}  BY SMTT(30) DEF Range
  <2> QED  BY <2>1 DEF Init, Stored
<1>8. \A k : Needed(k) <=> k \in DocKeys(Ids)
  <2>1. \A w \in Workers : ~Queued(op[w])  BY <1>5, NoOpFacts DEF Queued
  <2> QED  BY <1>2, <2>1 DEF Needed, DocKeys
<1>9. Backed /\ Owned  BY <1>7, <1>8 DEF Backed, Owned
<1>10. WriterInv /\ CacheInv  BY DEF Init, WriterInv, CacheInv
<1>11. AttachInv  BY <1>2 DEF Init, AttachInv
<1>12. BoxInv  BY <1>2, <1>3 DEF Init, BoxInv
<1> QED  BY <1>4, <1>6, <1>9, <1>10, <1>11, <1>12 DEF IInv

(* The steps of a deletion, from the writer on.                             *)

(* What a deletion knows of its query.                                      *)
LEMMA DeletionFacts ==
    ASSUME IInv, NEW w \in Workers, op[w].kind \in Deletions
    PROVE  /\ op[w] \in Ops /\ ~Queued(op[w]) /\ op[w].ids \cup op[w].seen \subseteq Ids
           /\ op[w].boxes \subseteq Boxes
           /\ Whole(op[w]) => op[w].ids = {} /\ op[w].only = Contents
           /\ \A i \in op[w].seen : Picks(op[w], i) /\ KeysOf(doc[i].content) \subseteq op[w].keys
           /\ held => op[w].early
           /\ op[w].step = "cleanup" <=> lock = w
           /\ \A S : Match(w, S) = {i \in S : Picks(op[w], i)}
<1>1. op[w] \in Ops  BY DEF IInv, TypeInv
<1>2. OpInv(w, op[w])  BY DEF IInv, OpsInv
<1>3. op[w].boxes \subseteq Boxes  BY <1>1 DEF Ops
<1>4. \A S : Match(w, S) = {i \in S : Picks(op[w], i)}  BY DEF Match, Picks
<1> QED  BY <1>1, <1>2, <1>3, <1>4 DEF OpInv, Queued, Deletions

(* The last step of a deletion of messages or of a mailbox.                 *)
LEMMA DeleteAttachmentsKeeps ==
    ASSUME IInv, NEW w \in Workers, DeleteAttachments(w)
    PROVE  IInv'
<1>1. op[w].kind \in Deletions /\ op[w].step = "attach"  BY DEF DeleteAttachments, At
<1>2. /\ ~Queued(op[w]) /\ lock # w /\ \A S : Match(w, S) = {i \in S : Picks(op[w], i)}
  BY <1>1, DeletionFacts
<1>3. ~Emptying(op[w]) /\ \A t : ~Leaving(op[w], t)  BY <1>1 DEF Emptying, Leaving
<1>4. Moves(w) /\ op'[w] = NoOp  BY EndMoves DEF IInv, DeleteAttachments
<1>5. /\ UNCHANGED <<rows, old, held, doc, queue, buffer, index, attQueue, blobQueue, blobs, cache, populated, lock>>
      /\ UNCHANGED <<lost, leaked, blind, stray, failed>>
      /\ attIndex' = attIndex \ Match(w, attIndex) /\ loose' = loose \cup Match(w, attQueue)
  BY DEF DeleteAttachments, setting, indexes, store, dedup
<1>6. Live' = Live /\ Ids' = Ids  BY <1>5 DEF Live, Ids
<1>7. OpInv(w, op[w])' /\ ~Queued(op'[w]) /\ ~Emptying(op'[w])
  BY <1>2, <1>4, <1>5, NoOpFacts DEF OpInv, Whole, Deletions, Ids, Queued, Emptying
<1>8. TypeInv'
  BY <1>4, <1>5, <1>6 DEF IInv, TypeInv, Moves
<1>9. OpsInv'
  <2>1. Len(doc) \in Nat  BY DocFacts DEF IInv
  <2> QED  BY SMTT(30), <1>4, <1>5, <1>7, <2>1, OthersKept DEF IInv
<1>10. WriterInv'  BY <1>5 DEF IInv, WriterInv
<1>11. \A k : Needed(k)' <=> Needed(k)  BY <1>2, <1>4, <1>5, <1>6, <1>7 DEF Needed, Moves
<1>12. Backed'  BY <1>5, <1>11 DEF IInv, Backed, Stored
<1>13. Owned'
  <2>1. lock # "free" => lock \in Workers /\ op'[lock] = op[lock]  BY <1>2, <1>4 DEF IInv, TypeInv, Moves
  <2> QED  BY <1>5, <1>11, <2>1 DEF IInv, Owned, Stored
<1>14. CacheInv'  BY SMTT(30), <1>3, <1>4, <1>5, <1>6 DEF IInv, CacheInv, Moves, Leaving, Entries, Entry, Whole
<1>15. AttachInv'  BY SMTT(30), <1>2, <1>4, <1>5, <1>6 DEF IInv, AttachInv, Moves, Picks
<1>16. BoxInv'  BY <1>3, <1>4, <1>5, <1>6 DEF IInv, BoxInv, Moves
<1> QED  BY <1>8, <1>9, <1>10, <1>12, <1>13, <1>14, <1>15, <1>16 DEF IInv

(* A deletion that is cut short, wherever it is.                            *)
LEMMA AbortKeeps ==
    ASSUME IInv, NEW w \in Workers, Abort(w)
    PROVE  IInv'
<1>1. op[w].kind \in Deletions  BY DEF Abort, Deletes
<1>2. /\ ~Queued(op[w]) /\ \A S : Match(w, S) = {i \in S : Picks(op[w], i)}
      /\ op[w].ids \cup op[w].seen \subseteq Ids /\ \A i \in op[w].seen : Picks(op[w], i)
  BY <1>1, DeletionFacts
<1>3. Moves(w) /\ op'[w] = NoOp  BY EndMoves DEF IInv, Abort
<1>4. /\ UNCHANGED <<rows, old, held, doc, queue, buffer, index, attIndex, attQueue, blobQueue, blobs, cache, populated>>
      /\ UNCHANGED <<lost, blind, stray>> /\ lock' = IF lock = w THEN "free" ELSE lock
      /\ failed' = failed \cup op[w].boxes \cup {doc[i].box : i \in op[w].ids}
      /\ leaked' = IF lock = w THEN leaked \cup op[w].keys ELSE leaked
      /\ loose' = loose \cup Match(w, Ids)
  BY DEF Abort, setting, indexes, store, dedup, attachments
<1>5. Live' = Live /\ Ids' = Ids  BY <1>4 DEF Live, Ids
<1>6. w # "free"  BY WorkersAssumption
<1>7. OpInv(w, op[w])' /\ ~Queued(op'[w]) /\ ~Emptying(op'[w])
  BY <1>3, <1>4, <1>6, NoOpFacts DEF OpInv, Whole, Deletions, Ids, Queued, Emptying
<1>8. TypeInv'  BY <1>3, <1>4, <1>5 DEF IInv, TypeInv, Moves
<1>9. OpsInv'
  <2>1. Len(doc) \in Nat  BY DocFacts DEF IInv
  <2>2. \A v \in Workers : v # w => (lock' = v <=> lock = v)  BY <1>4, WorkersAssumption
  <2> QED  BY SMTT(30), <1>3, <1>4, <1>7, <2>1, <2>2, OthersKept DEF IInv
<1>10. WriterInv'  BY <1>4 DEF IInv, WriterInv
<1>11. \A k : Needed(k)' <=> Needed(k)  BY <1>2, <1>3, <1>4, <1>5, <1>7 DEF Needed, Moves
<1>12. Backed'  BY <1>4, <1>11 DEF IInv, Backed, Stored
<1>13. Owned'
  <2>1. lock # "free" /\ lock # w => lock \in Workers /\ op'[lock] = op[lock]  BY <1>3 DEF IInv, TypeInv, Moves
  <2> QED  BY <1>4, <1>11, <2>1 DEF IInv, Owned, Stored
<1>14. CacheInv'
  <2>1. \A i : Picks(op[w], i) => doc[i].box \in failed'  BY <1>4 DEF Picks
  <2>2. \A t : Leaving(op[w], t) => t[1] \in failed'
    <3> SUFFICES ASSUME NEW t, Leaving(op[w], t) PROVE t[1] \in failed'  OBVIOUS
    <3>1. CASE t \in Entries(op[w].seen)
      <4>1. PICK i \in op[w].seen : t = Entry(i)  BY <3>1 DEF Entries
      <4> QED  BY <1>2, <2>1, <4>1 DEF Entry
    <3>2. CASE t[1] \in op[w].boxes  BY <1>4, <3>2
    <3> QED  BY <3>1, <3>2 DEF Leaving
  <2>3. Entries(Live)' = Entries(Live)  BY <1>4, <1>5 DEF Entries, Entry
  <2>4. \A v \in Workers : \A t : v # w /\ Leaving(op[v], t) => Leaving(op[v], t)'
    BY <1>3, <1>4 DEF Moves, Leaving, Entries, Entry, Whole
  <2> QED  BY <1>4, <2>2, <2>3, <2>4 DEF IInv, CacheInv
<1>15. AttachInv'
  <2>1. attIndex \cup attQueue \subseteq Ids  BY DEF IInv, TypeInv
  <2> QED  BY SMTT(30), <1>2, <1>3, <1>4, <1>5, <2>1 DEF IInv, AttachInv, Moves, Picks
<1>16. BoxInv'  BY <1>3, <1>4, <1>5 DEF IInv, BoxInv, Moves
<1> QED  BY <1>8, <1>9, <1>10, <1>12, <1>13, <1>14, <1>15, <1>16 DEF IInv

(* The documents that match go, with the writer held from here on.          *)
LEMMA RemoveDocsKeeps ==
    ASSUME IInv, NEW w \in Workers, RemoveDocs(w)
    PROVE  IInv'
<1> DEFINE gone == Match(w, index \cup buffer)
           rest == (index \cup buffer) \ gone
<1>1. op[w].kind \in Deletions /\ op[w].step = "remove" /\ lock = "free"  BY DEF RemoveDocs, At
<1>2. /\ ~Queued(op[w]) /\ \A S : Match(w, S) = {i \in S : Picks(op[w], i)}
      /\ \A i \in op[w].seen : Picks(op[w], i) /\ KeysOf(doc[i].content) \subseteq op[w].keys
      /\ Whole(op[w]) => op[w].ids = {} /\ op[w].only = Contents
  BY <1>1, DeletionFacts
<1>3. /\ UNCHANGED <<rows, old, held, doc, queue, attIndex, attQueue, blobQueue, blobs, cache, populated>>
      /\ UNCHANGED <<lost, failed>> /\ lock' = w /\ buffer' = {} /\ index' = rest
      /\ leaked' = leaked \cup (DocKeys(gone \ op[w].seen) \ DocKeys(rest \cup queue))
      /\ blind' = IF Whole(op[w]) THEN blind ELSE blind \cup (Entries(gone) \ Entries(op[w].seen))
      /\ loose' = IF op[w].kind = "retention" THEN loose \cup gone ELSE loose
      /\ stray' = IF Whole(op[w]) THEN stray \cup Match(w, queue) ELSE stray
  BY DEF RemoveDocs, setting, store, dedup, attachments, Whole
<1>4. /\ gone = {i \in index \cup buffer : Picks(op[w], i)}
      /\ Live' = rest \cup queue /\ Live = gone \cup rest \cup queue /\ Ids' = Ids
  <2>1. gone = {i \in index \cup buffer : Picks(op[w], i)}  BY <1>2
  <2> QED  BY <1>3, <2>1 DEF Live, Ids
<1> HIDE DEF gone, rest
<1>5. w # "free" /\ \A v \in Workers : lock # v  BY <1>1, WorkersAssumption
<1>6. /\ Moves(w) /\ op'[w].step = "cleanup" /\ op'[w].kind = op[w].kind /\ op'[w].ids = op[w].ids
      /\ op'[w].boxes = op[w].boxes /\ op'[w].only = op[w].only /\ op'[w].keys = op[w].keys
      /\ op'[w].seen = op[w].seen /\ op'[w].early = op[w].early
  <2>1. "cleanup" \in Steps /\ Goto(w, "cleanup")  BY DEF Steps, RemoveDocs
  <2> QED  BY <2>1, GotoKeeps DEF IInv
<1>7. OpInv(w, op[w])' /\ ~Queued(op'[w])
  <2>1. OpInv(w, op[w])  BY DEF IInv, OpsInv
  <2> QED  BY <1>1, <1>3, <1>4, <1>6, <2>1 DEF OpInv, Picks, Whole, Deletions, Queued
<1>8. TypeInv'
  <2>1. Live' \cup attQueue \cup attIndex \subseteq Ids  BY <1>4 DEF IInv, TypeInv
  <2> QED  BY <1>3, <1>4, <1>6, <2>1 DEF IInv, TypeInv, Moves
<1>9. OpsInv'
  <2>1. Len(doc) \in Nat  BY DocFacts DEF IInv
  <2> QED  BY SMTT(30), <1>3, <1>5, <1>6, <1>7, <2>1, OthersKept DEF IInv
<1>10. WriterInv'  BY <1>3 DEF WriterInv
<1>11. \A k : Needed(k)' => Needed(k)  BY <1>3, <1>4, <1>6, <1>7 DEF Needed, Moves
<1>12. Backed'  BY <1>3, <1>11 DEF IInv, Backed, Stored
<1>13. Owned'
  <2>1. ASSUME NEW k, Needed(k) PROVE Needed(k)' \/ k \in leaked' \/ k \in op'[w].keys
    <3>1. CASE \E v \in Workers : Queued(op[v]) /\ k \in KeysOf(op[v].content)
      BY <1>2, <1>6, <3>1 DEF Needed, Moves
    <3>2. CASE \E i \in rest \cup queue : k \in KeysOf(doc[i].content)
      BY <1>3, <1>4, <3>2 DEF Needed
    <3>3. ASSUME NEW i \in gone, k \in KeysOf(doc[i].content), k \notin DocKeys(rest \cup queue)
          PROVE  k \in leaked' \/ k \in op'[w].keys
      <4>1. CASE i \in op[w].seen  BY <1>2, <1>6, <3>3, <4>1
      <4>2. CASE i \notin op[w].seen
        <5>1. k \in DocKeys(gone \ op[w].seen)  BY <3>3, <4>2 DEF DocKeys
        <5> QED  BY <1>3, <3>3, <5>1
      <4> QED  BY <4>1, <4>2
    <3>4. k \in DocKeys(rest \cup queue) => \E i \in rest \cup queue : k \in KeysOf(doc[i].content)
      BY DEF DocKeys
    <3> QED  BY <1>4, <2>1, <3>1, <3>2, <3>3, <3>4 DEF Needed
  <2>2. leaked \subseteq leaked' /\ Stored' = Stored  BY <1>3 DEF Stored
  <2> QED  BY <1>1, <1>3, <1>5, <2>1, <2>2 DEF IInv, Owned
<1>14. CacheInv'
  <2>1. ASSUME NEW t, t \in Entries(Live)
        PROVE  t \in Entries(Live)' \/ t \in blind' \/ Leaving(op[w], t)'
    <3>1. PICK i \in Live : t = Entry(i)  BY <2>1 DEF Entries
    <3>2. CASE i \in Live'  BY <1>3, <3>1, <3>2 DEF Entries, Entry
    <3>3. CASE i \in gone /\ Whole(op[w])
      <4>1. doc[i].box \in op[w].boxes  BY <1>2, <1>4, <3>3 DEF Picks
      <4>2. t[1] \in op'[w].boxes  BY <1>6, <3>1, <4>1 DEF Entry
      <4> QED  BY <1>1, <1>6, <3>3, <4>2 DEF Leaving, Whole
    <3>4. CASE i \in gone /\ ~Whole(op[w])
      <4>1. t \in Entries(gone)  BY <3>1, <3>4 DEF Entries
      <4>2. CASE t \in Entries(op[w].seen)
        <5>1. t \in Entries(op[w].seen)'  BY <1>3, <1>6, <4>2 DEF Entries, Entry
        <5> QED  BY <1>1, <1>6, <5>1 DEF Leaving
      <4> QED  BY <1>3, <3>4, <4>1, <4>2
    <3> QED  BY <1>4, <3>2, <3>3, <3>4
  <2>2. \A v \in Workers : \A t : ~Leaving(op[v], t)
    BY <1>5 DEF IInv, OpsInv, OpInv, Leaving
  <2>3. blind \subseteq blind'  BY <1>3
  <2> QED  BY <1>3, <2>1, <2>2, <2>3 DEF IInv, CacheInv
<1>15. AttachInv'
  <2>1. \A i \in gone : i \in loose' \/ (Clearing(op'[w]) /\ Picks(op[w], i)')
    BY <1>1, <1>3, <1>4, <1>6 DEF Clearing, Picks
  <2>2. ~Clearing(op[w]) /\ loose \subseteq loose'  BY <1>1, <1>3 DEF Clearing
  <2> QED  BY SMTT(30), <1>3, <1>4, <1>6, <2>1, <2>2 DEF IInv, AttachInv, Moves, Picks
<1>16. BoxInv'
  <2> SUFFICES ASSUME NEW i \in Live'
               PROVE  \/ doc'[i].box \in rows' \/ doc'[i].box \in failed' \/ i \in stray'
                      \/ \E v \in Workers : Emptying(op'[v]) /\ doc'[i].box \in op'[v].boxes
    BY DEF BoxInv
  <2>1. i \in Live /\ i \in Ids /\ doc[i].content \in Contents  BY <1>4, DocFacts DEF IInv
  <2>2. CASE Whole(op[w]) /\ doc[i].box \in op[w].boxes
    <3>1. Picks(op[w], i)  BY <1>2, <2>1, <2>2 DEF Picks
    <3>2. i \in queue  BY <1>4, <3>1 DEF rest
    <3> QED  BY <1>2, <1>3, <2>2, <3>1, <3>2
  <2>3. CASE ~(Whole(op[w]) /\ doc[i].box \in op[w].boxes)
    <3>1. stray \subseteq stray'  BY <1>3
    <3> QED  BY <1>3, <1>6, <2>1, <2>3, <3>1 DEF IInv, BoxInv, Moves, Emptying
  <2> QED  BY <2>2, <2>3
<1> QED  BY <1>8, <1>9, <1>10, <1>12, <1>13, <1>14, <1>15, <1>16 DEF IInv

(* Blobs that no committed document refers to go, then the writer.          *)
LEMMA CleanupKeeps ==
    ASSUME IInv, NEW w \in Workers, cleanup_unused_content(w)
    PROVE  IInv'
<1> DEFINE unused == Unused(op[w].keys)
<1>1. op[w].kind \in Deletions /\ op[w].step = "cleanup" /\ lock = w
  BY DeletionFacts DEF cleanup_unused_content, At
<1>2. /\ ~Queued(op[w]) /\ \A i \in op[w].seen : Picks(op[w], i)
      /\ Whole(op[w]) => op[w].ids = {}
  BY <1>1, DeletionFacts
<1>3. /\ UNCHANGED <<rows, old, held, doc, queue, buffer, index, attQueue, blobQueue, populated>>
      /\ UNCHANGED <<blind, stray, failed>> /\ lock' = "free"
      /\ blobs' = blobs \ unused
      /\ lost' = lost \cup ((unused \cap Underway) \ Range(blobQueue))
      /\ leaked' = (leaked \ unused) \cup (unused \cap Range(blobQueue))
      /\ IF op[w].kind = "account" THEN attIndex' = {} /\ loose' = loose \cup attQueue
         ELSE UNCHANGED <<attIndex, loose>>
  BY DEF cleanup_unused_content, setting, indexes
<1>4. Live' = Live /\ Ids' = Ids  BY <1>3 DEF Live, Ids
<1>5. w # "free" /\ buffer = {}  BY <1>1, WorkersAssumption DEF IInv, WriterInv
<1>6. DOMAIN cache' = {t \in DOMAIN cache : IF Whole(op[w]) THEN t[1] \notin op[w].boxes
                                            ELSE t \notin Entries(op[w].seen)}
  BY DEF cleanup_unused_content, Forget, Whole
<1>7. /\ Moves(w) /\ OpInv(w, op[w])' /\ ~Queued(op'[w]) /\ ~Emptying(op'[w])
      /\ op[w].kind \in {"messages", "mailbox"} =>
            Clearing(op'[w]) /\ \A i : Picks(op[w], i) => Picks(op[w], i)'
  <2>1. CASE op[w].kind \in {"messages", "mailbox"}
    <3>1. "attach" \in Steps /\ Goto(w, "attach")  BY <2>1 DEF Steps, cleanup_unused_content
    <3>2. /\ Moves(w) /\ op'[w].step = "attach" /\ op'[w].kind = op[w].kind /\ op'[w].ids = op[w].ids
          /\ op'[w].boxes = op[w].boxes /\ op'[w].only = op[w].only /\ op'[w].keys = op[w].keys
          /\ op'[w].seen = op[w].seen /\ op'[w].early = op[w].early
      BY <3>1, GotoKeeps DEF IInv
    <3>3. OpInv(w, op[w])  BY DEF IInv, OpsInv
    <3>4. OpInv(w, op[w])'
      BY <1>1, <1>3, <1>4, <1>5, <2>1, <3>2, <3>3 DEF OpInv, Picks, Whole, Deletions
    <3> QED  BY <1>3, <2>1, <3>2, <3>4 DEF Queued, Emptying, Whole, Clearing, Picks, Deletions
  <2>2. CASE op[w].kind \notin {"messages", "mailbox"}
    <3>1. Moves(w) /\ op'[w] = NoOp  BY <2>2, EndMoves DEF IInv, cleanup_unused_content
    <3> QED  BY <1>3, <1>5, <2>2, <3>1, NoOpFacts DEF OpInv, Whole, Deletions, Queued, Emptying
  <2> QED  BY <2>1, <2>2
<1>8. TypeInv'
  <2>1. attIndex' \subseteq Ids /\ DOMAIN cache' \subseteq Triples /\ blobs' \subseteq Keys
    BY <1>3, <1>6 DEF IInv, TypeInv
  <2> QED  BY <1>3, <1>4, <1>7, <2>1 DEF IInv, TypeInv, Moves
<1>9. OpsInv'
  <2>1. Len(doc) \in Nat  BY DocFacts DEF IInv
  <2>2. \A v \in Workers : v # w => (lock' = v <=> lock = v)  BY <1>1, <1>3, WorkersAssumption
  <2> QED  BY SMTT(30), <1>3, <1>7, <2>1, <2>2, OthersKept DEF IInv
<1>10. WriterInv'  BY <1>3 DEF WriterInv
<1>11. \A k : Needed(k)' <=> Needed(k)  BY <1>2, <1>3, <1>4, <1>7 DEF Needed, Moves
<1>12. \A k : Needed(k) /\ k \in unused => k \in Underway
  <2> SUFFICES ASSUME NEW k, Needed(k), k \in unused PROVE k \in Underway  OBVIOUS
  <2>1. k \notin DocKeys(index)  BY DEF Unused
  <2>2. \A i \in index : k \notin KeysOf(doc[i].content)  BY <2>1 DEF DocKeys
  <2>3. CASE \E i \in queue : k \in KeysOf(doc[i].content)
    BY <2>3 DEF Underway, DocKeys
  <2>4. ASSUME NEW v \in Workers, Queued(op[v]), k \in KeysOf(op[v].content) PROVE k \in Underway
    BY <2>4 DEF Underway, Ingesting, Queued
  <2> QED  BY <1>5, <2>2, <2>3, <2>4 DEF Needed, Live
<1> HIDE DEF unused
<1>13. Backed'  BY <1>3, <1>11, <1>12 DEF IInv, Backed, Stored
<1>14. Owned'
  <2>1. \A k \in op[w].keys : k \in unused \/ Needed(k)
    <3>1. \A k \in DocKeys(index) : Needed(k)  BY DEF DocKeys, Needed, Live
    <3> QED  BY <3>1 DEF Unused, unused
  <2> QED  BY <1>1, <1>3, <1>11, <2>1 DEF IInv, Owned, Stored
<1>15. CacheInv'
  <2>1. \A i \in op[w].seen : Whole(op[w]) => doc[i].box \in op[w].boxes  BY <1>2 DEF Picks
  <2>2. \A t \in DOMAIN cache' : ~Leaving(op[w], t)
    <3> SUFFICES ASSUME NEW t \in DOMAIN cache', Leaving(op[w], t) PROVE FALSE  OBVIOUS
    <3>1. CASE Whole(op[w])
      <4>1. t[1] \in op[w].boxes
        BY SMTT(30), <2>1, <3>1 DEF Leaving, Entries, Entry
      <4> QED  BY <1>6, <3>1, <4>1
    <3>2. CASE ~Whole(op[w])  BY <1>6, <3>2 DEF Leaving
    <3> QED  BY <3>1, <3>2
  <2>3. Entries(Live)' = Entries(Live)  BY <1>3, <1>4 DEF Entries, Entry
  <2>4. \A v \in Workers : \A t : v # w /\ Leaving(op[v], t) => Leaving(op[v], t)'
    BY <1>3, <1>7 DEF Moves, Leaving, Entries, Entry, Whole
  <2> QED  BY <1>3, <1>6, <2>2, <2>3, <2>4 DEF IInv, CacheInv
<1>16. AttachInv'
  <2>1. CASE op[w].kind = "account"  BY <1>3, <2>1 DEF AttachInv
  <2>2. CASE op[w].kind \in {"messages", "mailbox"}
    <3>1. \A v \in Workers : \A i : Clearing(op[v]) /\ Picks(op[v], i) => Clearing(op'[v]) /\ Picks(op[v], i)'
      BY <1>3, <1>7, <2>2 DEF Moves, Picks
    <3> QED  BY <1>3, <1>4, <2>2, <3>1 DEF IInv, AttachInv
  <2>3. CASE op[w].kind = "retention"
    <3>1. ~Clearing(op[w])  BY <2>3 DEF Clearing
    <3> QED  BY <1>3, <1>4, <1>7, <2>3, <3>1 DEF IInv, AttachInv, Moves, Picks
  <2> QED  BY <1>1, <2>1, <2>2, <2>3 DEF Deletions
<1>17. BoxInv'
  <2>1. ~Emptying(op[w])  BY <1>1 DEF Emptying
  <2> QED  BY <1>3, <1>4, <1>7, <2>1 DEF IInv, BoxInv, Moves
<1> QED  BY <1>8, <1>9, <1>10, <1>13, <1>14, <1>15, <1>16, <1>17 DEF IInv

(* A document is written again with other tags.                             *)
LEMMA TagWriteKeeps ==
    ASSUME IInv, NEW w \in Workers, TagWrite(w)
    PROVE  IInv'
<1> DEFINE risen == op[w].ids \ index
<1>1. op[w].kind = "tags" /\ lock = "free"  BY DEF TagWrite, At
<1>2. lock # w /\ ~Clearing(op[w]) /\ ~Emptying(op[w]) /\ ~Queued(op[w]) /\ \A t : ~Leaving(op[w], t)
  BY <1>1, IngestIsQuiet DEF IInv, Queued
<1>3. Moves(w) /\ op'[w] = NoOp  BY EndMoves DEF IInv, TagWrite
<1>4. op[w].ids \subseteq Ids  BY DEF IInv, OpsInv, OpInv
<1>5. /\ UNCHANGED <<rows, old, held, doc, queue, attIndex, attQueue, blobQueue, blobs, cache, populated, lock>>
      /\ UNCHANGED <<leaked, blind, loose, failed>>
      /\ index' = index \cup buffer \cup op[w].ids /\ buffer' = {}
      /\ lost' = lost \cup DocKeys(risen) /\ stray' = stray \cup {i \in risen : doc[i].box \notin rows}
  BY DEF TagWrite, setting, attachments, store, dedup
<1>6. Live' = Live \cup risen /\ Ids' = Ids  BY <1>5 DEF Live, Ids
<1> HIDE DEF risen
<1>7. OpInv(w, op[w])' /\ ~Queued(op'[w])
  BY <1>2, <1>3, <1>5, NoOpFacts DEF OpInv, Whole, Deletions, Ids, Queued
<1>8. TypeInv'
  <2>1. Live' \cup attQueue \cup attIndex \subseteq Ids  BY <1>4, <1>6 DEF IInv, TypeInv, risen
  <2> QED  BY <1>3, <1>5, <1>6, <2>1 DEF IInv, TypeInv, Moves
<1>9. OpsInv'
  <2>1. Len(doc) \in Nat  BY DocFacts DEF IInv
  <2> QED  BY SMTT(30), <1>3, <1>5, <1>7, <2>1, OthersKept DEF IInv
<1>10. WriterInv'  BY <1>5 DEF WriterInv
<1>11. \A k : (Needed(k) => Needed(k)') /\ (Needed(k)' => Needed(k) \/ k \in DocKeys(risen))
  BY <1>2, <1>3, <1>5, <1>6, <1>7 DEF Needed, Moves, DocKeys
<1>12. Backed'  BY <1>5, <1>11 DEF IInv, Backed, Stored
<1>13. Owned'  BY <1>1, <1>5, <1>11 DEF IInv, Owned, Stored
<1>14. CacheInv'
  <2>1. Entries(Live) \subseteq Entries(Live)'  BY <1>5, <1>6 DEF Entries, Entry
  <2>2. \A v \in Workers : \A t : Leaving(op[v], t) => Leaving(op[v], t)'
    BY <1>2, <1>3, <1>5 DEF Moves, Leaving, Entries, Entry, Whole
  <2> QED  BY <1>5, <2>1, <2>2 DEF IInv, CacheInv
<1>15. AttachInv'  BY <1>2, <1>3, <1>5, <1>6 DEF IInv, AttachInv, Moves, Picks
<1>16. BoxInv'
  <2> SUFFICES ASSUME NEW i \in Live'
               PROVE  \/ doc'[i].box \in rows' \/ doc'[i].box \in failed' \/ i \in stray'
                      \/ \E v \in Workers : Emptying(op'[v]) /\ doc'[i].box \in op'[v].boxes
    BY DEF BoxInv
  <2>1. CASE i \in risen  BY <1>5, <2>1
  <2>2. CASE i \in Live  BY <1>2, <1>3, <1>5, <2>2 DEF IInv, BoxInv, Moves
  <2> QED  BY <1>6, <2>1, <2>2
<1> QED  BY <1>8, <1>9, <1>10, <1>12, <1>13, <1>14, <1>15, <1>16 DEF IInv

-----------------------------------------------------------------------------
(* Deduplication: of finitely many numbers one is the greatest.             *)
INSTANCE WellFoundedInduction

(* Of the documents of an index with the same mailbox and content, one is   *)
(* the newest.                                                              *)
LEMMA NewestStays ==
    ASSUME TypeInv, NEW i \in index
    PROVE  \E j \in index \ Duplicates : Entry(j) = Entry(i)
<1> DEFINE Ages == {n \in Nat : \E j \in index : j + n = Len(doc) /\ Entry(j) = Entry(i)}
<1>1. Len(doc) \in Nat /\ index \subseteq Ids  BY DocFacts DEF Live
<1>2. \A j \in index : j \in Nat /\ j <= Len(doc)  BY SMTT(30), <1>1 DEF Ids
<1>3. Len(doc) - i \in Ages
  <2>1. Len(doc) - i \in Nat /\ i + (Len(doc) - i) = Len(doc)  BY SMTT(30), <1>1, <1>2
  <2> QED  BY <2>1
<1>4. Ages \subseteq Nat /\ Ages # {}  BY <1>3
<1> HIDE DEF Ages
<1>5. PICK n \in Ages : \A m \in Ages : <<m, n>> \notin OpToRel(<, Nat)
  BY <1>4, NatLessThanWellFounded, WFMin
<1>6. n \in Nat /\ \A m \in Ages : ~(m < n)  BY <1>4, <1>5 DEF OpToRel
<1>7. PICK j \in index : j + n = Len(doc) /\ Entry(j) = Entry(i)  BY DEF Ages
<1>8. ASSUME NEW k \in index, k > j, Entry(k) = Entry(j) PROVE FALSE
  <2>1. Len(doc) - k \in Nat /\ k + (Len(doc) - k) = Len(doc)  BY SMTT(30), <1>1, <1>2
  <2>2. Len(doc) - k \in Ages  BY <1>7, <1>8, <2>1 DEF Ages
  <2>3. Len(doc) - k < n  BY SMTT(30), <1>1, <1>2, <1>6, <1>7, <1>8
  <2> QED  BY <1>6, <2>2, <2>3
<1> QED  BY <1>7, <1>8 DEF Duplicates

(* Deduplication leaves one document of each mailbox and content.           *)
LEMMA DedupKeeps ==
    ASSUME IInv, dedup_task
    PROVE  IInv'
<1>1. /\ UNCHANGED <<rows, old, held, doc, queue, attQueue, blobQueue, blobs, cache, populated, lock, op>>
      /\ UNCHANGED <<lost, leaked, blind, stray, failed>>
      /\ index' = (index \ Duplicates) \cup buffer /\ buffer' = {}
      /\ attIndex' = attIndex \ Duplicates /\ loose' = loose \cup (Duplicates \cap attQueue)
  BY DEF dedup_task, setting, store, dedup
<1>2. Ids' = Ids /\ Live' \subseteq Live /\ Live \ Duplicates \subseteq Live'
  BY <1>1 DEF Live, Ids
<1>3. \A i \in Live : \E j \in Live' : Entry(j) = Entry(i)
  <2> SUFFICES ASSUME NEW i \in Live PROVE \E j \in Live' : Entry(j) = Entry(i)  OBVIOUS
  <2>1. CASE i \in Duplicates
    <3>1. i \in index  BY <2>1 DEF Duplicates
    <3>2. PICK j \in index \ Duplicates : Entry(j) = Entry(i)  BY <3>1, NewestStays DEF IInv
    <3> QED  BY <1>1, <3>2 DEF Live
  <2> QED  BY <1>2, <2>1
<1>4. \A i \in Live : \E j \in Live' : doc[j].box = doc[i].box /\ doc[j].content = doc[i].content
  BY <1>3 DEF Entry
<1>5. TypeInv'
  <2>1. Live' \cup attQueue' \cup attIndex' \subseteq Ids  BY <1>1, <1>2 DEF IInv, TypeInv
  <2> QED  BY <1>1, <1>2, <2>1 DEF IInv, TypeInv
<1>6. OpsInv'  BY SMTT(30), <1>1, <1>2 DEF IInv, OpsInv, OpInv, Picks, Whole
<1>7. WriterInv'  BY <1>1 DEF WriterInv
<1>8. \A k : Needed(k)' <=> Needed(k)
  <2>1. \A k : Needed(k) => Needed(k)'
    <3> SUFFICES ASSUME NEW k, NEW i \in Live, k \in KeysOf(doc[i].content)
                 PROVE  \E j \in Live' : k \in KeysOf(doc'[j].content)
      BY <1>1 DEF Needed
    <3>1. PICK j \in Live' : doc[j].content = doc[i].content  BY <1>4
    <3> QED  BY <1>1, <3>1
  <2> QED  BY <1>1, <1>2, <2>1 DEF Needed
<1>9. Backed' /\ Owned'  BY <1>1, <1>8 DEF IInv, Backed, Owned, Stored
<1>10. CacheInv'
  <2>1. Entries(Live) \subseteq Entries(Live)'
    <3> SUFFICES ASSUME NEW i \in Live PROVE Entry(i) \in Entries(Live)'  BY DEF Entries
    <3>1. PICK j \in Live' : Entry(j) = Entry(i)  BY <1>3
    <3>2. Entry(j)' = Entry(i)  BY <1>1, <3>1 DEF Entry
    <3> QED  BY <1>1, <3>1 DEF Entries, Entry
  <2>2. \A v \in Workers : \A t : Leaving(op[v], t) => Leaving(op[v], t)'
    BY <1>1 DEF Leaving, Entries, Entry, Whole
  <2> QED  BY <1>1, <2>1, <2>2 DEF IInv, CacheInv
<1>11. AttachInv'  BY <1>1, <1>2 DEF IInv, AttachInv, Picks
<1>12. BoxInv'  BY <1>1, <1>2 DEF IInv, BoxInv
<1> QED  BY <1>5, <1>6, <1>7, <1>9, <1>10, <1>11, <1>12 DEF IInv

(* Every step keeps the invariant.                                          *)
LEMMA NextKeeps == IInv /\ [Next]_vars => IInv'
<1> SUFFICES ASSUME IInv, [Next]_vars PROVE IInv'  OBVIOUS
<1>1. ASSUME NEW w \in Workers, Step(w) PROVE IInv'
  BY <1>1, CheckKeeps, PopulatedKeeps, DetachKeeps, QueueKeeps, FinishKeeps, CollectKeeps,
     CleanupKeeps, DeleteAttachmentsKeeps, RecoverKeeps DEF Step
<1>2. ASSUME NEW w \in Workers, Locking(w) PROVE IInv'
  BY <1>2, RemoveDocsKeeps, TagWriteKeeps DEF Locking
<1>3. ASSUME NEW w \in Workers, Request(w) PROVE IInv'  BY <1>3, RequestKeeps
<1>4. CASE Background  BY <1>4, BackgroundKeeps, DedupKeeps DEF Background
<1>5. CASE Environment
  BY <1>5, BackgroundKeeps, AbortKeeps, HoldKeeps, RestartKeeps DEF Environment
<1>6. CASE UNCHANGED vars
  <2>1. UNCHANGED <<rows, old, held, doc, queue, buffer, index, attQueue, attIndex, blobQueue, blobs,
                    cache, populated, lock, op, lost, leaked, blind, loose, stray, failed>>
    BY <1>6 DEF vars, setting, indexes, attachments, store, dedup, history
  <2>2. /\ Live' = Live /\ Stored' = Stored /\ held' \in BOOLEAN /\ rows' \subseteq Boxes /\ old' \subseteq Contents
        /\ blobQueue' \in Seq(Keys) /\ blobs' \subseteq Keys /\ (lock # "free" => buffer' = {})
    BY <2>1 DEF IInv, TypeInv, WriterInv, Live, Stored
  <2> QED  BY <2>1, <2>2, WorldKeeps
<1> QED  BY <1>1, <1>2, <1>3, <1>4, <1>5, <1>6 DEF Next

(* The invariant holds throughout.                                          *)
THEOREM ArchiveInvariant == Spec => []IInv
  BY InitHolds, NextKeeps, PTL DEF Spec

(* No document loses its content: whatever cleanup_unused_content reclaims  *)
(* while writers, ingest and other deletions are under way, every document  *)
(* has its body and attachments in the blob store or on the way there,      *)
(* unless their loss is on record.                                          *)
THEOREM ContentAlwaysPresent == Spec => []ContentPresent
<1>1. IInv => ContentPresent
  <2> SUFFICES ASSUME IInv, NEW k \in DocKeys(Live) PROVE k \in Stored \cup lost
    BY DEF ContentPresent, Stored
  <2>1. Needed(k)  BY DEF DocKeys, Needed
  <2> QED  BY <2>1 DEF IInv, Backed
<1> QED  BY <1>1, ArchiveInvariant, PTL

(* No blob is left behind unnoticed: what the blob store holds is needed, is *)
(* about to be, is in the hands of a deletion that holds the writer, or is  *)
(* on record as leaked.                                                     *)
THEOREM BlobsAlwaysReclaimed == Spec => []Reclaimed
<1>1. IInv => Reclaimed
  <2> SUFFICES ASSUME IInv, NEW k \in blobs
               PROVE  \/ k \in DocKeys(Live) \/ k \in leaked
                      \/ k \in UNION {KeysOf(op[w].content) : w \in {v \in Ingesting : op[v].step = "queue"}}
                      \/ k \in UNION {op[w].keys : w \in {v \in Workers : Deletes(v)}}
    BY DEF Reclaimed
  <2>1. Needed(k) \/ k \in leaked \/ (lock # "free" /\ k \in op[lock].keys)
    BY DEF IInv, Owned, Stored
  <2>2. CASE \E i \in Live : k \in KeysOf(doc[i].content)  BY <2>2 DEF DocKeys
  <2>3. CASE \E w \in Workers : Queued(op[w]) /\ k \in KeysOf(op[w].content)
    BY <2>3 DEF Queued, Ingesting
  <2>4. CASE lock # "free" /\ k \in op[lock].keys
    <3>1. lock \in Workers  BY <2>4 DEF IInv, TypeInv
    <3>2. Deletes(lock)  BY <3>1 DEF IInv, OpsInv, OpInv, Deletes
    <3> QED  BY <2>4, <3>1, <3>2
  <2> QED  BY <2>1, <2>2, <2>3, <2>4 DEF Needed
<1> QED  BY <1>1, ArchiveInvariant, PTL

(* Cache entries, attachments and mailboxes always refer to what exists, or *)
(* to what a deletion under way is about to clear, or are on record.        *)
THEOREM ReferencesAlwaysResolve == Spec => []ReferencesResolve
<1>1. IInv => TypeOK
  <2> SUFFICES ASSUME IInv PROVE TypeOK  OBVIOUS
  <2>1. \A i \in Ids : doc[i] \in [box : Boxes, content : Contents]  BY DocFacts DEF IInv, Docs
  <2>2. Range(blobQueue) \subseteq Keys  BY SMTT(30) DEF IInv, TypeInv, Range
  <2>3. lock # "free" => At(lock, Deletions, "cleanup")
    BY DEF IInv, TypeInv, OpsInv, OpInv, At
  <2> QED  BY <2>1, <2>2, <2>3 DEF IInv, TypeInv, TypeOK, Live
<1>2. IInv => CacheSound
  BY DEF IInv, CacheInv, CacheSound, Leaving, At
<1>3. IInv => AttachmentsOwned
  <2> SUFFICES ASSUME IInv, NEW i \in attIndex \cup attQueue
               PROVE  \/ i \in Live \/ i \in loose
                      \/ i \in UNION {Match(w, Ids) : w \in {v \in Workers : Deletes(v)}}
    BY DEF AttachmentsOwned
  <2>1. i \in Ids  BY DEF IInv, TypeInv
  <2>2. ASSUME NEW w \in Workers, Clearing(op[w]), Picks(op[w], i)
        PROVE  Deletes(w) /\ i \in Match(w, Ids)
    BY <2>1, <2>2 DEF Clearing, Deletes, Match, Picks
  <2> QED  BY <2>2 DEF IInv, AttachInv
<1>4. IInv => MailboxKnown
  <2>1. \A w \in Workers : Emptying(op[w]) => Deletes(w)  BY DEF Emptying, Whole, Deletes, Deletions
  <2> QED  BY <2>1 DEF IInv, BoxInv, MailboxKnown, Live
<1> QED  BY <1>1, <1>2, <1>3, <1>4, ArchiveInvariant, PTL DEF ReferencesResolve

(* Committed content leaves the index only by a deletion that asked for it, *)
(* and under a legal hold only by one admitted before the hold.             *)
THEOREM OnlyDeletionsEverRemove == Spec => OnlyDeletionsRemove
<1> DEFINE Stays(t) == t \in Entries(index)' \/ \E w \in Workers :
                          /\ At(w, Deletions, "remove") /\ op'[w].step = "cleanup"
                          /\ held => op[w].early
                          /\ t \in Entries(Match(w, index))
<1>1. IInv /\ [Next]_vars => [\A t \in Entries(index) : Stays(t)]_vars
  <2> SUFFICES ASSUME IInv, Next, NEW i \in index PROVE Stays(Entry(i))
    BY DEF Entries
  <2>1. ASSUME index \subseteq index', doc'[i] = doc[i] PROVE Stays(Entry(i))
    BY <2>1 DEF Entries, Entry
  <2>2. i \in Ids  BY DocFacts DEF IInv, Live
  <2>3. ASSUME NEW w \in Workers, RemoveDocs(w) PROVE Stays(Entry(i))
    <3>1. op[w].kind \in Deletions /\ op[w].step = "remove" /\ Goto(w, "cleanup")  BY <2>3 DEF RemoveDocs, At
    <3>2. held => op[w].early  BY <3>1, DeletionFacts
    <3>3. op'[w].step = "cleanup"
      <4>1. "cleanup" \in Steps  BY DEF Steps
      <4> QED  BY <3>1, <4>1, GotoKeeps DEF IInv
    <3>4. CASE i \in Match(w, index \cup buffer)
      <4>1. i \in Match(w, index)  BY <3>4 DEF Match
      <4> QED  BY <3>1, <3>2, <3>3, <4>1 DEF Entries, At
    <3>5. CASE i \notin Match(w, index \cup buffer)
      <4>1. i \in index' /\ doc' = doc  BY <2>3, <3>5 DEF RemoveDocs
      <4> QED  BY <4>1 DEF Entries, Entry
    <3> QED  BY <3>4, <3>5
  <2>4. CASE dedup_task
    <3>1. PICK j \in index \ Duplicates : Entry(j) = Entry(i)  BY NewestStays DEF IInv
    <3>2. j \in index' /\ doc' = doc  BY <2>4, <3>1 DEF dedup_task
    <3> QED  BY <3>1, <3>2 DEF Entries, Entry
  <2>5. ASSUME NEW w \in Workers, IngestQueue(w) PROVE Stays(Entry(i))
    <3>1. OpInv(w, op[w]) /\ op[w].kind = "ingest"  BY <2>5 DEF IInv, OpsInv, IngestQueue, At
    <3>2. [box |-> op[w].box, content |-> op[w].content] \in Docs  BY <3>1 DEF OpInv, Docs
    <3>3. doc'[i] = doc[i]
      BY SMTT(30), <2>2, <2>5, <3>2 DEF IngestQueue, IInv, TypeInv, Ids
    <3> QED  BY <2>1, <2>5, <3>3 DEF IngestQueue
  <2>6. ASSUME NEW w \in Workers, Step(w) \/ TagWrite(w) \/ Request(w), ~IngestQueue(w)
        PROVE  index \subseteq index' /\ doc' = doc
    BY <2>6 DEF Step, Request, indexes, do_populate, Populated, IngestCheck, IngestDetach, IngestFinish,
       collect_content_hashes, cleanup_unused_content, DeleteAttachments, RecoverStore, TagWrite,
       IngestStart, delete_messages_impl, TagRead, reattach_eml_content_self_healing,
       repair_envelope_blobs, recover_message_blob, delete_mailbox_impl, cleanup, retention_sweep
  <2>7. ASSUME Background \/ Environment, ~dedup_task
        PROVE  index \subseteq index' /\ doc' = doc
    BY <2>7 DEF Background, Environment, indexes, WriterTake, WriterCommit, AttachmentWriter, BlobWrite,
       BlobWriteFails, Abort, CreateMailbox, Age, PlaceHold, ReleaseHold, Shutdown, Crash, Restart
  <2> HIDE DEF Stays
  <2>8. ASSUME NEW w \in Workers, Step(w) \/ Locking(w) \/ Request(w) PROVE Stays(Entry(i))
    BY <2>1, <2>3, <2>5, <2>6, <2>8 DEF Locking
  <2> QED  BY <2>1, <2>4, <2>7, <2>8 DEF Next
<1>2. OnlyDeletionsRemove <=> [][\A t \in Entries(index) : Stays(t)]_vars
  BY DEF OnlyDeletionsRemove
<1> HIDE DEF Stays
<1> QED  BY <1>1, <1>2, ArchiveInvariant, PTL DEF Spec
=============================================================================
