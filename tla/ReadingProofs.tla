--------------------------- MODULE ReadingProofs ---------------------------
(***************************************************************************)
(* For every archive, directory of accounts and roles, view filter, request *)
(* and page size: what a list shows can be opened and the other way round,  *)
(* nothing is derived from what is kept from the reader, and the pages of a *)
(* list cover it.  Opening a message shares no state with this but the      *)
(* envelope that was read, so that it holds of both together.               *)
(***************************************************************************)
EXTENDS Reading, FiniteSetTheorems, TLAPS

DirectoryInv == IsDirectory(directory) /\ index \subseteq Messages /\ reader \subseteq Messages

(* A leaf that names no prover is Zenon's.                                  *)
USE ZenonT(20)

(* A permission that holds of an account on which the reader has no grant   *)
(* is global and holds of every account (permissions_allow).                *)
LEMMA GlobalEverywhere ==
    ASSUME NEW a, a \notin DOMAIN directory.grants \/ a = Nowhere, NEW p, NEW b,
           has_permission(a, p)
    PROVE  has_permission(b, p)
  BY DEF has_permission, permissions_allow

(* Who may read all accounts may read each (check_global_logic).            *)
LEMMA ReadAllReadsEach ==
    ASSUME has_permission(Nowhere, "data:read:all"), NEW b
    PROVE  has_permission(b, "data:read")
  BY DEF has_permission, permissions_allow, check_global_logic

(* The index query of an address list and the check on the stored envelope  *)
(* are the same relation (participant_exact_query, participant_matches).    *)
LEMMA ParticipantsAgree ==
    ASSUME NEW S, NEW m, NEW b \in BOOLEAN
    PROVE  participant_exact_query(S, b, m) <=> \E x \in S : participant_matches(m, x, b)
  BY DEF participant_exact_query, participant_matches

(* The clause a group contributes to the scope query matches a message just *)
(* when ViewScopeGroup::matches accepts its envelope.                       *)
LEMMA GroupsAgree ==
    ASSUME NEW S, S # Everything, NEW m
    PROVE  scope_query(S, m) <=> \E g \in S : g.account = Message[m].account /\ matches(g, m)
  BY ParticipantsAgree DEF scope_query, matches

(* The scope of a request is everything only for who may read everything,   *)
(* and otherwise a set of groups.                                           *)
LEMMA ScopeIsGroups ==
    ASSUME DirectoryInv, NEW C, NEW p
    PROVE  /\ scope_groups_for(C, p) \subseteq Groups
           /\ scope_groups_for(C, p) # Everything
<1>1. scope_groups_for(C, p) \subseteq Groups
  BY SMTT(30) DEF DirectoryInv, IsDirectory, scope_groups_for, readable_accounts, Groups
<1> QED BY <1>1, DirectoriesAssumption

(* A group of a reader's scope shows them only what they may open.          *)
LEMMA GroupReadable ==
    ASSUME DirectoryInv, NEW C, NEW g \in scope_groups_for(C, "data:read"), NEW m,
           g.account = Message[m].account, matches(g, m)
    PROVE  may_read(m)
<1>1. PICK a \in C \cap readable_accounts :
        /\ has_permission(a, "data:read")
        /\ (a \in Views /\ g \in directory.sources[a]) \/ (a \notin Views /\ g = unbounded(a))
  BY DEF scope_groups_for
<1>2. CASE a \notin Views
  BY SMTT(30), <1>1, <1>2 DEF unbounded, may_read
<1>3. CASE a \in Views /\ a \notin DOMAIN directory.grants
  BY <1>1, <1>3, GlobalEverywhere DEF may_read
<1>4. CASE a \in Views /\ a \in DOMAIN directory.grants
  <2>1. licensed /\ a \in directory.present
    BY <1>1, <1>4 DEF readable_accounts
  <2> QED BY <1>1, <1>4, <2>1 DEF may_read, view_granting
<1> QED BY <1>2, <1>3, <1>4

(* What the scope query of a reader finds they may open.                    *)
LEMMA ScopeReadable ==
    ASSUME DirectoryInv, NEW Q, NEW m, scope_query(search_scope(Q), m)
    PROVE  may_read(m)
<1>1. CASE search_scope(Q) = Everything
  <2>1. has_permission(Nowhere, "data:read:all")
    BY <1>1, ScopeIsGroups DEF search_scope
  <2> QED BY <2>1, ReadAllReadsEach DEF may_read
<1>2. CASE search_scope(Q) # Everything
  <2>1. PICK C : search_scope(Q) = scope_groups_for(C, "data:read")
    BY <1>2 DEF search_scope
  <2> QED BY <1>2, <2>1, GroupsAgree, GroupReadable
<1> QED BY <1>1, <1>2

(* And what they may open of an existing account their scope query finds.   *)
LEMMA ReadableInScope ==
    ASSUME DirectoryInv, NEW m \in Messages, may_read(m),
           Message[m].account \in directory.present
    PROVE  scope_query(search_scope(Everything), m)
<1> DEFINE S == scope_groups_for(DOMAIN directory.grants, "data:read")
           a == Message[m].account
<1>1. CASE has_permission(Nowhere, "data:read:all")
  BY <1>1 DEF search_scope, scope_query
<1>2. CASE ~has_permission(Nowhere, "data:read:all")
  <2>1. search_scope(Everything) = S
    BY <1>2 DEF search_scope
  <2>2. SUFFICES \E g \in S : g.account = a /\ matches(g, m)
    BY <2>1, ScopeIsGroups, GroupsAgree
  <2>3. CASE has_permission(a, "data:read")
    <3>1. ~check_global_logic(get_all_permissions, "data:read") /\ ~is_admin
      BY <1>2 DEF DirectoryInv, IsDirectory, has_permission, permissions_allow, check_global_logic,
                  get_all_permissions, effective_global_roles
    <3>2. a \in DOMAIN directory.grants
      BY <2>3, <3>1 DEF has_permission, permissions_allow
    <3>3. a \in readable_accounts \ Views
      BY QueriesAssumption DEF readable_accounts
    <3>4. unbounded(a) \in S
      BY <2>3, <3>2, <3>3 DEF scope_groups_for
    <3> QED BY <3>4 DEF unbounded, matches
  <2>4. CASE view_granting(m) # {}
    BY <2>4 DEF view_granting, scope_groups_for, readable_accounts
  <2> QED BY <2>3, <2>4 DEF may_read
<1> QED BY <1>1, <1>2

-----------------------------------------------------------------------------
(* The well-formedness of the directory and the extent of the index are     *)
(* kept by every step.                                                      *)
LEMMA DirectoryStep == DirectoryInv /\ [Next]_vars => DirectoryInv'
<1> SUFFICES ASSUME DirectoryInv, [Next]_vars PROVE DirectoryInv'
  OBVIOUS
<1>1. CASE UNCHANGED vars
  BY <1>1 DEF vars, DirectoryInv
<1>2. CASE Ask
  BY <1>2 DEF Ask, search_messages, get_thread_messages, fetch_message_content, search_attachment,
              get_all_tags, get_all_contacts_of_reader, get_dashboard_stats, attachment_aggregates,
              export_scope, Answer, create_searcher, DirectoryInv
<1>3. ASSUME NEW m \in Messages, Arrive(m) \/ Delete(m) PROVE DirectoryInv'
  BY <1>3, QueriesAssumption DEF Arrive, Delete, DirectoryInv
<1>4. CASE Reload
  BY <1>4 DEF Reload, DirectoryInv
<1>5. ASSUME NEW a \in Accounts, delete_account_envelopes(a) PROVE DirectoryInv'
  BY <1>5 DEF delete_account_envelopes, DirectoryInv
<1>6. ASSUME NEW a \in Accounts, AccountGone(a) PROVE DirectoryInv'
  BY <1>6 DEF AccountGone, NewDirectory, DirectoryInv, IsDirectory, Fields
<1>7. ASSUME NEW v \in Views, NEW S \in SourceLists, EditView(v, S) PROVE DirectoryInv'
  <2>1. S \subseteq Groups
    BY SMTT(30) DEF SourceLists, Groups
  <2> QED BY <1>7, <2>1 DEF EditView, NewDirectory, DirectoryInv, IsDirectory, Fields
<1>8. CASE Tick \/ Licence
  BY <1>8 DEF Tick, Licence, DirectoryInv
<1> QED BY <1>1, <1>2, <1>3, <1>4, <1>5, <1>6, <1>7, <1>8 DEF Next

(* A permission depends on the directory and the time only.                 *)
LEMMA PermissionsUnchanged ==
    ASSUME UNCHANGED <<directory, now>>, NEW a, NEW p
    PROVE  has_permission(a, p)' <=> has_permission(a, p)
  BY DEF has_permission, permissions_allow, is_admin, get_all_permissions,
         effective_global_roles, global_role_expired, account_role_expired, Expired

(* What a reader may read depends on the directory, the licence and time.   *)
LEMMA AccessUnchanged ==
    ASSUME UNCHANGED <<directory, licensed, now>>, NEW m
    PROVE  may_read(m)' <=> may_read(m)
  BY PermissionsUnchanged DEF may_read, view_granting

AnswerTrue == HitsReadable /\ ReadableFound /\ NothingBeyond

(* A hit of the query is in the index and in the scope.                     *)
LEMMA HitInScope ==
    ASSUME NEW S, NEW f, NEW p, NEW n, NEW d, NEW k, NEW m \in search_scoped(S, f, p, n, d, k).items
    PROVE  m \in index /\ scope_query(S, m)
  BY DEF search_scoped, search_inner, PageOf, filter_query

(* search_messages: its hits can be opened, and without a filter nothing    *)
(* that can be opened is left out.                                          *)
LEMMA SearchStep ==
    ASSUME DirectoryInv, NEW r \in Requests, search_messages(r)
    PROVE  AnswerTrue'
<1> DEFINE scope == search_scope(Requested(r))
           f == [c \in DOMAIN r.filter \ {"account_ids"} |-> r.filter[c]]
           all == {m \in index : filter_query(scope, f, m)}
<1>1. PICK p, k : answer' = [op |-> "search", request |-> r,
                             hits |-> search_scoped(scope, r.filter, p, r.page_size, r.desc, k).items,
                             all |-> all]
  BY DEF search_messages, Answer
<1>2. UNCHANGED <<directory, licensed, now, index>>
  BY DEF search_messages, Answer
<1>3. HitsReadable'
  BY <1>1, <1>2, HitInScope, ScopeReadable, AccessUnchanged DEF HitsReadable
<1>4. ReadableFound'
  <2> SUFFICES ASSUME r.filter = << >>, NEW m \in index, may_read(m),
                      Message[m].account \in directory.present
               PROVE  m \in all
    BY <1>1, <1>2, AccessUnchanged DEF ReadableFound
  <2>1. scope = search_scope(Everything)
    BY SMTT(30) DEF Requested
  <2>2. scope_query(scope, m)
    BY <2>1, ReadableInScope DEF DirectoryInv
  <2>3. DOMAIN f = {}
    BY SMTT(30)
  <2> QED BY <2>2, <2>3 DEF filter_query, within
<1>5. NothingBeyond'
  BY <1>1 DEF NothingBeyond, SuggestionsReadable, WholeAccountsOnly
<1> QED BY <1>3, <1>4, <1>5 DEF AnswerTrue

(* The attachment list drops filtered groups, so that its hits are messages *)
(* of accounts the reader may read as a whole.                              *)
LEMMA AttachmentStep ==
    ASSUME DirectoryInv, NEW r \in Requests, NEW page, search_attachment(r, page)
    PROVE  AnswerTrue'
<1> DEFINE scope == search_scope(Requested(r))
           found == search_attachment_scoped(scope, r, page).items
<1>1. answer' = [op |-> "attachments", hits |-> found] /\ UNCHANGED <<directory, licensed, now>>
  BY DEF search_attachment, Answer
<1>2. ASSUME NEW m \in found PROVE may_read(m)
  <2>1. scope = Everything \/ Message[m].account \in unfiltered_source_accounts(scope)
    <3>1. scope # Everything => scope \subseteq Groups
      BY ScopeIsGroups DEF search_scope
    <3>2. scope # Everything => unfiltered_source_accounts(scope) \in SUBSET Accounts
      BY <3>1, DirectoriesAssumption DEF unfiltered_source_accounts
    <3>3. scope # Everything => unfiltered_source_accounts(scope) # Everything
      BY <3>2, DirectoriesAssumption
    <3> QED BY <1>2, <3>3 DEF search_attachment_scoped, attachment_search_scoped, attachment_search,
                              PageOf, attachment_filter_query
  <2>2. scope_query(scope, m)
    BY <2>1 DEF scope_query, unfiltered_source_accounts, is_unfiltered
  <2> QED BY <2>2, ScopeReadable
<1>3. HitsReadable'
  BY <1>1, <1>2, AccessUnchanged DEF HitsReadable
<1> QED BY <1>1, <1>3 DEF AnswerTrue, ReadableFound, NothingBeyond, SuggestionsReadable, WholeAccountsOnly

(* A contact is one of a message the reader may open: of an account they    *)
(* read as a whole, or of the sample of a filtered group.                   *)
LEMMA ContactsReadable ==
    ASSUME DirectoryInv
    PROVE  contacts_in_scope \subseteq People({m \in index : may_read(m)})
<1> DEFINE groups == search_scope(Everything)
           mine == {m \in index : may_read(m)}
<1>1. ASSUME NEW A, NEW B \in SUBSET A PROVE People(B) \subseteq People(A)
  BY DEF People
<1>2. CASE groups = Everything
  <2>1. index \subseteq mine
    BY <1>2, ScopeReadable DEF scope_query
  <2>2. contacts_in_scope = People(index)
    BY <1>2 DEF contacts_in_scope, get_all_contacts
  <2> QED BY <1>1, <2>1, <2>2
<1>3. CASE groups # Everything
  <2> DEFINE whole == {m \in index : Message[m].account \in unfiltered_source_accounts(groups)}
             sampled(g) == search_scoped({g}, << >>, 1, Sample, TRUE, "date").items
  <2>1. groups \subseteq Groups
    BY <1>3, ScopeIsGroups DEF search_scope
  <2>2. unfiltered_source_accounts(groups) # Everything
    BY SMTT(30), <2>1, DirectoriesAssumption DEF unfiltered_source_accounts
  <2>3. contacts_in_scope = People(whole) \cup UNION {People(sampled(g)) : g \in {h \in groups : ~is_unfiltered(h)}}
    BY <1>3, <2>2 DEF contacts_in_scope, get_all_contacts
  <2>4. whole \subseteq mine
    BY <1>3, ScopeReadable DEF scope_query, unfiltered_source_accounts, is_unfiltered
  <2>5. ASSUME NEW g \in groups PROVE sampled(g) \subseteq mine
    <3>1. {g} # Everything
      BY <2>1, DirectoriesAssumption
    <3>2. ASSUME NEW m \in sampled(g) PROVE m \in mine
      <4>1. m \in index /\ scope_query({g}, m)
        BY HitInScope
      <4>2. scope_query(groups, m)
        BY <1>3, <3>1, <4>1, GroupsAgree
      <4> QED BY <4>1, <4>2, ScopeReadable
    <3> QED BY <3>2
  <2>6. People(whole) \subseteq People(mine)
    BY <1>1, <2>4
  <2>7. ASSUME NEW g \in groups PROVE People(sampled(g)) \subseteq People(mine)
    BY <1>1, <2>5
  <2> QED BY <2>3, <2>6, <2>7
<1> QED BY <1>2, <1>3

(* What WholeAccountsOnly asks of an account, in the state of the request.  *)
Granted(a, p) ==
    \/ a \in DOMAIN directory.grants
    \/ \E v \in DOMAIN directory.grants \cap Views :
          licensed /\ unbounded(a) \in directory.sources[v] /\ has_permission(v, p)

(* Figures and exports: an account counted is one the reader has a grant    *)
(* on, or a source without filter of a view they may use.                   *)
LEMMA WholeAccounts ==
    ASSUME DirectoryInv, NEW p, NEW a \in unfiltered_source_accounts(scope_groups_for(DOMAIN directory.grants, p))
    PROVE  Granted(a, p)
<1>1. PICK g \in scope_groups_for(DOMAIN directory.grants, p) : is_unfiltered(g) /\ g.account = a
  BY DEF unfiltered_source_accounts
<1>2. g = unbounded(a)
  BY <1>1, ScopeIsGroups, DirectoriesAssumption DEF is_unfiltered, unbounded
<1>3. PICK b \in DOMAIN directory.grants \cap readable_accounts :
        /\ has_permission(b, p)
        /\ (b \in Views /\ g \in directory.sources[b]) \/ (b \notin Views /\ g = unbounded(b))
  BY DEF scope_groups_for
<1>4. b \in Views => licensed
  BY <1>3 DEF readable_accounts
<1> QED BY SMTT(30), <1>1, <1>2, <1>3, <1>4 DEF unbounded, Granted

(* The same for the accounts of the dashboard (aggregate_account_ids).      *)
LEMMA AggregateAccounts ==
    ASSUME DirectoryInv, NEW a \in aggregate_account_ids
    PROVE  Granted(a, "data:read")
<1>1. CASE a \in DOMAIN directory.grants
  BY <1>1 DEF Granted
<1>2. CASE a \notin DOMAIN directory.grants
  <2>1. PICK v \in DOMAIN directory.grants \cap readable_accounts \cap Views :
          has_permission(v, "data:read") /\ a \in unfiltered_source_accounts(directory.sources[v])
    BY <1>2 DEF aggregate_account_ids
  <2>2. PICK g \in directory.sources[v] : is_unfiltered(g) /\ g.account = a
    BY <2>1 DEF unfiltered_source_accounts
  <2>3. g = unbounded(a)
    BY <2>1, <2>2, DirectoriesAssumption DEF DirectoryInv, IsDirectory, is_unfiltered, unbounded
  <2>4. licensed
    BY <2>1 DEF readable_accounts
  <2> QED BY <2>1, <2>2, <2>3, <2>4 DEF Granted
<1> QED BY <1>1, <1>2

(* The figures and the export scope name whole accounts only.               *)
LEMMA FiguresStep ==
    ASSUME DirectoryInv, get_dashboard_stats \/ attachment_aggregates \/ export_scope
    PROVE  AnswerTrue'
<1> DEFINE p == IF answer'.op = "export" THEN "data:export" ELSE "data:read"
<1>1. /\ answer' = [op |-> answer'.op, accounts |-> answer'.accounts]
      /\ answer'.op \in {"stats", "aggregates", "export"}
      /\ UNCHANGED <<directory, licensed, now>>
      /\ \/ answer'.accounts = Everything
         \/ answer'.op # "export" /\ answer'.accounts = aggregate_account_ids
         \/ /\ answer'.op = "export"
            /\ answer'.accounts
                 = unfiltered_source_accounts(scope_groups_for(DOMAIN directory.grants, "data:export"))
  <2>1. CASE get_dashboard_stats
    BY <2>1 DEF get_dashboard_stats, aggregate_accounts, Answer
  <2>2. CASE attachment_aggregates
    BY <2>2 DEF attachment_aggregates, aggregate_accounts, Answer
  <2>3. CASE export_scope
    BY <2>3 DEF export_scope, export_scope_accounts, Answer
  <2> QED BY <2>1, <2>2, <2>3
<1>2. answer'.accounts = Everything \/ \A a \in answer'.accounts : Granted(a, p)
  BY <1>1, WholeAccounts, AggregateAccounts
<1>3. \A v, q : has_permission(v, q)' <=> has_permission(v, q)
  BY <1>1, PermissionsUnchanged
<1>4. WholeAccountsOnly'
  BY <1>1, <1>2, <1>3 DEF WholeAccountsOnly, Granted
<1> QED BY <1>1, <1>4 DEF AnswerTrue, HitsReadable, ReadableFound, NothingBeyond, SuggestionsReadable

(* Every answer is true of the state it is given in, and dropped when that  *)
(* state changes.                                                           *)
LEMMA AnswerStep == DirectoryInv /\ AnswerTrue /\ [Next]_vars => AnswerTrue'
<1> SUFFICES ASSUME DirectoryInv, AnswerTrue, [Next]_vars PROVE AnswerTrue'
  OBVIOUS
<1>1. ASSUME answer'.op \notin {"search", "thread", "attachments", "tags", "contacts", "stats",
                                "aggregates", "export"}
      PROVE  AnswerTrue'
  BY <1>1 DEF AnswerTrue, HitsReadable, ReadableFound, NothingBeyond, SuggestionsReadable,
              WholeAccountsOnly
<1>2. CASE UNCHANGED vars
  <2>1. UNCHANGED <<directory, licensed, now, index, reader, answer>>
    BY <1>2 DEF vars
  <2>2. \A m : may_read(m)' <=> may_read(m)
    BY <2>1, AccessUnchanged
  <2>3. \A v, q : has_permission(v, q)' <=> has_permission(v, q)
    BY <2>1, PermissionsUnchanged
  <2>4. HitsReadable' /\ ReadableFound'
    BY <2>1, <2>2 DEF AnswerTrue, HitsReadable, ReadableFound
  <2>5. SuggestionsReadable'
    BY <2>1, <2>2 DEF AnswerTrue, NothingBeyond, SuggestionsReadable, People
  <2>6. WholeAccountsOnly'
    BY <2>1, <2>3 DEF AnswerTrue, NothingBeyond, WholeAccountsOnly
  <2> QED BY <2>4, <2>5, <2>6 DEF AnswerTrue, NothingBeyond
<1>3. CASE Ask
  <2>1. ASSUME NEW r \in Requests, search_messages(r) PROVE AnswerTrue'
    BY <2>1, SearchStep
  <2>2. ASSUME NEW a, NEW t, NEW p, NEW n, get_thread_messages(a, t, p, n) PROVE AnswerTrue'
    <3>1. /\ answer' = [op |-> "thread", hits |-> list_thread_envelopes(a, t, p, n).items]
          /\ UNCHANGED <<directory, licensed, now>> /\ has_permission(a, "data:read")
      BY <2>2 DEF get_thread_messages, Answer
    <3>2. ASSUME NEW m \in list_thread_envelopes(a, t, p, n).items PROVE may_read(m)
      BY <3>1 DEF list_thread_envelopes, PageOf, may_read
    <3>3. HitsReadable'
      BY <3>1, <3>2, AccessUnchanged DEF HitsReadable
    <3> QED BY <3>1, <3>3 DEF AnswerTrue, ReadableFound, NothingBeyond, SuggestionsReadable,
                              WholeAccountsOnly
  <2>3. ASSUME NEW m, fetch_message_content(m) PROVE AnswerTrue'
    BY <1>1, <2>3 DEF fetch_message_content, Answer
  <2>4. ASSUME NEW r \in Requests, NEW page, search_attachment(r, page) PROVE AnswerTrue'
    BY <2>4, AttachmentStep
  <2>5. CASE get_all_tags
    <3>1. /\ answer' = [op |-> "tags", tags |-> get_all_tags_scoped(search_scope(Everything))]
          /\ UNCHANGED <<directory, licensed, now, reader>>
      BY <2>5 DEF get_all_tags, Answer
    <3>2. get_all_tags_scoped(search_scope(Everything))
            \subseteq UNION {Message[m].tags : m \in {x \in reader : may_read(x)}}
      BY ScopeReadable DEF get_all_tags_scoped
    <3>3. SuggestionsReadable'
      BY <3>1, <3>2, AccessUnchanged DEF SuggestionsReadable
    <3> QED BY <3>1, <3>3 DEF AnswerTrue, HitsReadable, ReadableFound, NothingBeyond, WholeAccountsOnly
  <2>6. CASE get_all_contacts_of_reader
    <3>1. /\ answer' = [op |-> "contacts", contacts |-> contacts_in_scope]
          /\ UNCHANGED <<directory, licensed, now, index>>
      BY <2>6 DEF get_all_contacts_of_reader, Answer
    <3>2. SuggestionsReadable'
      BY <3>1, ContactsReadable, AccessUnchanged DEF SuggestionsReadable, People
    <3> QED BY <3>1, <3>2 DEF AnswerTrue, HitsReadable, ReadableFound, NothingBeyond, WholeAccountsOnly
  <2>7. CASE get_dashboard_stats \/ attachment_aggregates \/ export_scope
    BY <2>7, FiguresStep
  <2> QED BY <1>3, <2>1, <2>2, <2>3, <2>4, <2>5, <2>6, <2>7 DEF Ask
<1>4. ASSUME answer' = Nothing PROVE AnswerTrue'
  BY <1>1, <1>4 DEF Nothing
<1> QED BY <1>2, <1>3, <1>4 DEF Next, Arrive, Delete, Reload, delete_account_envelopes, AccountGone,
                                EditView, NewDirectory, Tick, Licence, Change

-----------------------------------------------------------------------------
(* Paging.  The hits of a request, and the place of one among them.         *)
Found(r) ==
    {m \in index : filter_query(search_scope(Requested(r)),
                                [c \in DOMAIN r.filter \ {"account_ids"} |-> r.filter[c]], m)}
Sorting(r) == resolve_sort_by(r.sort_by, has_text_filter(r.filter))
Place(r, m) == Rank(m, Found(r), Sorting(r), r.desc)

(* Ranks count: from 1, at most the number of hits, and more hits only push *)
(* a hit back.                                                              *)
LEMMA RankBounds ==
    ASSUME NEW F, IsFiniteSet(F), NEW m \in F, NEW k, NEW d
    PROVE  /\ Rank(m, F, k, d) \in Nat /\ Rank(m, F, k, d) >= 1
           /\ Cardinality(F) \in Nat /\ Rank(m, F, k, d) <= Cardinality(F)
<1> DEFINE A == {x \in F : x = m \/ Before(x, m, k, d)}
<1>1. A \subseteq F /\ m \in A /\ {m} \subseteq A
  OBVIOUS
<1>2. IsFiniteSet(A) /\ Cardinality(A) <= Cardinality(F)
  BY <1>1, FS_Subset
<1>3. Cardinality({m}) = 1
  BY FS_Singleton
<1>4. Cardinality({m}) <= Cardinality(A)
  BY <1>1, <1>2, FS_Subset
<1>5. Cardinality(A) \in Nat /\ Cardinality(F) \in Nat
  BY <1>2, FS_CardinalityType
<1> QED BY <1>2, <1>3, <1>4, <1>5 DEF Rank

(* More hits only push a hit back.                                          *)
LEMMA RankGrows ==
    ASSUME NEW F, IsFiniteSet(F), NEW E, E \subseteq F, NEW m, NEW k, NEW d
    PROVE  /\ Rank(m, E, k, d) \in Nat /\ Rank(m, F, k, d) \in Nat
           /\ Rank(m, E, k, d) <= Rank(m, F, k, d)
<1> DEFINE A == {x \in E : x = m \/ Before(x, m, k, d)}
           B == {x \in F : x = m \/ Before(x, m, k, d)}
<1>1. A \subseteq B /\ B \subseteq F
  OBVIOUS
<1>2. IsFiniteSet(B)
  BY <1>1, FS_Subset
<1>3. IsFiniteSet(A) /\ Cardinality(A) <= Cardinality(B)
  BY <1>1, <1>2, FS_Subset
<1> QED BY <1>2, <1>3, FS_CardinalityType DEF Rank

(* The page count is the number of hits divided by the page size, rounded   *)
(* up: that many pages hold them all.                                       *)
LEMMA PagesHoldAll ==
    ASSUME NEW n \in Nat, NEW s \in Nat \ {0}, NEW p \in Nat, p >= (n + s - 1) \div s
    PROVE  n <= p * s
<1> DEFINE q == (n + s - 1) \div s
<1>1. q \in Int /\ n + s - 1 < (q + 1) * s
  <2>1. n + s - 1 \in Nat
    BY SMTT(30)
  <2> QED BY SMTT(30), <2>1
<1>2. (q + 1) * s = q * s + s
  BY SMTT(30), <1>1
<1>3. n <= q * s
  BY SMTT(30), <1>1, <1>2
<1>4. q * s <= p * s
  BY SMTT(30), <1>1
<1> QED BY SMTT(30), <1>3, <1>4

(* While access stays as it is, a larger index only adds hits.              *)
LEMMA FoundGrows ==
    ASSUME UNCHANGED <<directory, licensed, now>>, index \subseteq index', NEW r
    PROVE  Found(r) \subseteq Found(r)' /\ (index' = index => Found(r)' = Found(r))
<1>1. \A a, q : has_permission(a, q)' <=> has_permission(a, q)
  BY PermissionsUnchanged
<1>2. readable_accounts' = readable_accounts
  BY DEF readable_accounts
<1>3. \A C, q : scope_groups_for(C, q)' = scope_groups_for(C, q)
  BY SMTT(30), <1>1, <1>2 DEF scope_groups_for
<1>4. search_scope(Requested(r))' = search_scope(Requested(r))
  BY <1>1, <1>3 DEF search_scope, Requested
<1> QED BY <1>4 DEF Found

(* The list being read, as long as nothing but arrivals disturbs it: every  *)
(* message wanted is still a hit, those whose place is on a page served     *)
(* have been seen, and without arrivals those seen have such a place.       *)
Listed(r) ==
    /\ walk.request = r.name /\ r.page_size > 0
    /\ walk.wanted \subseteq Found(r)
    /\ \A m \in walk.wanted : Place(r, m) <= walk.page * r.page_size => m \in walk.seen
    /\ walk.page >= walk.pages => walk.wanted \subseteq walk.seen
    /\ ~walk.grown => /\ ~walk.repeats
                      /\ \A m \in walk.seen : m \in Found(r) /\ Place(r, m) <= walk.page * r.page_size

Walks == [request : {r.name : r \in Requests}, page : Nat \ {0}, pages : Int,
          seen : SUBSET Messages, wanted : SUBSET Messages, repeats : BOOLEAN,
          grown : BOOLEAN, disturbed : BOOLEAN]

WalkInv ==
    walk # NoWalk => walk \in Walks /\ (~walk.disturbed => \E r \in Requests : Listed(r))

(* The hits are finitely many messages.                                     *)
LEMMA FoundFinite ==
    ASSUME DirectoryInv, NEW r
    PROVE  Found(r) \subseteq Messages /\ IsFiniteSet(Found(r))
<1>1. Found(r) \subseteq Messages
  BY DEF Found, DirectoryInv
<1> QED BY <1>1, QueriesAssumption, FS_Subset

(* The step of search_messages, as far as paging goes.                      *)
LEMMA PageServed ==
    ASSUME DirectoryInv, NEW r \in Requests, search_messages(r)
    PROVE  \E page :
             LET result == PageOf(Found(r), page, r.page_size, r.desc, Sorting(r)) IN
             /\ page = IF walk.request = r.name THEN walk.page + 1 ELSE 1
             /\ page > 0 /\ r.page_size > 0
             /\ walk.request = r.name => walk.page < walk.pages
             /\ walk' = [request |-> r.name,
                         page |-> page,
                         pages |-> result.pages,
                         seen |-> result.items \cup (IF page = 1 THEN {} ELSE walk.seen),
                         wanted |-> IF page = 1 THEN Found(r) ELSE walk.wanted,
                         repeats |-> page # 1 /\ (walk.repeats \/ walk.seen \cap result.items # {}),
                         grown |-> page # 1 /\ walk.grown,
                         disturbed |-> page # 1 /\ walk.disturbed]
             /\ Found(r)' = Found(r)
<1>1. Found(r)' = Found(r)
  BY FoundGrows DEF search_messages, Answer
<1> WITNESS (IF walk.request = r.name THEN walk.page + 1 ELSE 1)
<1> QED BY <1>1 DEF search_messages, search_scoped, search_inner, Found, Sorting, validate

(* A page served keeps the account of what the reader has seen.             *)
LEMMA SearchWalk ==
    ASSUME DirectoryInv, WalkInv, NEW r \in Requests, search_messages(r)
    PROVE  WalkInv'
<1> DEFINE s == r.page_size
           F == Found(r)
           first == walk.request # r.name
           page == IF first THEN 1 ELSE walk.page + 1
           result == PageOf(F, page, s, r.desc, Sorting(r))
<1>1. /\ page > 0 /\ s > 0
      /\ walk' = [request |-> r.name,
                  page |-> page,
                  pages |-> result.pages,
                  seen |-> result.items \cup (IF page = 1 THEN {} ELSE walk.seen),
                  wanted |-> IF page = 1 THEN F ELSE walk.wanted,
                  repeats |-> page # 1 /\ (walk.repeats \/ walk.seen \cap result.items # {}),
                  grown |-> page # 1 /\ walk.grown,
                  disturbed |-> page # 1 /\ walk.disturbed]
      /\ Found(r)' = F
  BY SMTT(30), PageServed
<1>2. ~first => walk # NoWalk /\ walk \in Walks
  BY SMTT(30), RequestsAssumption DEF NoWalk, WalkInv
<1> HIDE DEF result, F, page, s, first
<1>15. s \in Nat \ {0}
  BY SMTT(30), <1>1, RequestsAssumption DEF s
<1>16. page = IF first THEN 1 ELSE walk.page + 1
  BY DEF page
<1>3. page \in Nat \ {0} /\ s \in Nat \ {0} /\ (page = 1 <=> first)
  BY SMTT(30), <1>2, <1>15, <1>16 DEF Walks
<1>4. F \subseteq Messages /\ IsFiniteSet(F) /\ Cardinality(F) \in Nat
  BY FoundFinite, FS_CardinalityType DEF F
<1>5. \A m \in F : Place(r, m) \in Nat /\ Place(r, m) >= 1 /\ Place(r, m) <= Cardinality(F)
  BY <1>4, RankBounds DEF Place, F
<1>6. (page - 1) * s + s = page * s /\ (page - 1) * s \in Nat /\ page * s \in Nat
  BY SMTT(30), <1>3
<1>7. result.items = {m \in F : Place(r, m) > (page - 1) * s /\ Place(r, m) <= page * s}
  BY <1>6 DEF PageOf, Place, result, F
<1>8. result.pages = (Cardinality(F) + s - 1) \div s /\ result.pages \in Int
  BY SMTT(30), <1>3, <1>4 DEF PageOf, result
<1>9. page >= result.pages => \A m \in F : Place(r, m) <= page * s
  <2>1. page >= result.pages => Cardinality(F) <= page * s
    BY <1>3, <1>4, <1>8, PagesHoldAll
  <2> QED BY SMTT(30), <1>4, <1>5, <1>6, <2>1
<1>10. walk' \in Walks
  <2>1. result.items \subseteq Messages
    BY <1>4, <1>7
  <2> QED BY <1>1, <1>2, <1>3, <1>4, <1>8, <2>1 DEF Walks
<1>11. \A m : Place(r, m)' = Place(r, m)
  BY <1>1 DEF Place, Rank, F
<1>12. CASE first
  <2>1. page = 1 /\ (page - 1) * s = 0
    BY SMTT(30), <1>3, <1>12
  <2>2. walk'.seen = {m \in F : Place(r, m) <= page * s} /\ walk'.wanted = F
    BY SMTT(30), <1>1, <1>5, <1>7, <2>1
  <2>3. Listed(r)'
    <3>1. walk'.request = r.name /\ s = r.page_size /\ Found(r)' = F /\ walk'.page = page
          /\ walk'.pages = result.pages /\ walk'.repeats = FALSE
      BY <1>1, <2>1 DEF s
    <3> QED BY <1>1, <1>9, <1>11, <2>1, <2>2, <3>1 DEF Listed
  <2> QED BY <1>10, <2>3 DEF WalkInv
<1>13. CASE ~first /\ ~walk.disturbed
  <2>1. Listed(r)
    BY <1>2, <1>13, RequestsAssumption DEF WalkInv, Listed, first
  <2>2. page # 1 /\ page - 1 = walk.page
    BY SMTT(30), <1>2, <1>3, <1>13, <1>16 DEF Walks
  <2>3. walk'.seen = result.items \cup walk.seen /\ walk'.wanted = walk.wanted
    BY <1>1, <2>2
  <2>4. \A m \in walk.wanted : m \in F /\ (Place(r, m) <= page * s => m \in walk'.seen)
    BY SMTT(30), <1>5, <1>6, <1>7, <2>1, <2>2, <2>3 DEF Listed, F, s
  <2>5. ~walk.grown => /\ walk.seen \cap result.items = {}
                       /\ \A m \in walk'.seen : m \in F /\ Place(r, m) <= page * s
    BY SMTT(30), <1>3, <1>5, <1>6, <1>7, <2>1, <2>2, <2>3 DEF Listed, F, s
  <2>6. ~walk.grown => ~walk.repeats
    BY <2>1 DEF Listed
  <2>7. Listed(r)'
    <3>1. walk'.request = r.name /\ s = r.page_size /\ s > 0 /\ Found(r)' = F /\ walk'.page = page
          /\ walk'.pages = result.pages /\ walk'.grown = walk.grown
          /\ walk'.repeats = (walk.repeats \/ walk.seen \cap result.items # {})
      BY <1>1, <1>2, <1>13, <2>2 DEF s, Walks
    <3> QED BY <1>9, <1>11, <2>2, <2>3, <2>4, <2>5, <2>6, <3>1 DEF Listed
  <2> QED BY <1>10, <2>7 DEF WalkInv
<1>14. CASE ~first /\ walk.disturbed
  <2>1. walk'.disturbed
    BY <1>1, <1>3, <1>14
  <2> QED BY <1>10, <2>1 DEF WalkInv
<1> QED BY <1>2, <1>12, <1>13, <1>14

(* An arrival only pushes hits back: what was seen stays seen, and what is  *)
(* still to come has not moved to a page already served.                    *)
LEMMA ArrivalWalk ==
    ASSUME DirectoryInv, DirectoryInv', WalkInv, NEW m, Arrive(m)
    PROVE  WalkInv'
<1>1. CASE walk = NoWalk
  BY <1>1 DEF Arrive, WalkInv
<1>2. CASE walk # NoWalk
  <2>1. walk \in Walks
    BY <1>2 DEF WalkInv
  <2>2. walk' \in Walks /\ walk'.grown /\ (walk.disturbed => walk'.disturbed)
    <3> DEFINE b == walk.disturbed \/ SortOf(walk.request) = "relevance"
    <3>1. walk' = [[walk EXCEPT !.grown = TRUE] EXCEPT !.disturbed = b] /\ b \in BOOLEAN
      BY <1>2, <2>1 DEF Arrive, Walks
    <3> HIDE DEF b
    <3>2. walk' \in Walks /\ walk'.grown /\ walk'.disturbed = b
      BY <2>1, <3>1 DEF Walks
    <3> QED BY <3>2 DEF b
  <2>3. /\ walk'.request = walk.request /\ walk'.page = walk.page /\ walk'.pages = walk.pages
        /\ walk'.seen = walk.seen /\ walk'.wanted = walk.wanted
    BY <1>2, <2>1 DEF Arrive, Walks
  <2>4. ASSUME NEW r \in Requests, Listed(r) PROVE Listed(r)'
    <3>1. Found(r) \subseteq Found(r)' /\ IsFiniteSet(Found(r)')
      BY FoundGrows, FoundFinite, QueriesAssumption, FS_Subset DEF Arrive, DirectoryInv, Found
    <3>2. \A x : Place(r, x) \in Nat /\ Place(r, x)' \in Nat /\ Place(r, x) <= Place(r, x)'
      BY <3>1, RankGrows DEF Place
    <3>3. walk.page * r.page_size \in Nat
      BY SMTT(30), <2>1, RequestsAssumption DEF Walks
    <3> QED BY SMTT(30), <2>2, <2>3, <2>4, <3>1, <3>2, <3>3 DEF Listed
  <2> QED BY <2>2, <2>4, <1>2 DEF WalkInv
<1> QED BY <1>1, <1>2

(* Every step keeps the account of what has been seen; every change but an  *)
(* arrival is a disturbance, and any other request leaves the list.         *)
LEMMA WalkStep == DirectoryInv /\ DirectoryInv' /\ WalkInv /\ [Next]_vars => WalkInv'
<1> SUFFICES ASSUME DirectoryInv, DirectoryInv', WalkInv, [Next]_vars PROVE WalkInv'
  OBVIOUS
<1>1. CASE UNCHANGED vars \/ Reload
  <2>1. UNCHANGED <<directory, licensed, now, index, walk>>
    BY <1>1 DEF vars, Reload
  <2>2. \A r : Found(r)' = Found(r)
    BY <2>1, FoundGrows
  <2>3. \A r, m : Place(r, m)' = Place(r, m)
    BY <2>2 DEF Place, Rank
  <2> QED BY <2>1, <2>2, <2>3 DEF WalkInv, Listed
<1>2. CASE Ask
  <2>1. ASSUME NEW r \in Requests, search_messages(r) PROVE WalkInv'
    BY <2>1, SearchWalk
  <2>2. ASSUME Leave PROVE WalkInv'
    BY <2>2 DEF Leave, WalkInv
  <2> QED BY <1>2, <2>1, <2>2 DEF Ask, get_thread_messages, fetch_message_content, search_attachment,
              get_all_tags, get_all_contacts_of_reader, get_dashboard_stats, attachment_aggregates,
              export_scope
<1>3. ASSUME Disturb PROVE WalkInv'
  BY <1>3 DEF Disturb, WalkInv, Walks
<1>4. ASSUME NEW m \in Messages, Arrive(m) PROVE WalkInv'
  BY <1>4, ArrivalWalk
<1> QED BY <1>1, <1>2, <1>3, <1>4 DEF Next, Delete, delete_account_envelopes, AccountGone, EditView,
                                     NewDirectory, Tick, Licence

-----------------------------------------------------------------------------
(* What the theorems rest on, kept by every step of Next.                   *)
Counters ==
    /\ cleanups \subseteq Accounts \ Views
    /\ now \in 0..MaxTime /\ changes \in 0..MaxChanges /\ licensed \in BOOLEAN

IInv == DirectoryInv /\ Counters /\ AnswerTrue /\ WalkInv

(* Only accounts that hold messages are handed to a cleanup task, and a     *)
(* view holds none (get_dashboard_stats).                                   *)
LEMMA CountersStep == DirectoryInv /\ Counters /\ [Next]_vars => Counters'
<1> SUFFICES ASSUME DirectoryInv, Counters, [Next]_vars PROVE Counters'
  OBVIOUS
<1>1. CASE UNCHANGED vars
  BY <1>1 DEF vars, Counters
<1>2. CASE get_dashboard_stats
  <2>1. PICK C : /\ C \subseteq {Message[m].account : m \in index}
                 /\ cleanups' = cleanups \cup (C \ directory.present)
                 /\ UNCHANGED <<now, changes, licensed>>
    BY <1>2 DEF get_dashboard_stats, Answer
  <2> QED BY SMTT(30), <2>1, QueriesAssumption DEF Counters, DirectoryInv
<1>3. CASE Ask /\ ~get_dashboard_stats
  BY <1>3 DEF Ask, search_messages, get_thread_messages, fetch_message_content, search_attachment,
              get_all_tags, get_all_contacts_of_reader, attachment_aggregates, export_scope, Answer,
              Counters
<1>4. ASSUME Change, UNCHANGED <<now, cleanups>>, licensed' \in BOOLEAN PROVE Counters'
  BY SMTT(30), <1>4, QueriesAssumption DEF Change, Counters
<1>5. CASE Reload \/ Tick
  BY SMTT(30), <1>5, QueriesAssumption DEF Reload, Tick, Counters
<1>6. ASSUME NEW a \in Accounts, delete_account_envelopes(a) PROVE Counters'
  BY <1>6 DEF delete_account_envelopes, Counters
<1>7. ASSUME NEW d, NewDirectory(d) PROVE Counters'
  BY <1>4, <1>7 DEF NewDirectory, Counters
<1>8. ASSUME NEW m, Arrive(m) \/ Delete(m) PROVE Counters'
  BY <1>4, <1>8 DEF Arrive, Delete, Counters
<1>9. CASE Licence
  BY <1>4, <1>9 DEF Licence, Counters
<1> QED BY <1>1, <1>2, <1>3, <1>5, <1>6, <1>7, <1>8, <1>9 DEF Next, AccountGone, EditView

(* The user page and the checks read the same deadlines: a permission that  *)
(* to_view lists is one has_permission grants, in every state.              *)
LEMMA ViewAgreesAlways ==
    ASSUME DirectoryInv
    PROVE  ViewAgrees
<1>1. ASSUME NEW q \in to_view.global PROVE has_permission(Nowhere, q)
  BY <1>1 DEF to_view, has_permission, permissions_allow, check_global_logic
<1>2. ASSUME NEW a \in DOMAIN to_view.account, NEW q \in to_view.account[a]
      PROVE  has_permission(a, q)
  <2>1. /\ a \in DOMAIN directory.grants /\ ~account_role_expired(a)
        /\ directory.grants[a] \in Roles /\ q \in Permissions[directory.grants[a]]
    BY <1>2 DEF to_view
  <2>2. a # Nowhere
    BY <2>1, DirectoriesAssumption DEF DirectoryInv, IsDirectory
  <2> QED BY <2>1, <2>2 DEF has_permission, permissions_allow, check_account_logic
<1> QED BY <1>1, <1>2 DEF ViewAgrees

(* IInv holds in every reachable state.                                     *)
LEMMA Inductive == Spec => []IInv
<1>1. Init => IInv
  <2> SUFFICES ASSUME Init PROVE IInv
    OBVIOUS
  <2>1. DirectoryInv /\ Counters /\ WalkInv
    BY SMTT(30), DirectoriesAssumption, QueriesAssumption DEF Init, DirectoryInv, Counters, WalkInv
  <2>2. AnswerTrue
    BY DEF Init, Nothing, AnswerTrue, HitsReadable, ReadableFound, NothingBeyond,
           SuggestionsReadable, WholeAccountsOnly
  <2> QED BY <2>1, <2>2 DEF IInv
<1>2. IInv /\ [Next]_vars => IInv'
  BY DirectoryStep, CountersStep, AnswerStep, WalkStep DEF IInv
<1> QED BY <1>1, <1>2, PTL DEF Spec

(* For every directory, archive and filter: a tag, a contact, a figure or   *)
(* an export scope never derives from what is kept from the reader          *)
(* (get_all_tags_scoped, contacts_in_scope, aggregate_accounts and          *)
(* export_scope_accounts against load_readable_with_access).                *)
THEOREM NothingBeyondShown == Spec => []NothingBeyond
<1>1. IInv => NothingBeyond
  BY DEF IInv, AnswerTrue
<1> QED BY <1>1, Inductive, PTL

(* For every directory, archive, request and page size: a list shows what   *)
(* can be opened and all of it, the user page lists what is granted, and    *)
(* reading on to the last page shows every message of the list             *)
(* (search_scoped, load_readable_with_access, to_view, search_inner).       *)
THEOREM ListsAgreeShown == Spec => []ListsAgree
<1>1. IInv => ListsAgree
  <2> SUFFICES ASSUME IInv PROVE ListsAgree
    OBVIOUS
  <2>1. PagesCoverList
    BY DEF IInv, WalkInv, Listed, PagesCoverList
  <2>2. TypeOK
    BY DEF IInv, DirectoryInv, IsDirectory, Counters, WalkInv, Walks, TypeOK
  <2> QED BY <2>1, <2>2, ViewAgreesAlways DEF IInv, AnswerTrue, ListsAgree
<1> QED BY <1>1, Inductive, PTL

-----------------------------------------------------------------------------
(* Each step of the composition is a step of Queries or leaves it alone:    *)
(* fetching, downloading, restoring and repairing content touch neither the *)
(* index, nor the access data, nor the list being read.                     *)
THEOREM ReadingAsks == ReadingSpec => Spec
<1>1. ReadingInit => Init
  BY DEF ReadingInit
<1>2. [AskedOf \/ Opened]_<<vars, contentVars>> => [Next]_vars
  BY DEF AskedOf, Opened
<1> QED BY <1>1, <1>2, PTL DEF ReadingSpec, Spec

(* What a reader may see is decided alike by lists, single reads, figures,  *)
(* exports and the user page, with content being opened and repaired beside *)
(* it (search_scoped, load_readable_with_access, aggregate_accounts).       *)
THEOREM ReadingAgrees == ReadingSpec => [](ListsAgree /\ NothingBeyond)
  BY ReadingAsks, ListsAgreeShown, NothingBeyondShown, PTL
=============================================================================
