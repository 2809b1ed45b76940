----------------------------- MODULE SearchIndex -----------------------------
(***************************************************************************)
(* The optional index of local search: vault_search_index.py, the refresh  *)
(* that the app starts, stops and deletes (setup.py) and the search that   *)
(* uses it (vault.py).  Codex writes its conversations all the while: the  *)
(* index may name candidates that no longer match, and must never hide a   *)
(* conversation that does.                                                 *)
(*                                                                         *)
(* One phrase is searched for.  A file is the stamp of its last change (0  *)
(* for no file) and whether it holds the phrase; so is the database of the *)
(* paginated conversations, with one answer per conversation.  Attachments *)
(* and titles are left out, and so are lineages: a conversation is a file. *)
(***************************************************************************)
EXTENDS Naturals, FiniteSets

CONSTANTS Docs,       \* transcripts
          Pages,      \* paginated conversations
          MaxChanges  \* bound: changes Codex makes

ASSUME SearchAssumption == /\ MaxChanges \in Nat \ {0}
                           /\ Docs # {} /\ Docs \cap Pages = {}

VARIABLES doc,      \* the transcripts
          base,     \* thread_history_1.sqlite
          index,    \* search-index-v1.sqlite, as last committed
          refresh,  \* the refresh that holds search-index-v1.lock
          query,    \* a search under way, or its answer
          changes   \* changes Codex made so far: the clock of the stamps

indexVars == <<doc, base, index, refresh, query, changes>>

Stamp   == 0..MaxChanges
Row     == [stamp : Stamp, has : BOOLEAN]
NoRow   == [stamp |-> 0, has |-> FALSE]
NoBase  == [stamp |-> 0, has |-> [p \in Pages |-> FALSE]]

\* Everything the cache holds is disposable: the rows of transcripts, the
\* rows of paginated conversations, and the stamp that makes those count.
NoIndex == [there |-> FALSE, rows |-> [d \in Docs |-> NoRow],
            pages |-> [p \in Pages |-> FALSE], stamp |-> 0]

Rest  == [pc |-> "none", found |-> {}, at |-> NoRow, of |-> CHOOSE d \in Docs : TRUE,
          view |-> NoBase, threads |-> {}]
Quiet == [pc |-> "none", held |-> {}, view |-> NoBase, stamp |-> 0, pages |-> {},
          paged |-> FALSE, hits |-> {}, rows |-> [d \in Docs |-> NoRow], left |-> {},
          mixed |-> {}, out |-> {}, gone |-> FALSE, old |-> NoIndex]

IndexInit == /\ doc \in [Docs -> {[stamp |-> 1, has |-> FALSE]}]
             /\ base = [stamp |-> 1, has |-> [p \in Pages |-> FALSE]]
             /\ index = NoIndex /\ refresh = Rest /\ query = Quiet
             /\ changes = 1

There == {d \in Docs : doc[d].stamp # 0}

\* What holds the phrase, transcripts and paginated conversations alike.
Holding(h, b) == {d \in Docs : h[d].stamp # 0 /\ h[d].has} \cup {p \in Pages : b.has[p]}

-----------------------------------------------------------------------------
(* Codex. *)

\* A search is only held to what it could find from its start to its end.
Still(h, b) == [query EXCEPT !.held = @ \cap Holding(h, b)]

Writes == /\ changes < MaxChanges /\ changes' = changes + 1
          /\ \E d \in Docs, has \in BOOLEAN :
                doc' = [doc EXCEPT ![d] = [stamp |-> changes', has |-> has]]
          /\ query' = Still(doc', base)
          /\ UNCHANGED <<base, index, refresh>>

Deletes == /\ changes < MaxChanges /\ changes' = changes + 1
           /\ \E d \in There : doc' = [doc EXCEPT ![d] = NoRow]
           /\ query' = Still(doc', base)
           /\ UNCHANGED <<base, index, refresh>>

Commits == /\ changes < MaxChanges /\ changes' = changes + 1
           /\ \E has \in [Pages -> BOOLEAN] :
                 base' = [stamp |-> changes', has |-> has]
           /\ query' = Still(doc, base')
           /\ UNCHANGED <<doc, index, refresh>>

-----------------------------------------------------------------------------
(* build: the lock is held to the end. *)

BuildStart == /\ refresh.pc = "none"
              /\ refresh' = [Rest EXCEPT !.pc = "files", !.found = There,
                                         !.threads = There]
              /\ index' = [index EXCEPT !.there = TRUE]
              /\ UNCHANGED <<doc, base, query, changes>>

\* _refresh: a transcript whose stamp is in the index is left alone.
Same(d) == index.rows[d] # NoRow /\ index.rows[d].stamp = doc[d].stamp
PassOver == /\ refresh.pc = "files"
            /\ \E d \in refresh.threads :
                  /\ doc[d].stamp = 0 \/ Same(d)
                  /\ refresh' = [refresh EXCEPT !.threads = @ \ {d}]
            /\ UNCHANGED <<doc, base, index, query, changes>>

\* _add_file stamps it, reads it, and stamps it again before the commit.
AddBegin == /\ refresh.pc = "files"
            /\ \E d \in refresh.threads :
                  /\ doc[d].stamp # 0 /\ ~Same(d)
                  /\ refresh' = [refresh EXCEPT !.pc = "read", !.of = d,
                                 !.threads = @ \ {d},
                                 !.at = [stamp |-> doc[d].stamp, has |-> FALSE]]
            /\ UNCHANGED <<doc, base, index, query, changes>>

ReadDoc == /\ refresh.pc = "read"
           /\ refresh' = IF doc[refresh.of].stamp = 0
                         THEN [refresh EXCEPT !.pc = "files", !.at = NoRow]
                         ELSE [refresh EXCEPT !.pc = "add",
                                              !.at.has = doc[refresh.of].has]
           /\ UNCHANGED <<doc, base, index, query, changes>>

AddFile == /\ refresh.pc = "add"
           /\ IF doc[refresh.of].stamp = refresh.at.stamp
              THEN /\ index' = [index EXCEPT !.rows[refresh.of] = refresh.at]
                   /\ query' = IF query.pc = "rows" /\ ~query.gone
                               THEN [query EXCEPT !.mixed = @ \cup {refresh.of}] ELSE query
              ELSE UNCHANGED <<index, query>>
           /\ refresh' = [refresh EXCEPT !.pc = "files", !.at = NoRow]
           /\ UNCHANGED <<doc, base, changes>>

\* Rows of transcripts that were not found go.
Prune == /\ refresh.pc = "files" /\ refresh.threads = {}
         /\ index' = [index EXCEPT !.rows =
                         [d \in Docs |-> IF d \in refresh.found THEN @[d] ELSE NoRow]]
         /\ refresh' = [Rest EXCEPT !.pc = "stamp"]
         /\ UNCHANGED <<doc, base, query, changes>>

\* _refresh_paginated: a stamp that still holds is kept; any other goes first.
StampBase ==
    /\ refresh.pc = "stamp"
    /\ IF base.stamp = 0 \/ index.stamp = base.stamp
       THEN /\ refresh' = Rest /\ UNCHANGED index
       ELSE /\ index' = [index EXCEPT !.stamp = 0]
            /\ refresh' = [refresh EXCEPT !.pc = "view", !.at.stamp = base.stamp]
    /\ UNCHANGED <<doc, base, query, changes>>

\* The database is read through one view, opened after the stamp was taken.
ViewBase == /\ refresh.pc = "view"
            /\ refresh' = [refresh EXCEPT !.pc = "pages", !.view = base, !.threads = Pages]
            /\ UNCHANGED <<doc, base, index, query, changes>>

AddPages == /\ refresh.pc = "pages"
            /\ \E p \in refresh.threads :
                  /\ index' = [index EXCEPT !.pages[p] = refresh.view.has[p]]
                  /\ refresh' = [refresh EXCEPT !.threads = @ \ {p}]
            /\ UNCHANGED <<doc, base, query, changes>>

CommitStamp == /\ refresh.pc = "pages" /\ refresh.threads = {}
               /\ index' = [index EXCEPT !.stamp =
                               IF base.stamp = refresh.at.stamp THEN base.stamp ELSE 0]
               /\ refresh' = Rest
               /\ UNCHANGED <<doc, base, query, changes>>

\* Stop, an error or a death: what was committed stays, the rest is rolled back.
Cancelled == /\ refresh.pc # "none"
             /\ refresh' = Rest
             /\ UNCHANGED <<doc, base, index, query, changes>>

\* The file a search has open.
Opened == IF query.gone THEN query.old ELSE index

\* remove takes the lock; a search that has the file open keeps it.
RemoveIndex == /\ refresh.pc = "none" /\ index.there
               /\ index' = NoIndex
               /\ query' = IF query.pc \in {"pages", "rows"}
                           THEN [query EXCEPT !.gone = TRUE, !.old = Opened] ELSE query
               /\ UNCHANGED <<doc, base, refresh, changes>>

-----------------------------------------------------------------------------
(* search, which takes no lock. *)

\* The transcripts are listed and a view of the database is pinned.
SearchStart == /\ query.pc \in {"none", "done"}
               /\ query' = [Quiet EXCEPT !.pc = "stamp", !.view = base,
                            !.held = Holding(doc, base), !.left = There]
               /\ UNCHANGED <<doc, base, index, refresh, changes>>

\* paginated_candidates: the stamp stored must be the database's...
CheckStamp == /\ query.pc = "stamp"
              /\ query' = [query EXCEPT !.pc = "pages", !.stamp = base.stamp,
                           !.paged = index.there /\ base.stamp # 0 /\ index.stamp = base.stamp]
              /\ UNCHANGED <<doc, base, index, refresh, changes>>

PageHits == /\ query.pc = "pages"
            /\ query' = [query EXCEPT !.pc = "again",
                         !.pages = IF query.paged THEN {p \in Pages : Opened.pages[p]} ELSE {}]
            /\ UNCHANGED <<doc, base, index, refresh, changes>>

\* ...before and after the rows are read; otherwise every one is a candidate.
CheckAgain == /\ query.pc = "again"
              /\ LET usable == query.paged /\ base.stamp = query.stamp
                     among  == IF usable THEN query.pages ELSE Pages
                 IN  query' = [Quiet EXCEPT !.pc = "hits", !.held = query.held, !.left = query.left,
                               !.out = {p \in among : query.view.has[p]}]
              /\ UNCHANGED <<doc, base, index, refresh, changes>>

\* candidates: the matches, and then, in a second statement, the stamps.
DocHits == /\ query.pc = "hits"
           /\ query' = IF index.there
                       THEN [query EXCEPT !.pc = "rows",
                                          !.hits = {d \in Docs : index.rows[d].has}]
                       ELSE [query EXCEPT !.pc = "read"]
           /\ UNCHANGED <<doc, base, index, refresh, changes>>

DocRows == /\ query.pc = "rows"
           /\ query' = [query EXCEPT !.pc = "compare", !.rows = Opened.rows]
           /\ UNCHANGED <<doc, base, index, refresh, changes>>

\* (mutant) A row stands for its transcript, whatever became of it.
CompareNothing ==
    /\ query.pc = "compare"
    /\ query' = [query EXCEPT !.pc = "read",
                 !.left = {d \in query.left : d \in query.hits \/ query.rows[d] = NoRow}]
    /\ UNCHANGED <<doc, base, index, refresh, changes>>

\* A transcript whose stamp is not the row's is a candidate too, and one that
\* is gone, unless it matched, makes all of them candidates.
Compare == /\ query.pc = "compare"
           /\ query' = [query EXCEPT !.pc = "read", !.gone = FALSE, !.old = NoIndex,
                        !.hits = {}, !.rows = Quiet.rows,
                        !.left = IF \E d \in query.left \ query.hits : doc[d].stamp = 0
                                 THEN query.left
                                 ELSE {d \in query.left :
                                         d \in query.hits \/ query.rows[d].stamp # doc[d].stamp}]
           /\ UNCHANGED <<doc, base, index, refresh, changes>>

\* The candidates are read themselves: what a row says is never an answer.
ReadCandidates == /\ query.pc = "read"
                  /\ query' = [query EXCEPT !.pc = "done", !.left = {},
                               !.out = @ \cup {d \in query.left : doc[d].stamp # 0 /\ doc[d].has}]
                  /\ UNCHANGED <<doc, base, index, refresh, changes>>

SearchIndexNext ==
    \/ Writes \/ Deletes \/ Commits
    \/ BuildStart \/ PassOver \/ AddBegin \/ ReadDoc \/ AddFile \/ Prune
    \/ StampBase \/ ViewBase \/ AddPages \/ CommitStamp \/ Cancelled \/ RemoveIndex
    \/ SearchStart \/ CheckStamp \/ PageHits \/ CheckAgain
    \/ DocHits \/ DocRows \/ Compare \/ ReadCandidates

IndexSpec == IndexInit /\ [][SearchIndexNext]_indexVars

-----------------------------------------------------------------------------
(* A search finds every conversation that held the phrase from its start   *)
(* to its end, whatever refreshes, stops and deletions of the index went   *)
(* on, but for one whose row a refresh commits between the two statements  *)
(* of its look at the index (vault_search_index.py:587-593).               *)
SearchMissesNothing ==
    query.pc = "done" => query.held \subseteq query.out \cup query.mixed

(* "Missing, stale, or unreadable index entries are never used to exclude  *)
(* source files" (vault_search_index.py:4-5): it finds that one too.       *)
SearchIsComplete == query.pc = "done" => query.held \subseteq query.out
-----------------------------------------------------------------------------
(* The inductive invariant. *)

Base  == [stamp : Stamp, has : [Pages -> BOOLEAN]]
Index == [there : BOOLEAN, rows : [Docs -> Row], pages : [Pages -> BOOLEAN], stamp : Stamp]

Refreshes == {"none", "files", "read", "add", "stamp", "view", "pages"}
Queries   == {"none", "stamp", "pages", "again", "hits", "rows", "compare", "read", "done"}

RefreshRecord == [pc : Refreshes, found : SUBSET Docs, at : Row, of : Docs,
                  view : Base, threads : SUBSET (Docs \cup Pages)]
QueryRecord   == [pc : Queries, held : SUBSET (Docs \cup Pages), view : Base,
                  stamp : Stamp, pages : SUBSET Pages, paged : BOOLEAN,
                  hits : SUBSET Docs, rows : [Docs -> Row], left : SUBSET Docs,
                  mixed : SUBSET Docs, out : SUBSET (Docs \cup Pages), gone : BOOLEAN,
                  old : Index]

IndexTypeOK ==
    /\ doc \in [Docs -> Row] /\ base \in Base /\ index \in Index
    /\ refresh \in RefreshRecord /\ query \in QueryRecord
    /\ changes \in Stamp

\* A row whose stamp is its transcript's is of what the transcript holds.
OfItsStamp(row, d) == row.stamp # 0 /\ row.stamp = doc[d].stamp => row = doc[d]

\* No stamp is ahead of Codex, and equal stamps mean equal contents.
StampsTell ==
    /\ base.stamp \in 1..changes
    /\ index.stamp <= changes /\ query.stamp <= changes /\ refresh.at.stamp <= changes
    /\ \A d \in Docs : /\ doc[d].stamp <= changes
                       /\ index.rows[d].stamp <= changes /\ OfItsStamp(index.rows[d], d)
                       /\ query.rows[d].stamp <= changes /\ OfItsStamp(query.rows[d], d)
                       /\ query.old.rows[d].stamp <= changes /\ OfItsStamp(query.old.rows[d], d)
    /\ index.stamp = base.stamp => index.pages = base.has

\* What a refresh is about to commit.
RefreshTells ==
    /\ refresh.pc = "files" => refresh.threads \subseteq Docs
    /\ refresh.pc \in {"read", "add"} => refresh.threads \subseteq Docs
    /\ refresh.pc \in {"read", "add"} => refresh.at.stamp # 0
    /\ refresh.pc = "add" => OfItsStamp(refresh.at, refresh.of)
    /\ refresh.pc \in {"view", "pages"} => index.stamp = 0
    /\ refresh.pc = "pages" =>
         /\ refresh.threads \subseteq Pages
         /\ base.stamp = refresh.at.stamp => refresh.view = base
         /\ \A p \in Pages \ refresh.threads : index.pages[p] = refresh.view.has[p]

\* What a search still has before it, or has found, of all it is held to.
SearchTells ==
    /\ query.held \subseteq Holding(doc, base)
    /\ query.pc \in {"stamp", "pages", "again"} =>
         \A p \in query.held \cap Pages : query.view.has[p]
    /\ query.pc \in {"hits", "rows", "compare", "read", "done"} =>
         query.held \cap Pages \subseteq query.out
    /\ query.pc \in {"stamp", "pages", "again", "hits", "rows", "compare"}
         => query.held \cap Docs \subseteq query.left
    /\ query.pc \in {"stamp", "hits"} => ~query.gone
    /\ query.pc = "pages" /\ query.paged /\ base.stamp = query.stamp
         => Opened.stamp = base.stamp /\ Opened.pages = base.has
    /\ query.pc = "again" /\ query.paged /\ base.stamp = query.stamp
         => query.pages = {p \in Pages : base.has[p]}
    /\ query.pc = "rows" =>
         \A d \in Docs \ (query.hits \cup query.mixed) : ~Opened.rows[d].has
    /\ query.pc = "compare" =>
         \A d \in Docs \ (query.hits \cup query.mixed) : ~query.rows[d].has
    /\ query.pc = "read" => query.held \cap Docs \subseteq query.left \cup query.mixed

IndexInv == IndexTypeOK /\ StampsTell /\ RefreshTells /\ SearchTells /\ SearchMissesNothing
=============================================================================
