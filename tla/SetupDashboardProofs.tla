----------------------- MODULE SetupDashboardProofs ------------------------
(***************************************************************************)
(* What the app promises, with everything in it at once: the dashboard and *)
(* its workers, the schedule with its backup and rotation, pairing, setup  *)
(* and recovery, and the search index, for any threads, vaults, devices,   *)
(* conversations and bounds.                                               *)
(*                                                                         *)
(* The parts are proved first, each from its own inductive invariant.      *)
(* IndexInv: equal stamps mean equal contents, so a row that has its       *)
(* transcript's stamp is of what the transcript holds.  PairingInv: a      *)
(* device is never replaced by another, and none is sent to the service    *)
(* that is not saved for good.  SetupInv: the same of the keys that are    *)
(* made or used.  RecoveryInv: a receiver comes to latest.json once the    *)
(* rest is whole, and whole it stays.                                      *)
(*                                                                         *)
(* Then the composition.  HostedInv and BelowInv collect what the parts    *)
(* keep, and every step of the app is a step of one part that leaves the   *)
(* others alone (BelowStays, HostedStays, IndexStays).  What is left is    *)
(* the app's own: it does not go while anything it has begun is at work    *)
(* (NothingInterrupted), and a key it has made stays in view (KeyStays).   *)
(***************************************************************************)
EXTENDS SetupDashboard, VaultScheduleProofs, TLAPS

-----------------------------------------------------------------------------
\* The search index: a search misses nothing that was there throughout.

\* What is not there is typed.
LEMMA IndexConstants ==
    /\ 0 \in Stamp /\ 1 \in Stamp /\ Stamp \subseteq Nat
    /\ NoRow \in Row /\ NoRow.stamp = 0 /\ ~NoRow.has
    /\ NoBase \in Base
    /\ NoIndex \in Index /\ NoIndex.stamp = 0 /\ ~NoIndex.there
    /\ \A d \in Docs : NoIndex.rows[d] = NoRow
    /\ Rest \in RefreshRecord
    /\ Quiet \in QueryRecord
<1> USE SearchAssumption
<1>1. 0 \in Stamp /\ 1 \in Stamp /\ Stamp \subseteq Nat
  BY DEF Stamp
<1>2. NoRow \in Row /\ NoRow.stamp = 0 /\ ~NoRow.has
  BY <1>1 DEF Row, NoRow
<1>3. NoBase \in Base
  BY <1>1 DEF Base, NoBase
<1>4. /\ NoIndex \in Index /\ NoIndex.stamp = 0 /\ ~NoIndex.there
      /\ \A d \in Docs : NoIndex.rows[d] = NoRow
  BY <1>1, <1>2 DEF NoIndex, Index
<1>5. Rest \in RefreshRecord
  <2>1. (CHOOSE d \in Docs : TRUE) \in Docs
    OBVIOUS
  <2> QED BY <1>2, <1>3, <2>1 DEF Rest, RefreshRecord, Refreshes
<1>6. Quiet \in QueryRecord
  BY <1>1, <1>2, <1>3, <1>4 DEF Quiet, QueryRecord, Queries
<1> QED BY <1>1, <1>2, <1>3, <1>4, <1>5, <1>6

\* What a search has before it looks at anything.
LEMMA QuietFields ==
    /\ Quiet.view = NoBase /\ Quiet.stamp = 0 /\ Quiet.pages = {} /\ Quiet.paged = FALSE
    /\ Quiet.hits = {} /\ Quiet.rows = [d \in Docs |-> NoRow] /\ Quiet.mixed = {}
    /\ Quiet.out = {} /\ Quiet.gone = FALSE /\ Quiet.old = NoIndex
BY DEF Quiet

\* A step of a refresh that commits nothing.
LEMMA RefreshOnly ==
    ASSUME IndexInv, UNCHANGED <<doc, base, index, query, changes>>,
           refresh' \in RefreshRecord, refresh'.at.stamp <= changes, RefreshTells'
    PROVE  IndexInv'
<1>1. IndexTypeOK'
  BY DEF IndexInv, IndexTypeOK
<1>2. StampsTell'
  BY DEF IndexInv, StampsTell, OfItsStamp
<1>3. SearchTells' /\ SearchMissesNothing'
  BY DEF IndexInv, SearchTells, SearchMissesNothing, Opened, Holding
<1> QED BY <1>1, <1>2, <1>3 DEF IndexInv

\* A step of a search changes nothing but the search.
LEMMA SearchOnly ==
    ASSUME IndexInv, UNCHANGED <<doc, base, index, refresh, changes>>,
           query' \in QueryRecord, query'.stamp <= changes,
           query'.rows \in {query.rows, Quiet.rows, Opened.rows},
           query'.old \in {query.old, NoIndex},
           SearchTells', SearchMissesNothing'
    PROVE  IndexInv'
<1>1. IndexTypeOK'
  BY DEF IndexInv, IndexTypeOK
<1>2. ASSUME NEW d \in Docs
      PROVE  /\ query'.rows[d].stamp <= changes /\ OfItsStamp(query'.rows[d], d)
             /\ query'.old.rows[d].stamp <= changes /\ OfItsStamp(query'.old.rows[d], d)
  <2>1. changes \in Nat /\ 0 <= changes
    BY IndexConstants DEF IndexInv, IndexTypeOK
  <2>2. Quiet.rows[d] = NoRow /\ NoIndex.rows[d] = NoRow
    BY DEF Quiet, NoIndex
  <2>3. NoRow.stamp <= changes /\ OfItsStamp(NoRow, d)
    BY <2>1, IndexConstants DEF OfItsStamp
  <2> QED BY <2>2, <2>3 DEF IndexInv, StampsTell, Opened
<1>3. StampsTell'
  BY <1>2 DEF IndexInv, StampsTell, OfItsStamp
<1>4. RefreshTells'
  BY DEF IndexInv, RefreshTells, OfItsStamp
<1> QED BY <1>1, <1>3, <1>4 DEF IndexInv

\* One lemma for each step of a search.
LEMMA SearchStartInv == IndexInv /\ SearchStart => IndexInv'
<1> SUFFICES ASSUME IndexInv, SearchStart PROVE IndexInv'
  OBVIOUS
<1>1. query \in QueryRecord /\ base \in Base
  BY DEF IndexInv, IndexTypeOK
<1>2. /\ query' \in QueryRecord
      /\ query'.pc = "stamp" /\ query'.held = Holding(doc, base) /\ query'.view = base
      /\ query'.stamp = 0 /\ query'.pages = {} /\ query'.paged = FALSE /\ query'.hits = {}
      /\ query'.rows = Quiet.rows /\ query'.left = There /\ query'.mixed = {}
      /\ query'.out = {} /\ query'.gone = FALSE /\ query'.old = NoIndex
  <2>1. query' = [Quiet EXCEPT !.pc = "stamp", !.view = base, !.held = Holding(doc, base),
                              !.left = There]
    BY DEF SearchStart
  <2>2. /\ Holding(doc, base) \subseteq Docs \cup Pages
        /\ There \subseteq Docs /\ "stamp" \in Queries
    BY DEF Holding, There, Queries
  <2>3. query' \in QueryRecord
    BY <1>1, <2>1, <2>2, IndexConstants DEF QueryRecord
  <2> QED BY <2>1, <2>3, IndexConstants, QuietFields DEF QueryRecord
<1>3. UNCHANGED <<doc, base, index, refresh, changes>>
  BY DEF SearchStart
<1>4. query'.stamp <= changes
  BY <1>2, IndexConstants DEF IndexInv, StampsTell, IndexTypeOK, Stamp, Base
<1>5. SearchTells'
  <2>1. \A p \in query'.held \cap Pages : query'.view.has[p]
    BY <1>2, SearchAssumption DEF Holding
  <2>2. query'.held \cap Docs \subseteq query'.left
    BY <1>2, SearchAssumption DEF Holding, There
  <2>3. query'.held = Holding(doc', base')
    BY <1>2, <1>3 DEF Holding
  <2> HIDE DEF Holding
  <2> QED BY <1>2, <2>1, <2>2, <2>3 DEF SearchTells
<1>6. SearchMissesNothing'
  BY <1>1, <1>2, <1>3, SearchAssumption DEF IndexInv, IndexTypeOK, SearchMissesNothing,
     SearchTells, Holding, QueryRecord
<1>7. /\ query' \in QueryRecord
      /\ query'.rows \in {query.rows, Quiet.rows, Opened.rows}
      /\ query'.old \in {query.old, NoIndex}
  BY <1>2
<1> QED BY <1>3, <1>4, <1>5, <1>6, <1>7, SearchOnly

LEMMA CheckStampInv == IndexInv /\ CheckStamp => IndexInv'
<1> SUFFICES ASSUME IndexInv, CheckStamp PROVE IndexInv'
  OBVIOUS
<1>1. query \in QueryRecord /\ index \in Index
  BY DEF IndexInv, IndexTypeOK
<1>0. base.stamp \in Stamp /\ index.there \in BOOLEAN
  BY <1>1 DEF IndexInv, IndexTypeOK, Base, Index
<1>2. /\ query' \in QueryRecord
      /\ query'.pc = "pages" /\ query'.held = query.held /\ query'.view = query.view
      /\ query'.stamp = base.stamp /\ query'.pages = query.pages
      /\ query'.paged = (index.there /\ base.stamp # 0 /\ index.stamp = base.stamp)
      /\ query'.hits = query.hits /\ query'.rows = query.rows /\ query'.left = query.left
      /\ query'.mixed = query.mixed /\ query'.out = query.out /\ query'.gone = query.gone
      /\ query'.old = query.old
  BY <1>1, <1>0 DEF CheckStamp, Queries, QueryRecord
<1>3. UNCHANGED <<doc, base, index, refresh, changes>>
  BY DEF CheckStamp
<1>4. query'.stamp <= changes
  BY <1>2, IndexConstants DEF IndexInv, StampsTell, IndexTypeOK, Stamp, Base
<1>5. SearchTells'
  BY <1>1, <1>2, <1>3, IndexConstants, SearchAssumption DEF CheckStamp, IndexInv,
     IndexTypeOK, StampsTell, SearchTells, OfItsStamp, Opened, Holding, Base, Index, Row,
     Stamp
<1>6. SearchMissesNothing'
  BY <1>1, <1>2, <1>3, SearchAssumption DEF IndexInv, IndexTypeOK, SearchMissesNothing,
     SearchTells, Holding, QueryRecord
<1>7. /\ query' \in QueryRecord
      /\ query'.rows \in {query.rows, Quiet.rows, Opened.rows}
      /\ query'.old \in {query.old, NoIndex}
  BY <1>2
<1> QED BY <1>3, <1>4, <1>5, <1>6, <1>7, SearchOnly

LEMMA PageHitsInv == IndexInv /\ PageHits => IndexInv'
<1> SUFFICES ASSUME IndexInv, PageHits PROVE IndexInv'
  OBVIOUS
<1>1. query \in QueryRecord /\ index \in Index
  BY DEF IndexInv, IndexTypeOK
<1>2. /\ query' \in QueryRecord
      /\ query'.pc = "again" /\ query'.held = query.held /\ query'.view = query.view
      /\ query'.stamp = query.stamp
      /\ query'.pages = (IF query.paged THEN {p \in Pages : Opened.pages[p]} ELSE {})
      /\ query'.paged = query.paged /\ query'.hits = query.hits /\ query'.rows = query.rows
      /\ query'.left = query.left /\ query'.mixed = query.mixed /\ query'.out = query.out
      /\ query'.gone = query.gone /\ query'.old = query.old
  BY <1>1 DEF PageHits, Queries, QueryRecord
<1>3. UNCHANGED <<doc, base, index, refresh, changes>>
  BY DEF PageHits
<1>4. query'.stamp <= changes
  BY <1>2, IndexConstants DEF IndexInv, StampsTell, IndexTypeOK, Stamp, Base
<1>5. SearchTells'
  BY <1>1, <1>2, <1>3, IndexConstants, SearchAssumption DEF PageHits, IndexInv, IndexTypeOK,
     StampsTell, SearchTells, OfItsStamp, Opened, Holding, Base, Index, Row, Stamp
<1>6. SearchMissesNothing'
  BY <1>1, <1>2, <1>3, SearchAssumption DEF IndexInv, IndexTypeOK, SearchMissesNothing,
     SearchTells, Holding, QueryRecord
<1>7. /\ query' \in QueryRecord
      /\ query'.rows \in {query.rows, Quiet.rows, Opened.rows}
      /\ query'.old \in {query.old, NoIndex}
  BY <1>2
<1> QED BY <1>3, <1>4, <1>5, <1>6, <1>7, SearchOnly

LEMMA CheckAgainInv == IndexInv /\ CheckAgain => IndexInv'
<1> SUFFICES ASSUME IndexInv, CheckAgain PROVE IndexInv'
  OBVIOUS
<1>1. query \in QueryRecord /\ index \in Index
  BY DEF IndexInv, IndexTypeOK
<1>2. /\ query' \in QueryRecord
      /\ query'.pc = "hits" /\ query'.held = query.held /\ query'.view = NoBase
      /\ query'.stamp = 0 /\ query'.pages = {} /\ query'.paged = FALSE /\ query'.hits = {}
      /\ query'.rows = Quiet.rows /\ query'.left = query.left /\ query'.mixed = {}
      /\ query'.out = {p \in IF query.paged /\ base.stamp = query.stamp
                              THEN query.pages ELSE Pages : query.view.has[p]}
      /\ query'.gone = FALSE /\ query'.old = NoIndex
  <2> DEFINE out == {p \in IF query.paged /\ base.stamp = query.stamp
                          THEN query.pages ELSE Pages : query.view.has[p]}
  <2>1. query' = [Quiet EXCEPT !.pc = "hits", !.held = query.held, !.left = query.left,
                              !.out = out]
    BY DEF CheckAgain
  <2>2. /\ out \subseteq Docs \cup Pages /\ "hits" \in Queries
        /\ query.held \subseteq Docs \cup Pages /\ query.left \subseteq Docs
    BY <1>1 DEF QueryRecord, Queries
  <2> HIDE DEF out
  <2>3. query' \in QueryRecord
    BY <2>1, <2>2, IndexConstants DEF QueryRecord
  <2>4. query'.out = out
    BY <2>1, IndexConstants DEF QueryRecord
  <2>5. /\ query'.pc = "hits" /\ query'.held = query.held /\ query'.view = NoBase
        /\ query'.stamp = 0 /\ query'.pages = {} /\ query'.paged = FALSE /\ query'.hits = {}
        /\ query'.rows = Quiet.rows /\ query'.left = query.left /\ query'.mixed = {}
        /\ query'.gone = FALSE /\ query'.old = NoIndex
    BY <2>1, IndexConstants, QuietFields DEF QueryRecord
  <2> QED BY <2>3, <2>4, <2>5 DEF out
<1>3. UNCHANGED <<doc, base, index, refresh, changes>>
  BY DEF CheckAgain
<1>4. query'.stamp <= changes
  BY <1>2, IndexConstants DEF IndexInv, StampsTell, IndexTypeOK, Stamp, Base
<1>5. SearchTells'
  BY <1>1, <1>2, <1>3, IndexConstants, SearchAssumption DEF CheckAgain, IndexInv,
     IndexTypeOK, StampsTell, SearchTells, OfItsStamp, Opened, Holding, Base, Index, Row,
     Stamp
<1>6. SearchMissesNothing'
  BY <1>1, <1>2, <1>3, SearchAssumption DEF IndexInv, IndexTypeOK, SearchMissesNothing,
     SearchTells, Holding, QueryRecord
<1>7. /\ query' \in QueryRecord
      /\ query'.rows \in {query.rows, Quiet.rows, Opened.rows}
      /\ query'.old \in {query.old, NoIndex}
  BY <1>2
<1> QED BY <1>3, <1>4, <1>5, <1>6, <1>7, SearchOnly

LEMMA DocHitsInv == IndexInv /\ DocHits => IndexInv'
<1> SUFFICES ASSUME IndexInv, DocHits PROVE IndexInv'
  OBVIOUS
<1>1. query \in QueryRecord /\ index \in Index
  BY DEF IndexInv, IndexTypeOK
<1>2. /\ query' \in QueryRecord
      /\ query'.pc = (IF index.there THEN "rows" ELSE "read") /\ query'.held = query.held
      /\ query'.view = query.view /\ query'.stamp = query.stamp
      /\ query'.pages = query.pages /\ query'.paged = query.paged
      /\ query'.hits = (IF index.there THEN {d \in Docs : index.rows[d].has} ELSE query.hits)
      /\ query'.rows = query.rows /\ query'.left = query.left /\ query'.mixed = query.mixed
      /\ query'.out = query.out /\ query'.gone = query.gone /\ query'.old = query.old
  BY <1>1 DEF DocHits, Queries, QueryRecord
<1>3. UNCHANGED <<doc, base, index, refresh, changes>>
  BY DEF DocHits
<1>4. query'.stamp <= changes
  BY <1>2, IndexConstants DEF IndexInv, StampsTell, IndexTypeOK, Stamp, Base
<1>5. SearchTells'
  BY <1>1, <1>2, <1>3, IndexConstants, SearchAssumption DEF DocHits, IndexInv, IndexTypeOK,
     StampsTell, SearchTells, OfItsStamp, Opened, Holding, Base, Index, Row, Stamp
<1>6. SearchMissesNothing'
  BY <1>1, <1>2, <1>3, SearchAssumption DEF IndexInv, IndexTypeOK, SearchMissesNothing,
     SearchTells, Holding, QueryRecord
<1>7. /\ query' \in QueryRecord
      /\ query'.rows \in {query.rows, Quiet.rows, Opened.rows}
      /\ query'.old \in {query.old, NoIndex}
  BY <1>2
<1> QED BY <1>3, <1>4, <1>5, <1>6, <1>7, SearchOnly

LEMMA DocRowsInv == IndexInv /\ DocRows => IndexInv'
<1> SUFFICES ASSUME IndexInv, DocRows PROVE IndexInv'
  OBVIOUS
<1>1. query \in QueryRecord /\ Opened \in Index
  BY DEF IndexInv, IndexTypeOK, QueryRecord, Opened
<1>2. /\ query' \in QueryRecord
      /\ query'.pc = "compare" /\ query'.held = query.held /\ query'.view = query.view
      /\ query'.stamp = query.stamp /\ query'.pages = query.pages
      /\ query'.paged = query.paged /\ query'.hits = query.hits /\ query'.rows = Opened.rows
      /\ query'.left = query.left /\ query'.mixed = query.mixed /\ query'.out = query.out
      /\ query'.gone = query.gone /\ query'.old = query.old
  <2>1. Opened.rows \in [Docs -> Row]
    BY <1>1 DEF Index
  <2> HIDE DEF Opened
  <2> QED BY <1>1, <2>1 DEF DocRows, Queries, QueryRecord
<1>3. UNCHANGED <<doc, base, index, refresh, changes>>
  BY DEF DocRows
<1>4. query'.stamp <= changes
  BY <1>2 DEF IndexInv, StampsTell
<1>5. SearchTells'
  BY <1>2, <1>3 DEF DocRows, IndexInv, SearchTells, Holding
<1>6. SearchMissesNothing'
  BY <1>2 DEF SearchMissesNothing
<1>7. /\ query' \in QueryRecord
      /\ query'.rows \in {query.rows, Quiet.rows, Opened.rows}
      /\ query'.old \in {query.old, NoIndex}
  BY <1>2, Zenon
<1> QED BY <1>3, <1>4, <1>5, <1>6, <1>7, SearchOnly

LEMMA CompareInv == IndexInv /\ Compare => IndexInv'
<1> SUFFICES ASSUME IndexInv, Compare PROVE IndexInv'
  OBVIOUS
<1>1. query \in QueryRecord /\ index \in Index
  BY DEF IndexInv, IndexTypeOK
<1>2. /\ query' \in QueryRecord
      /\ query'.pc = "read" /\ query'.held = query.held /\ query'.view = query.view
      /\ query'.stamp = query.stamp /\ query'.pages = query.pages
      /\ query'.paged = query.paged /\ query'.hits = {} /\ query'.rows = Quiet.rows
      /\ query'.left = (IF \E d \in query.left \ query.hits : doc[d].stamp = 0
                          THEN query.left
                          ELSE {d \in query.left :
                                  d \in query.hits \/ query.rows[d].stamp # doc[d].stamp})
      /\ query'.mixed = query.mixed /\ query'.out = query.out /\ query'.gone = FALSE
      /\ query'.old = NoIndex
  <2> DEFINE left == IF \E d \in query.left \ query.hits : doc[d].stamp = 0
                     THEN query.left
                     ELSE {d \in query.left :
                             d \in query.hits \/ query.rows[d].stamp # doc[d].stamp}
  <2>1. query' = [query EXCEPT !.pc = "read", !.gone = FALSE, !.old = NoIndex, !.hits = {},
                              !.rows = Quiet.rows, !.left = left]
    BY DEF Compare
  <2>2. left \subseteq Docs /\ "read" \in Queries /\ Quiet.rows \in [Docs -> Row]
    BY <1>1, IndexConstants DEF QueryRecord, Queries
  <2> HIDE DEF left
  <2>3. query' \in QueryRecord /\ query'.left = left
    BY <1>1, <2>1, <2>2, IndexConstants DEF QueryRecord
  <2>4. /\ query'.pc = "read" /\ query'.held = query.held /\ query'.view = query.view
        /\ query'.stamp = query.stamp /\ query'.pages = query.pages
        /\ query'.paged = query.paged /\ query'.hits = {} /\ query'.rows = Quiet.rows
        /\ query'.mixed = query.mixed /\ query'.out = query.out /\ query'.gone = FALSE
        /\ query'.old = NoIndex
    BY <1>1, <2>1 DEF QueryRecord
  <2> QED BY <2>3, <2>4 DEF left
<1>3. UNCHANGED <<doc, base, index, refresh, changes>>
  BY DEF Compare
<1>4. query'.stamp <= changes
  BY <1>2, IndexConstants DEF IndexInv, StampsTell, IndexTypeOK, Stamp, Base
<1>5. SearchTells'
  BY <1>1, <1>2, <1>3, IndexConstants, SearchAssumption DEF Compare, IndexInv, IndexTypeOK,
     StampsTell, SearchTells, OfItsStamp, Opened, Holding, Base, Index, Row, Stamp
<1>6. SearchMissesNothing'
  BY <1>1, <1>2, <1>3, SearchAssumption DEF IndexInv, IndexTypeOK, SearchMissesNothing,
     SearchTells, Holding, QueryRecord
<1>7. /\ query' \in QueryRecord
      /\ query'.rows \in {query.rows, Quiet.rows, Opened.rows}
      /\ query'.old \in {query.old, NoIndex}
  BY <1>2
<1> QED BY <1>3, <1>4, <1>5, <1>6, <1>7, SearchOnly

LEMMA ReadCandidatesInv == IndexInv /\ ReadCandidates => IndexInv'
<1> SUFFICES ASSUME IndexInv, ReadCandidates PROVE IndexInv'
  OBVIOUS
<1>1. query \in QueryRecord /\ index \in Index
  BY DEF IndexInv, IndexTypeOK
<1>2. /\ query' \in QueryRecord
      /\ query'.pc = "done" /\ query'.held = query.held /\ query'.view = query.view
      /\ query'.stamp = query.stamp /\ query'.pages = query.pages
      /\ query'.paged = query.paged /\ query'.hits = query.hits /\ query'.rows = query.rows
      /\ query'.left = {} /\ query'.mixed = query.mixed
      /\ query'.out = query.out \cup {d \in query.left : doc[d].stamp # 0 /\ doc[d].has}
      /\ query'.gone = query.gone /\ query'.old = query.old
  BY <1>1 DEF ReadCandidates, Queries, QueryRecord
<1>3. UNCHANGED <<doc, base, index, refresh, changes>>
  BY DEF ReadCandidates
<1>4. query'.stamp <= changes
  BY <1>2, IndexConstants DEF IndexInv, StampsTell, IndexTypeOK, Stamp, Base
<1>5. SearchTells'
  BY <1>1, <1>2, <1>3, IndexConstants, SearchAssumption DEF ReadCandidates, IndexInv,
     IndexTypeOK, StampsTell, SearchTells, OfItsStamp, Opened, Holding, Base, Index, Row,
     Stamp
<1>6. SearchMissesNothing'
  <2> SUFFICES ASSUME NEW x \in query.held, x \notin query.mixed PROVE x \in query'.out
    BY <1>2 DEF SearchMissesNothing
  <2>1. x \in Docs \cup Pages /\ x \in Holding(doc, base)
    BY <1>1 DEF QueryRecord, IndexInv, SearchTells
  <2>2. CASE x \in Pages
    BY <2>2, <1>2 DEF ReadCandidates, IndexInv, SearchTells
  <2>3. CASE x \in Docs
    <3>1. x \in query.left
      BY <2>3 DEF ReadCandidates, IndexInv, SearchTells
    <3>2. doc[x].stamp # 0 /\ doc[x].has
      BY <2>1, <2>3, SearchAssumption DEF Holding
    <3> QED BY <1>2, <3>1, <3>2
  <2> QED BY <2>1, <2>2, <2>3
<1>7. /\ query' \in QueryRecord
      /\ query'.rows \in {query.rows, Quiet.rows, Opened.rows}
      /\ query'.old \in {query.old, NoIndex}
  BY <1>2
<1> QED BY <1>3, <1>4, <1>5, <1>6, <1>7, SearchOnly

\* One lemma for each step of a refresh of the index.
LEMMA PassOverInv == IndexInv /\ PassOver => IndexInv'
<1> SUFFICES ASSUME IndexInv, PassOver PROVE IndexInv'
  OBVIOUS
<1>1. PICK d \in refresh.threads : refresh' = [refresh EXCEPT !.threads = @ \ {d}]
  BY DEF PassOver
<1>2. /\ refresh' \in RefreshRecord /\ refresh'.at = refresh.at /\ refresh'.pc = "files"
      /\ refresh'.threads \subseteq refresh.threads
  BY <1>1 DEF PassOver, IndexInv, IndexTypeOK, RefreshRecord
<1>3. RefreshTells'
  BY <1>2 DEF PassOver, IndexInv, RefreshTells
<1> QED BY <1>2, <1>3, RefreshOnly DEF PassOver, IndexInv, StampsTell

LEMMA AddBeginInv == IndexInv /\ AddBegin => IndexInv'
<1> SUFFICES ASSUME IndexInv, AddBegin PROVE IndexInv'
  OBVIOUS
<1>1. PICK d \in refresh.threads :
         /\ doc[d].stamp # 0
         /\ refresh' = [refresh EXCEPT !.pc = "read", !.of = d,
                                 !.threads = @ \ {d},
                                 !.at = [stamp |-> doc[d].stamp, has |-> FALSE]]
  BY DEF AddBegin
<1>2. d \in Docs /\ refresh.threads \subseteq Docs
  BY DEF AddBegin, IndexInv, RefreshTells
<1>3. [stamp |-> doc[d].stamp, has |-> FALSE] \in Row
  BY <1>2 DEF IndexInv, IndexTypeOK, Row
<1>4. /\ refresh' \in RefreshRecord /\ refresh'.at.stamp = doc[d].stamp
      /\ refresh'.pc = "read" /\ refresh'.threads \subseteq refresh.threads
  BY <1>1, <1>2, <1>3 DEF IndexInv, IndexTypeOK, RefreshRecord, Refreshes
<1>5. RefreshTells'
  BY <1>1, <1>2, <1>4 DEF RefreshTells
<1> QED BY <1>2, <1>4, <1>5, RefreshOnly DEF AddBegin, IndexInv, StampsTell

LEMMA ReadDocInv == IndexInv /\ ReadDoc => IndexInv'
<1> SUFFICES ASSUME IndexInv, ReadDoc PROVE IndexInv'
  OBVIOUS
<1>1. refresh \in RefreshRecord /\ doc[refresh.of] \in Row /\ refresh.at \in Row
  BY DEF IndexInv, IndexTypeOK, RefreshRecord
<1>2. CASE doc[refresh.of].stamp = 0
  <2>1. /\ refresh' \in RefreshRecord /\ refresh'.at = NoRow /\ refresh'.pc = "files"
        /\ refresh'.threads = refresh.threads
    BY <1>1, <1>2, IndexConstants DEF ReadDoc, RefreshRecord, Refreshes
  <2>2. RefreshTells' /\ 0 <= changes
    BY <2>1, IndexConstants DEF ReadDoc, IndexInv, RefreshTells, IndexTypeOK
  <2> QED BY <2>1, <2>2, RefreshOnly, IndexConstants DEF ReadDoc
<1>3. CASE doc[refresh.of].stamp # 0
  <2>1. /\ refresh' \in RefreshRecord /\ refresh'.at \in Row
        /\ refresh'.at.stamp = refresh.at.stamp
           /\ refresh'.at.has = doc[refresh.of].has /\ refresh'.of = refresh.of
           /\ refresh'.pc = "add" /\ refresh'.threads = refresh.threads
    BY <1>1, <1>3 DEF ReadDoc, RefreshRecord, Refreshes, Row
  <2>2. OfItsStamp(refresh'.at, refresh.of)
    BY <1>1, <2>1 DEF OfItsStamp, Row
  <2>3. RefreshTells'
    BY <2>1, <2>2 DEF ReadDoc, IndexInv, RefreshTells, OfItsStamp
  <2> QED BY <2>1, <2>3, RefreshOnly DEF ReadDoc, IndexInv, StampsTell
<1> QED BY <1>2, <1>3

LEMMA ViewBaseInv == IndexInv /\ ViewBase => IndexInv'
<1> SUFFICES ASSUME IndexInv, ViewBase PROVE IndexInv'
  OBVIOUS
<1>1. refresh \in RefreshRecord /\ base \in Base
  BY DEF IndexInv, IndexTypeOK
<1>2. /\ refresh' \in RefreshRecord /\ refresh'.pc = "pages" /\ refresh'.at = refresh.at
      /\ refresh'.view = base /\ refresh'.threads = Pages
  BY <1>1 DEF ViewBase, RefreshRecord, Refreshes
<1>3. RefreshTells'
  BY <1>2 DEF ViewBase, IndexInv, RefreshTells
<1> QED BY <1>2, <1>3, RefreshOnly DEF ViewBase, IndexInv, StampsTell

LEMMA CancelledInv == IndexInv /\ Cancelled => IndexInv'
<1> SUFFICES ASSUME IndexInv, Cancelled PROVE IndexInv'
  OBVIOUS
<1>1. Rest.pc = "none" /\ Rest.at = NoRow /\ 0 <= changes
  BY IndexConstants DEF Rest, IndexInv, IndexTypeOK
<1>2. RefreshTells'
  BY <1>1 DEF Cancelled, RefreshTells
<1> QED BY <1>1, <1>2, RefreshOnly, IndexConstants DEF Cancelled

LEMMA BuildStartInv == IndexInv /\ BuildStart => IndexInv'
<1> SUFFICES ASSUME IndexInv, BuildStart PROVE IndexInv'
  OBVIOUS
<1>1. index \in Index /\ There \subseteq Docs
  BY DEF IndexInv, IndexTypeOK, There
<1>2. /\ refresh' \in RefreshRecord /\ refresh'.pc = "files" /\ refresh'.threads = There
      /\ refresh'.at = NoRow
  BY <1>1, IndexConstants DEF BuildStart, RefreshRecord, Refreshes, Rest
<1>3. /\ index' \in Index /\ index'.rows = index.rows /\ index'.pages = index.pages
      /\ index'.stamp = index.stamp
  BY <1>1 DEF BuildStart, Index
<1>4. IndexTypeOK'
  BY <1>2, <1>3 DEF BuildStart, IndexInv, IndexTypeOK
<1>5. StampsTell'
  <2>1. 0 <= changes
    BY IndexConstants DEF IndexInv, IndexTypeOK
  <2> QED BY <1>2, <1>3, <2>1, IndexConstants DEF BuildStart, IndexInv, StampsTell, OfItsStamp
<1>6. RefreshTells'
  BY <1>1, <1>2 DEF RefreshTells
<1>7. SearchTells' /\ SearchMissesNothing'
  BY <1>3 DEF BuildStart, IndexInv, SearchTells, SearchMissesNothing, Opened, Holding
<1> QED BY <1>4, <1>5, <1>6, <1>7 DEF IndexInv

LEMMA AddFileInv == IndexInv /\ AddFile => IndexInv'
<1> SUFFICES ASSUME IndexInv, AddFile PROVE IndexInv'
  OBVIOUS
<1>1. /\ index \in Index /\ refresh \in RefreshRecord /\ query \in QueryRecord
      /\ refresh.of \in Docs /\ refresh.at \in Row
  BY DEF IndexInv, IndexTypeOK, RefreshRecord
<1>2. /\ refresh' \in RefreshRecord /\ refresh'.pc = "files" /\ refresh'.at = NoRow
      /\ refresh'.threads = refresh.threads
  BY <1>1, IndexConstants DEF AddFile, RefreshRecord, Refreshes
<1>3. /\ index' \in Index /\ index'.stamp = index.stamp /\ index'.pages = index.pages
      /\ \A d \in Docs : \/ index'.rows[d] = index.rows[d]
                         \/ d = refresh.of /\ index'.rows[d] = refresh.at
  <2>1. CASE index' = index
    BY <1>1, <2>1
  <2>2. CASE index' = [index EXCEPT !.rows[refresh.of] = refresh.at]
    <3>1. index'.rows = [index.rows EXCEPT ![refresh.of] = refresh.at]
      BY <1>1, <2>2 DEF Index
    <3>2. index'.rows \in [Docs -> Row]
      <4>1. index.rows \in [Docs -> Row]
        BY <1>1 DEF Index
      <4> QED BY <1>1, <3>1, <4>1
    <3> QED BY <1>1, <2>2, <3>1, <3>2 DEF Index
  <2> QED BY <2>1, <2>2 DEF AddFile
<1>4. /\ query' \in QueryRecord /\ query'.rows = query.rows /\ query'.old = query.old
      /\ query'.stamp = query.stamp
  <2>1. CASE query' = query
    BY <1>1, <2>1
  <2>2. CASE query.pc = "rows" /\ query' = [query EXCEPT !.mixed = @ \cup {refresh.of}]
    BY <1>1, <2>2 DEF QueryRecord
  <2> QED BY <2>1, <2>2 DEF AddFile
<1>5. IndexTypeOK'
  BY <1>2, <1>3, <1>4 DEF AddFile, IndexInv, IndexTypeOK
<1>6. StampsTell'
  <2>1. 0 <= changes
    BY IndexConstants DEF IndexInv, IndexTypeOK
  <2>2. OfItsStamp(refresh.at, refresh.of) /\ refresh.at.stamp <= changes
    BY DEF AddFile, IndexInv, RefreshTells, StampsTell
  <2> QED
    BY <1>2, <1>3, <1>4, <2>1, <2>2, IndexConstants DEF AddFile, IndexInv, StampsTell,
       OfItsStamp
<1>7. RefreshTells'
  BY <1>2 DEF AddFile, IndexInv, RefreshTells
<1>8. SearchTells'
  <2>0. /\ query.held \subseteq Holding(doc', base') /\ base' = base
        /\ query'.pc = query.pc /\ query'.held = query.held /\ query'.view = query.view
        /\ query'.pages = query.pages /\ query'.paged = query.paged
        /\ query'.hits = query.hits /\ query'.left = query.left /\ query'.out = query.out
        /\ query'.gone = query.gone /\ query'.old = query.old
    BY <1>1 DEF AddFile, IndexInv, SearchTells, QueryRecord
  <2>1. CASE query.pc = "rows" /\ ~query.gone
    <3>1. Opened = index /\ Opened' = index'
      BY <2>0, <2>1 DEF Opened
    <3>2. ASSUME NEW d \in Docs \ (query'.hits \cup query'.mixed) PROVE ~Opened'.rows[d].has
      <4>1. CASE index' = index /\ query' = query
        BY <2>1, <3>1, <4>1 DEF IndexInv, SearchTells
      <4>2. CASE query' = [query EXCEPT !.mixed = @ \cup {refresh.of}]
        <5>1. query'.mixed = query.mixed \cup {refresh.of}
          BY <1>1, <4>2 DEF QueryRecord
        <5>2. index'.rows[d] = index.rows[d] /\ ~index.rows[d].has
          BY <1>3, <2>0, <2>1, <3>1, <5>1 DEF IndexInv, SearchTells
        <5> QED BY <3>1, <5>2
      <4> QED BY <2>1, <4>1, <4>2 DEF AddFile
    <3>3. /\ query.held \cap Pages \subseteq query.out
          /\ query.held \cap Docs \subseteq query.left
      BY <2>1 DEF IndexInv, SearchTells
    <3> HIDE DEF Opened, Holding
    <3> QED BY <2>0, <2>1, <3>2, <3>3 DEF SearchTells
  <2>2. CASE ~(query.pc = "rows" /\ ~query.gone)
    <3>1. query' = query
      BY <2>2 DEF AddFile
    <3>2. Opened'.stamp = Opened.stamp /\ Opened'.pages = Opened.pages
      BY <1>3, <3>1 DEF Opened
    <3>3. query.pc = "rows" => Opened' = Opened
      BY <2>2, <3>1 DEF Opened
    <3> HIDE DEF Opened, Holding
    <3> QED BY <2>0, <3>1, <3>2, <3>3 DEF IndexInv, SearchTells
  <2> QED BY <2>1, <2>2
<1>9. SearchMissesNothing'
  BY <1>1 DEF AddFile, IndexInv, SearchMissesNothing, QueryRecord
<1> QED BY <1>5, <1>6, <1>7, <1>8, <1>9 DEF IndexInv

LEMMA PruneInv == IndexInv /\ Prune => IndexInv'
<1> SUFFICES ASSUME IndexInv, Prune PROVE IndexInv'
  OBVIOUS
<1>1. index \in Index /\ NoRow \in Row
  BY IndexConstants DEF IndexInv, IndexTypeOK
<1>2. /\ refresh' \in RefreshRecord /\ refresh'.pc = "stamp" /\ refresh'.at = NoRow
  BY IndexConstants DEF Prune, RefreshRecord, Refreshes, Rest
<1>3. /\ index' \in Index /\ index'.stamp = index.stamp /\ index'.pages = index.pages
      /\ \A d \in Docs : index'.rows[d] = index.rows[d] \/ index'.rows[d] = NoRow
  <2> DEFINE rows == [d \in Docs |-> IF d \in refresh.found THEN index.rows[d] ELSE NoRow]
  <2>1. index' = [index EXCEPT !.rows = rows]
    BY DEF Prune
  <2>2. rows \in [Docs -> Row]
    BY <1>1 DEF Index
  <2>3. \A d \in Docs : rows[d] = index.rows[d] \/ rows[d] = NoRow
    OBVIOUS
  <2> HIDE DEF rows
  <2> QED BY <1>1, <2>1, <2>2, <2>3 DEF Index
<1>4. IndexTypeOK'
  BY <1>2, <1>3 DEF Prune, IndexInv, IndexTypeOK
<1>5. StampsTell'
  <2>1. 0 <= changes
    BY IndexConstants DEF IndexInv, IndexTypeOK
  <2> QED BY <1>2, <1>3, <2>1, IndexConstants DEF Prune, IndexInv, StampsTell, OfItsStamp
<1>6. RefreshTells'
  BY <1>2 DEF RefreshTells
<1>7. SearchTells'
  BY <1>3, IndexConstants DEF Prune, IndexInv, SearchTells, Opened, Holding
<1>8. SearchMissesNothing'
  BY DEF Prune, IndexInv, SearchMissesNothing
<1> QED BY <1>4, <1>5, <1>6, <1>7, <1>8 DEF IndexInv

LEMMA StampBaseInv == IndexInv /\ StampBase => IndexInv'
<1> SUFFICES ASSUME IndexInv, StampBase PROVE IndexInv'
  OBVIOUS
<1>1. index \in Index /\ refresh \in RefreshRecord /\ base \in Base /\ refresh.at \in Row
  BY DEF IndexInv, IndexTypeOK, RefreshRecord
<1>2. 0 <= changes /\ base.stamp \in 1..changes
  BY IndexConstants DEF IndexInv, IndexTypeOK, StampsTell
<1>3. /\ refresh' \in RefreshRecord /\ refresh'.pc \in {"none", "view"}
      /\ refresh'.at.stamp \in {0, base.stamp}
      /\ refresh'.pc = "view" => index'.stamp = 0
  <2>1. CASE refresh' = Rest
    <3>1. Rest.pc = "none" /\ Rest.at.stamp = 0
      BY IndexConstants DEF Rest
    <3> QED BY <2>1, <3>1, IndexConstants
  <2>2. CASE /\ index' = [index EXCEPT !.stamp = 0]
             /\ refresh' = [refresh EXCEPT !.pc = "view", !.at.stamp = base.stamp]
    <3>1. index'.stamp = 0
      BY <1>1, <2>2 DEF Index
    <3>2. /\ [refresh.at EXCEPT !.stamp = base.stamp] \in Row
          /\ [refresh.at EXCEPT !.stamp = base.stamp].stamp = base.stamp
      BY <1>1 DEF Row, Base
    <3> QED BY <1>1, <2>2, <3>1, <3>2 DEF RefreshRecord, Refreshes
  <2> QED BY <2>1, <2>2 DEF StampBase
<1>4. /\ index' \in Index /\ index'.stamp \in {0, index.stamp} /\ index'.pages = index.pages
      /\ index'.rows = index.rows
  BY <1>1, IndexConstants DEF StampBase, Index
<1>5. IndexTypeOK'
  BY <1>3, <1>4 DEF StampBase, IndexInv, IndexTypeOK
<1>6. StampsTell'
  BY <1>3, <1>4, <1>2, IndexConstants DEF StampBase, IndexInv, StampsTell, OfItsStamp
<1>7. RefreshTells'
  BY <1>3 DEF RefreshTells
<1>8. SearchTells'
  <2>1. Opened'.rows = Opened.rows /\ Opened'.pages = Opened.pages
    BY <1>4 DEF StampBase, Opened
  <2>2. Opened.stamp = base.stamp => Opened'.stamp = base.stamp
    BY <1>2 DEF StampBase, Opened
  <2>3. query.held \subseteq Holding(doc', base')
    BY DEF StampBase, IndexInv, SearchTells
  <2> HIDE DEF Opened, Holding
  <2> QED BY <2>1, <2>2, <2>3 DEF StampBase, IndexInv, SearchTells
<1>9. SearchMissesNothing'
  BY DEF StampBase, IndexInv, SearchMissesNothing
<1> QED BY <1>5, <1>6, <1>7, <1>8, <1>9 DEF IndexInv

LEMMA AddPagesInv == IndexInv /\ AddPages => IndexInv'
<1> SUFFICES ASSUME IndexInv, AddPages PROVE IndexInv'
  OBVIOUS
<1>1. index \in Index /\ refresh \in RefreshRecord
  BY DEF IndexInv, IndexTypeOK
<1>2. PICK p \in refresh.threads :
         /\ index' = [index EXCEPT !.pages[p] = refresh.view.has[p]]
         /\ refresh' = [refresh EXCEPT !.threads = @ \ {p}]
  BY DEF AddPages
<1>3. p \in Pages /\ refresh.view \in Base
  BY <1>1 DEF AddPages, IndexInv, RefreshTells, RefreshRecord
<1>4. /\ index' \in Index /\ index'.stamp = index.stamp /\ index'.rows = index.rows
      /\ index'.pages[p] = refresh.view.has[p]
      /\ \A q \in Pages : q # p => index'.pages[q] = index.pages[q]
  BY <1>1, <1>2, <1>3 DEF Index, Base
<1>5. /\ refresh' \in RefreshRecord /\ refresh'.pc = refresh.pc /\ refresh'.at = refresh.at
      /\ refresh'.view = refresh.view /\ refresh'.threads = refresh.threads \ {p}
  BY <1>1, <1>2 DEF RefreshRecord
<1>6. IndexTypeOK'
  BY <1>4, <1>5 DEF AddPages, IndexInv, IndexTypeOK
<1>7. index.stamp = 0 /\ base.stamp # 0
  BY IndexConstants DEF AddPages, IndexInv, IndexTypeOK, RefreshTells, StampsTell
<1>8. StampsTell'
  BY <1>4, <1>5, <1>7 DEF AddPages, IndexInv, StampsTell, OfItsStamp
<1>9. RefreshTells'
  BY <1>4, <1>5 DEF AddPages, IndexInv, RefreshTells
<1>10. SearchTells'
  <2>1. index'.stamp = 0 => Opened'.stamp = Opened.stamp /\ Opened'.rows = Opened.rows
    BY <1>4 DEF AddPages, Opened
  <2>2. Opened.stamp = base.stamp => Opened' = Opened
    BY <1>7 DEF AddPages, Opened
  <2>3. query.held \subseteq Holding(doc', base')
    BY DEF AddPages, IndexInv, SearchTells
  <2> HIDE DEF Opened, Holding
  <2> QED BY <1>4, <1>7, <2>1, <2>2, <2>3 DEF AddPages, IndexInv, SearchTells
<1>11. SearchMissesNothing'
  BY DEF AddPages, IndexInv, SearchMissesNothing
<1> QED BY <1>6, <1>8, <1>9, <1>10, <1>11 DEF IndexInv

LEMMA CommitStampInv == IndexInv /\ CommitStamp => IndexInv'
<1> SUFFICES ASSUME IndexInv, CommitStamp PROVE IndexInv'
  OBVIOUS
<1>1. index \in Index /\ base \in Base
  BY DEF IndexInv, IndexTypeOK
<1>2. /\ refresh' \in RefreshRecord /\ refresh'.pc = "none" /\ refresh'.at = NoRow
  BY IndexConstants DEF CommitStamp, Rest
<1>3. /\ index' \in Index /\ index'.rows = index.rows /\ index'.pages = index.pages
      /\ index'.stamp = IF base.stamp = refresh.at.stamp THEN base.stamp ELSE 0
  <2>1. base.stamp \in Stamp /\ 0 \in Stamp
    BY <1>1, IndexConstants DEF Base
  <2> QED BY <1>1, <2>1 DEF CommitStamp, Index
<1>4. IndexTypeOK'
  BY <1>2, <1>3 DEF CommitStamp, IndexInv, IndexTypeOK
<1>5. 0 <= changes /\ base.stamp \in 1..changes
  BY IndexConstants DEF IndexInv, IndexTypeOK, StampsTell
<1>6. index'.stamp = base.stamp => index.pages = base.has
  <2> SUFFICES ASSUME index'.stamp = base.stamp PROVE index.pages = base.has
    OBVIOUS
  <2>1. base.stamp = refresh.at.stamp
    BY <1>3, <1>5
  <2>2. \A p \in Pages : index.pages[p] = base.has[p]
    BY <2>1 DEF CommitStamp, IndexInv, RefreshTells
  <2> QED BY <1>1, <2>2 DEF Index, Base
<1>7. StampsTell'
  BY <1>2, <1>3, <1>5, <1>6, IndexConstants DEF CommitStamp, IndexInv, StampsTell,
     OfItsStamp
<1>8. RefreshTells'
  BY <1>2 DEF RefreshTells
<1>9. SearchTells'
  <2>1. index.stamp = 0
    BY DEF CommitStamp, IndexInv, RefreshTells
  <2> QED BY <1>3, <1>5, <2>1 DEF CommitStamp, IndexInv, SearchTells, Opened, Holding
<1>10. SearchMissesNothing'
  BY DEF CommitStamp, IndexInv, SearchMissesNothing
<1> QED BY <1>4, <1>7, <1>8, <1>9, <1>10 DEF IndexInv

LEMMA RemoveIndexInv == IndexInv /\ RemoveIndex => IndexInv'
<1> SUFFICES ASSUME IndexInv, RemoveIndex PROVE IndexInv'
  OBVIOUS
<1>1. query \in QueryRecord /\ Opened \in Index /\ NoIndex \in Index
  BY IndexConstants DEF IndexInv, IndexTypeOK, QueryRecord, Opened
<1>2. /\ query' \in QueryRecord
      /\ query'.pc = query.pc /\ query'.held = query.held /\ query'.view = query.view
      /\ query'.stamp = query.stamp /\ query'.pages = query.pages
      /\ query'.paged = query.paged /\ query'.hits = query.hits /\ query'.rows = query.rows
      /\ query'.left = query.left /\ query'.mixed = query.mixed /\ query'.out = query.out
      /\ query.pc \in {"pages", "rows"} => Opened' = Opened
      /\ query.pc \notin {"pages", "rows"} => query'.gone = query.gone
      /\ query'.old \in {query.old, Opened}
  <2>1. CASE query.pc \in {"pages", "rows"}
    <3>1. query' = [query EXCEPT !.gone = TRUE, !.old = Opened]
      BY <2>1 DEF RemoveIndex
    <3>2. query' \in QueryRecord /\ query'.gone /\ query'.old = Opened
      <4> HIDE DEF Opened
      <4> QED BY <1>1, <3>1 DEF QueryRecord
    <3>3. Opened' = Opened
      BY <3>2 DEF Opened
    <3> HIDE DEF Opened
    <3> QED BY <1>1, <2>1, <3>1, <3>2, <3>3 DEF QueryRecord
  <2>2. CASE query.pc \notin {"pages", "rows"}
    BY <1>1, <2>2 DEF RemoveIndex
  <2> QED BY <2>1, <2>2
<1>3. UNCHANGED <<doc, base, refresh, changes>> /\ index' = NoIndex
  BY DEF RemoveIndex
<1>4. IndexTypeOK'
  BY <1>1, <1>2, <1>3 DEF IndexInv, IndexTypeOK
<1>5. StampsTell'
  <2>1. 0 <= changes /\ base.stamp \in 1..changes
    BY IndexConstants DEF IndexInv, IndexTypeOK, StampsTell
  <2> QED
    BY <1>2, <1>3, <2>1, IndexConstants DEF IndexInv, StampsTell, OfItsStamp, Opened
<1>6. RefreshTells'
  BY <1>3 DEF RemoveIndex, IndexInv, RefreshTells
<1>7. SearchTells'
  <2>1. query.held \subseteq Holding(doc', base')
    BY <1>3 DEF IndexInv, SearchTells
  <2> HIDE DEF Holding, Opened
  <2> QED BY <1>2, <1>3, <2>1 DEF IndexInv, SearchTells
<1>8. SearchMissesNothing'
  BY <1>2 DEF IndexInv, SearchMissesNothing
<1> QED BY <1>4, <1>5, <1>6, <1>7, <1>8 DEF IndexInv

\* Codex may only narrow what a search is held to.
LEMMA CodexOnly ==
    ASSUME IndexInv, UNCHANGED <<index, refresh>>, changes' = changes + 1, changes' \in Stamp,
           doc' \in [Docs -> Row], base' \in Base,
           query' = [query EXCEPT !.held = @ \cap Holding(doc', base')],
           \A d \in Docs : doc'[d] = doc[d] \/ doc'[d].stamp \in {0, changes'},
           base' = base \/ base'.stamp = changes'
    PROVE  IndexInv'
<1>1. /\ query \in QueryRecord /\ index \in Index /\ refresh \in RefreshRecord /\ base \in Base
      /\ changes \in Nat /\ changes + 1 \in Nat /\ changes < changes + 1
      /\ query.old \in Index /\ query.rows \in [Docs -> Row] /\ refresh.at \in Row
  BY IndexConstants DEF IndexInv, IndexTypeOK, QueryRecord, RefreshRecord
<1>2. /\ query' \in QueryRecord
      /\ query'.pc = query.pc /\ query'.held = query.held \cap Holding(doc', base')
      /\ query'.view = query.view /\ query'.stamp = query.stamp
      /\ query'.pages = query.pages /\ query'.paged = query.paged
      /\ query'.hits = query.hits /\ query'.rows = query.rows /\ query'.left = query.left
      /\ query'.mixed = query.mixed /\ query'.out = query.out /\ query'.gone = query.gone
      /\ query'.old = query.old
  BY <1>1 DEF QueryRecord
<1>3. IndexTypeOK'
  BY <1>2 DEF IndexInv, IndexTypeOK
<1>4. ASSUME NEW d \in Docs, NEW r \in Row, r.stamp <= changes, OfItsStamp(r, d)
      PROVE  r.stamp <= changes' /\ (r.stamp # 0 /\ r.stamp = doc'[d].stamp => r = doc'[d])
  BY <1>1, <1>4, IndexConstants DEF OfItsStamp, Row
<1>5. ASSUME NEW d \in Docs
      PROVE  index.rows[d] \in Row /\ query.rows[d] \in Row /\ query.old.rows[d] \in Row
  BY <1>1 DEF Index
<1>6. StampsTell'
  <2>1. \A d \in Docs : doc'[d].stamp <= changes'
    BY <1>1, IndexConstants DEF IndexInv, IndexTypeOK, StampsTell, Row
  <2>2. /\ base'.stamp \in 1..changes' /\ index'.stamp <= changes'
        /\ query'.stamp <= changes' /\ refresh'.at.stamp <= changes'
    BY <1>1, <1>2, IndexConstants DEF IndexInv, StampsTell, Base, Index, QueryRecord, Row
  <2>3. index'.stamp = base'.stamp => index'.pages = base'.has
    BY <1>1 DEF IndexInv, StampsTell, Index
  <2>4. ASSUME NEW d \in Docs
        PROVE  /\ index'.rows[d].stamp <= changes' /\ OfItsStamp(index.rows[d], d)'
               /\ query'.rows[d].stamp <= changes' /\ OfItsStamp(query.rows[d], d)'
               /\ query'.old.rows[d].stamp <= changes' /\ OfItsStamp(query.old.rows[d], d)'
    BY <1>2, <1>4, <1>5 DEF IndexInv, StampsTell, OfItsStamp
  <2> QED BY <1>2, <2>1, <2>2, <2>3, <2>4 DEF StampsTell, OfItsStamp
<1>7. RefreshTells'
  <2>1. refresh.pc = "add" => (/\ refresh.at.stamp # 0
                               /\ refresh.at.stamp = doc'[refresh.of].stamp
                                 => refresh.at = doc'[refresh.of])
    BY <1>1, <1>4 DEF IndexInv, RefreshTells, StampsTell, RefreshRecord
  <2>2. base'.stamp = refresh.at.stamp => base' = base
    BY <1>1 DEF IndexInv, StampsTell, Row
  <2> QED BY <2>1, <2>2 DEF IndexInv, RefreshTells, OfItsStamp
<1>8. SearchTells'
  <2>1. base'.stamp = query.stamp => base' = base
    BY <1>1 DEF IndexInv, StampsTell, QueryRecord
  <2> QED BY <1>2, <2>1 DEF IndexInv, SearchTells, Opened
<1>9. SearchMissesNothing'
  BY <1>2 DEF IndexInv, SearchMissesNothing
<1> QED BY <1>3, <1>6, <1>7, <1>8, <1>9 DEF IndexInv

\* Codex writes, deletes and commits.
LEMMA WritesInv == IndexInv /\ Writes => IndexInv'
<1> SUFFICES ASSUME IndexInv, Writes PROVE IndexInv'
  OBVIOUS
<1>1. changes' \in Stamp /\ changes' = changes + 1
  BY SearchAssumption DEF Writes, IndexInv, IndexTypeOK, Stamp
<1>2. PICK d \in Docs, has \in BOOLEAN :
        doc' = [doc EXCEPT ![d] = [stamp |-> changes', has |-> has]]
  BY DEF Writes
<1>3. doc' \in [Docs -> Row] /\ \A e \in Docs : doc'[e] = doc[e] \/ doc'[e].stamp = changes'
  BY <1>1, <1>2 DEF IndexInv, IndexTypeOK, Row
<1> QED BY <1>1, <1>3, CodexOnly DEF Writes, Still, IndexInv, IndexTypeOK

LEMMA DeletesInv == IndexInv /\ Deletes => IndexInv'
<1> SUFFICES ASSUME IndexInv, Deletes PROVE IndexInv'
  OBVIOUS
<1>1. changes' \in Stamp /\ changes' = changes + 1
  BY SearchAssumption DEF Deletes, IndexInv, IndexTypeOK, Stamp
<1>2. PICK d \in Docs : doc' = [doc EXCEPT ![d] = NoRow]
  BY DEF Deletes, There
<1>3. doc' \in [Docs -> Row] /\ \A e \in Docs : doc'[e] = doc[e] \/ doc'[e].stamp = 0
  BY <1>2, IndexConstants DEF IndexInv, IndexTypeOK
<1> QED BY <1>1, <1>3, CodexOnly DEF Deletes, Still, IndexInv, IndexTypeOK

LEMMA CommitsInv == IndexInv /\ Commits => IndexInv'
<1> SUFFICES ASSUME IndexInv, Commits PROVE IndexInv'
  OBVIOUS
<1>1. changes' \in Stamp /\ changes' = changes + 1
  BY SearchAssumption DEF Commits, IndexInv, IndexTypeOK, Stamp
<1>2. base' \in Base /\ base'.stamp = changes'
  BY <1>1 DEF Commits, Base
<1> QED BY <1>1, <1>2, CodexOnly DEF Commits, Still, IndexInv, IndexTypeOK

\* At the start nothing is indexed.
LEMMA IndexInitInv == IndexInit => IndexInv
<1> SUFFICES ASSUME IndexInit PROVE IndexInv
  OBVIOUS
<1>1. IndexTypeOK
  <2>1. [stamp |-> 1, has |-> FALSE] \in Row /\ base \in Base
    BY IndexConstants DEF IndexInit, Row, Base
  <2>2. doc \in [Docs -> Row]
    BY <2>1 DEF IndexInit
  <2> QED BY <2>1, <2>2, IndexConstants DEF IndexInit, IndexTypeOK
<1>2. \A d \in Docs : /\ NoIndex.rows[d] = NoRow
                      /\ Quiet.rows[d] = NoRow /\ Quiet.old.rows[d] = NoRow
  BY DEF NoIndex, Quiet
<1>3. StampsTell
  BY <1>2, IndexConstants DEF IndexInit, StampsTell, OfItsStamp, Rest, Quiet, NoIndex
<1>4. RefreshTells /\ SearchTells /\ SearchMissesNothing
  BY IndexConstants DEF IndexInit, RefreshTells, SearchTells, SearchMissesNothing, Rest, Quiet
<1> QED BY <1>1, <1>3, <1>4 DEF IndexInv

\* A step of something else.
LEMMA IndexStutters == IndexInv /\ UNCHANGED indexVars => IndexInv'
BY DEF indexVars, IndexInv, IndexTypeOK, StampsTell, RefreshTells, SearchTells,
   SearchMissesNothing, OfItsStamp, Opened, Holding

\* The invariant of the index is inductive.
LEMMA IndexStepInv == IndexInv /\ [SearchIndexNext]_indexVars => IndexInv'
BY WritesInv, DeletesInv, CommitsInv, BuildStartInv, PassOverInv, AddBeginInv, ReadDocInv,
   AddFileInv, PruneInv, StampBaseInv, ViewBaseInv, AddPagesInv, CommitStampInv,
   CancelledInv, RemoveIndexInv, SearchStartInv, CheckStampInv, PageHitsInv, CheckAgainInv,
   DocHitsInv, DocRowsInv, CompareInv, ReadCandidatesInv, IndexStutters DEF SearchIndexNext

\* A search finds every conversation that held the phrase from its start to its end,
\* whatever refreshes, stops and deletions of the index went on, but for those whose
\* row a refresh commits between the two statements of the search's look at the index
\* (vault_search_index.py:587-593).
THEOREM SearchesMissNothing == IndexSpec => []SearchMissesNothing
<1>1. IndexInv => SearchMissesNothing
  BY DEF IndexInv
<1> QED BY <1>1, IndexInitInv, IndexStepInv, PTL DEF IndexSpec

-----------------------------------------------------------------------------
\* Pairing: what the registry, the wizards and the service agree on.

\* What is at rest is typed.
LEMMA PairingConstants ==
    /\ Flows = {"setup", "recovery"}
    /\ Blank \in Records /\ Resting \in Works /\ Resting.pc = "none"
    /\ \A r \in Records, f \in Flows :
         /\ Opening(r, f) \in Memories
         /\ Opening(r, f).device = r[f]
         /\ Opening(r, f).phase \in {"start", "pairing_uncertain"}
         /\ (f = "setup" => Opening(r, f).bound = r.bound)
<1>1. Flows = {"setup", "recovery"} /\ Blank \in Records
  BY DEF Flows, Blank, Records
<1>2. Resting \in Works /\ Resting.pc = "none"
  BY <1>1 DEF Resting, Works
<1>3. ASSUME NEW r \in Records, NEW f \in Flows
      PROVE  /\ Opening(r, f) \in Memories /\ Opening(r, f).device = r[f]
             /\ Opening(r, f).phase \in {"start", "pairing_uncertain"}
             /\ (f = "setup" => Opening(r, f).bound = r.bound)
  <2>1. r[f] \in Nat /\ r.bound \in BOOLEAN
    BY <1>1 DEF Records
  <2> QED BY <2>1 DEF Opening, Memories, SetupPhases
<1> QED BY <1>1, <1>2, <1>3

\* A claim that the service accepts binds its own device.
LEMMA BoundFacts ==
    ASSUME PairingTypeOK, NEW c \in Claims
    PROVE  /\ Bound(c) \in Accounts
           /\ Bound(c).bound = [account.bound EXCEPT ![c.flow] = @ \cup {c.device}]
<1>1. account \in Accounts /\ c.flow \in Flows /\ c.device \in Nat
  BY DEF PairingTypeOK, Claims
<1>2. /\ [account.good EXCEPT ![c.flow] = FALSE] \in [Flows -> BOOLEAN]
      /\ [account.bound EXCEPT ![c.flow] = @ \cup {c.device}] \in [Flows -> SUBSET Nat]
  BY <1>1 DEF Accounts
<1>3. Bound(c) = [account EXCEPT !.enrolled = TRUE,
                    !.good  = [account.good EXCEPT ![c.flow] = FALSE],
                    !.bound = [account.bound EXCEPT ![c.flow] = @ \cup {c.device}]]
  BY <1>1 DEF Bound, Accounts
<1> QED BY <1>1, <1>2, <1>3 DEF Accounts

\* An error or a refusal leaves the wizard its device.
LEMMA EndedFacts ==
    ASSUME NEW w \in Memories
    PROVE  /\ Ended(w) \in Memories
           /\ Ended(w).device = w.device /\ Ended(w).phase = w.phase
           /\ Ended(w).bound = w.bound /\ Ended(w).receipt = w.receipt
           /\ Ended(w).tried = w.tried
BY DEF Ended, Memories

\* One lemma for each step of pairing.
LEMMA SendCodeInv ==
    ASSUME PairingInv, NEW f \in Flows, SendCode(f)
    PROVE  PairingInv'
<1>1. /\ wizard[f] \in Memories /\ account.codes[f] + 1 \in Nat
      /\ account.codes \in [Flows -> Nat] /\ account.good \in [Flows -> BOOLEAN]
      /\ account \in Accounts
  BY PairingConstants DEF PairingInv, PairingTypeOK, Accounts
<1>2. wizard' \in [Flows -> Memories]
  BY <1>1, PairingConstants
     DEF SendCode, PairingInv, PairingTypeOK, Memories, SetupPhases
<1>3. PICK sent \in BOOLEAN :
         account' = [account EXCEPT !.codes[f] = @ + 1, !.good[f] = sent]
  BY DEF SendCode
<1>4. /\ [account.codes EXCEPT ![f] = @ + 1] \in [Flows -> Nat]
      /\ [account.good EXCEPT ![f] = sent] \in [Flows -> BOOLEAN]
  BY <1>1
<1>5. account' = [account EXCEPT !.codes = [account.codes EXCEPT ![f] = @ + 1],
                                 !.good  = [account.good EXCEPT ![f] = sent]]
  BY <1>1, <1>3 DEF Accounts
<1>6. account' \in Accounts /\ account'.bound = account.bound
  BY <1>1, <1>4, <1>5 DEF Accounts
<1>7. PairingTypeOK'
  BY <1>2, <1>6 DEF SendCode, PairingInv, PairingTypeOK
<1>8. DeviceInv'
  BY <1>6, PairingConstants
     DEF SendCode, Free, PairingInv, PairingTypeOK, DeviceInv, Memories, Knowing, Saved
<1> QED BY <1>7, <1>8 DEF PairingInv

LEMMA ListVaultsInv ==
    ASSUME PairingInv, ListVaults
    PROVE  PairingInv'
<1>1. /\ wizard["recovery"] \in Memories /\ account.codes["recovery"] \in Nat
      /\ "recovery" \in Flows
  BY PairingConstants DEF PairingInv, PairingTypeOK, Accounts
<1>2. [wizard["recovery"] EXCEPT !.phase = "vaults", !.code = account.codes["recovery"]]
        \in Memories
  BY <1>1 DEF Memories, RecoveryPhases
<1>3. wizard' \in [Flows -> Memories]
  BY <1>1, <1>2, PairingConstants DEF ListVaults, PairingInv, PairingTypeOK
<1>4. PairingTypeOK'
  BY <1>1, <1>2, <1>3 DEF ListVaults, PairingInv, PairingTypeOK
<1>5. DeviceInv'
  BY <1>1, <1>2, <1>3, PairingConstants DEF ListVaults, Free, PairingInv, PairingTypeOK,
     DeviceInv, Records, Memories, Works, Accounts, Claims, Knowing, Saved
<1> QED BY <1>4, <1>5 DEF PairingInv

LEMMA PairSetupInv ==
    ASSUME PairingInv, PairSetup
    PROVE  PairingInv'
<1>1. wizard' \in [Flows -> Memories]
  BY PairingConstants DEF PairSetup, Free, PairingInv, PairingTypeOK, Records, Memories,
     Works, Accounts, Claims, SetupPhases, PairedPhases, RecoveryPhases, Knowing, Saved
<1>2. doing' \in Works
  BY PairingConstants DEF PairSetup, Free, PairingInv, PairingTypeOK, Records, Memories,
     Works, Accounts, Claims, SetupPhases, PairedPhases, RecoveryPhases, Knowing, Saved
<1>3. PairingTypeOK'
  BY <1>1, <1>2 DEF PairSetup, PairingInv, PairingTypeOK
<1>4. DeviceInv'
  BY <1>1, <1>2, PairingConstants DEF PairSetup, Free, PairingInv, PairingTypeOK, DeviceInv,
     Records, Memories, Works, Accounts, Claims, Knowing, Saved
<1> QED BY <1>3, <1>4 DEF PairingInv

LEMMA PairRecoveryInv ==
    ASSUME PairingInv, PairRecovery
    PROVE  PairingInv'
<1>1. doing' \in Works
  BY PairingConstants DEF PairRecovery, Free, PairingInv, PairingTypeOK, Records, Memories,
     Works, Accounts, Claims, SetupPhases, PairedPhases, RecoveryPhases, Knowing, Saved
<1>2. PairingTypeOK'
  BY <1>1 DEF PairRecovery, PairingInv, PairingTypeOK
<1>3. DeviceInv'
  BY <1>1, PairingConstants DEF PairRecovery, Free, PairingInv, PairingTypeOK, DeviceInv,
     Records, Memories, Works, Accounts, Claims, Knowing, Saved
<1> QED BY <1>2, <1>3 DEF PairingInv

LEMMA CreateOnceInv ==
    ASSUME PairingInv, CreateOnce
    PROVE  PairingInv'
<1>1. wizard' \in [Flows -> Memories]
  BY PairingConstants DEF CreateOnce, PairingInv, PairingTypeOK, Records, Memories, Works,
     Accounts, Claims, SetupPhases, PairedPhases, RecoveryPhases, Knowing, Saved
<1>2. doing' \in Works
  BY PairingConstants DEF CreateOnce, PairingInv, PairingTypeOK, Records, Memories, Works,
     Accounts, Claims, SetupPhases, PairedPhases, RecoveryPhases, Knowing, Saved
<1>3. minted' \in Nat
  BY PairingConstants DEF CreateOnce, PairingInv, PairingTypeOK, Records, Memories, Works,
     Accounts, Claims, SetupPhases, PairedPhases, RecoveryPhases, Knowing, Saved
<1>4. PairingTypeOK'
  BY <1>1, <1>2, <1>3 DEF CreateOnce, PairingInv, PairingTypeOK
<1>5. DeviceInv'
  BY <1>1, <1>2, <1>3, PairingConstants DEF CreateOnce, PairingInv, PairingTypeOK,
     DeviceInv, Records, Memories, Works, Accounts, Claims, Knowing, Saved
<1> QED BY <1>4, <1>5 DEF PairingInv

LEMMA RetrySaveInv ==
    ASSUME PairingInv, RetrySave
    PROVE  PairingInv'
<1>1. doing' \in Works
  BY PairingConstants DEF RetrySave, Free, PairingInv, PairingTypeOK, Records, Memories,
     Works, Accounts, Claims, SetupPhases, PairedPhases, RecoveryPhases, Knowing, Saved
<1>2. PairingTypeOK'
  BY <1>1 DEF RetrySave, PairingInv, PairingTypeOK
<1>3. DeviceInv'
  BY <1>1, PairingConstants DEF RetrySave, Free, PairingInv, PairingTypeOK, DeviceInv,
     Records, Memories, Works, Accounts, Claims, Knowing, Saved
<1> QED BY <1>2, <1>3 DEF PairingInv

LEMMA SaveInv ==
    ASSUME PairingInv, Save
    PROVE  PairingInv'
<1>1. /\ doing.flow \in Flows /\ registry \in Records
      /\ wizard[doing.flow].device \in Nat /\ wizard[doing.flow].bound \in BOOLEAN
  BY PairingConstants DEF PairingInv, PairingTypeOK, Works, Memories
<1>2. /\ registry' \in Records
      /\ registry'[doing.flow] = wizard[doing.flow].device
      /\ \A f \in Flows : f # doing.flow => registry'[f] = registry[f]
  <2>1. CASE doing.flow = "setup"
    BY <1>1, <2>1, PairingConstants DEF Save, Saving, Records
  <2>2. CASE doing.flow = "recovery"
    BY <1>1, <2>2, PairingConstants DEF Save, Saving, Records
  <2> QED BY <1>1, <2>1, <2>2, PairingConstants
<1>3. doing' \in Works /\ doing'.flow = doing.flow /\ doing'.pc = "sync"
  BY DEF Save, PairingInv, PairingTypeOK, Works, Knowing
<1>4. PairingTypeOK'
  BY <1>2, <1>3 DEF Save, PairingInv, PairingTypeOK
<1>5. DeviceInv'
  <2>1. /\ registry[doing.flow] \in {0, wizard[doing.flow].device}
        /\ wizard[doing.flow].device # 0
    BY <1>1 DEF Save, PairingInv, DeviceInv, Knowing
  <2> QED BY <1>2, <1>3, <2>1 DEF Save, PairingInv, DeviceInv, Knowing, Saved
<1> QED BY <1>4, <1>5 DEF PairingInv

LEMMA SyncDeviceInv ==
    ASSUME PairingInv, SyncDevice
    PROVE  PairingInv'
<1>1. durable' \in Records
  BY PairingConstants DEF SyncDevice, PairingInv, PairingTypeOK, Records, Memories, Works,
     Accounts, Claims, SetupPhases, PairedPhases, RecoveryPhases, Knowing, Saved
<1>2. wizard' \in [Flows -> Memories]
  BY PairingConstants DEF SyncDevice, PairingInv, PairingTypeOK, Records, Memories, Works,
     Accounts, Claims, SetupPhases, PairedPhases, RecoveryPhases, Knowing, Saved
<1>3. doing' \in Works
  BY PairingConstants DEF SyncDevice, PairingInv, PairingTypeOK, Records, Memories, Works,
     Accounts, Claims, SetupPhases, PairedPhases, RecoveryPhases, Knowing, Saved
<1>4. PairingTypeOK'
  BY <1>1, <1>2, <1>3 DEF SyncDevice, PairingInv, PairingTypeOK
<1>5. DeviceInv'
  BY <1>1, <1>2, <1>3, PairingConstants DEF SyncDevice, PairingInv, PairingTypeOK,
     DeviceInv, Records, Memories, Works, Accounts, Claims, Knowing, Saved
<1> QED BY <1>4, <1>5 DEF PairingInv

LEMMA ResolveFirstInv ==
    ASSUME PairingInv, ResolveFirst
    PROVE  PairingInv'
<1>1. doing' \in Works
  BY PairingConstants DEF ResolveFirst, Known, PairingInv, PairingTypeOK, Records, Memories,
     Works, Accounts, Claims, SetupPhases, PairedPhases, RecoveryPhases, Knowing, Saved
<1>2. PairingTypeOK'
  BY <1>1 DEF ResolveFirst, PairingInv, PairingTypeOK
<1>3. DeviceInv'
  BY <1>1, PairingConstants DEF ResolveFirst, Known, PairingInv, PairingTypeOK, DeviceInv,
     Records, Memories, Works, Accounts, Claims, Knowing, Saved
<1> QED BY <1>2, <1>3 DEF PairingInv

LEMMA SendClaimInv ==
    ASSUME PairingInv, SendClaim
    PROVE  PairingInv'
<1>1. doing.flow \in Flows /\ wizard[doing.flow] \in Memories
  BY PairingConstants DEF PairingInv, PairingTypeOK, Works
<1>2. [wizard[doing.flow] EXCEPT !.tried = TRUE] \in Memories
  BY <1>1 DEF Memories
<1>3. wizard' \in [Flows -> Memories]
  BY <1>1, <1>2, PairingConstants DEF SendClaim, PairingInv, PairingTypeOK
<1>4. doing' \in Works
  BY <1>1, <1>2, PairingConstants DEF SendClaim, PairingInv, PairingTypeOK, Records,
     Memories, Works, Accounts, Claims, SetupPhases, PairedPhases, RecoveryPhases, Knowing,
     Saved
<1>5. claims' \subseteq Claims
  BY <1>1, <1>2, PairingConstants DEF SendClaim, PairingInv, PairingTypeOK, Records,
     Memories, Works, Accounts, Claims, SetupPhases, PairedPhases, RecoveryPhases, Knowing,
     Saved
<1>6. PairingTypeOK'
  BY <1>1, <1>2, <1>3, <1>4, <1>5 DEF SendClaim, PairingInv, PairingTypeOK
<1>7. DeviceInv'
  BY <1>1, <1>2, <1>3, <1>4, <1>5, PairingConstants DEF SendClaim, PairingInv,
     PairingTypeOK, DeviceInv, Records, Memories, Works, Accounts, Claims, Knowing, Saved
<1> QED BY <1>6, <1>7 DEF PairingInv

LEMMA ClaimArrivesInv ==
    ASSUME PairingInv, ClaimArrives
    PROVE  PairingInv'
<1>1. PICK c \in claims :
         /\ claims' = claims \ {c}
         /\ account' \in {account, Bound(c)}
         /\ \/ doing' \in {doing, Resting}
            \/ Awaited(c) /\ doing' = [doing EXCEPT !.pc = "accept"]
         /\ \/ UNCHANGED wizard
            \/ doing' = Resting /\ wizard' = [wizard EXCEPT ![c.flow] = Ended(@)]
         /\ UNCHANGED <<registry, durable, minted>>
  BY DEF ClaimArrives
<1>2. /\ c \in Claims /\ c.flow \in Flows /\ wizard[c.flow] \in Memories
      /\ c.device = durable[c.flow] /\ c.device # 0
  BY <1>1 DEF PairingInv, PairingTypeOK, DeviceInv, Claims
<1>3. /\ wizard' \in [Flows -> Memories]
      /\ \A f \in Flows : /\ wizard'[f].device = wizard[f].device
                          /\ wizard'[f].phase = wizard[f].phase
  <2>1. wizard \in [Flows -> Memories]
    BY DEF PairingInv, PairingTypeOK
  <2>2. /\ Ended(wizard[c.flow]) \in Memories
        /\ Ended(wizard[c.flow]).device = wizard[c.flow].device
        /\ Ended(wizard[c.flow]).phase = wizard[c.flow].phase
    BY <1>2, EndedFacts
  <2> QED BY <1>1, <1>2, <2>1, <2>2
<1>4. doing' \in Works
  BY <1>1, PairingConstants DEF PairingInv, PairingTypeOK, Works, Saved
<1>5. /\ account' \in Accounts
      /\ \A f \in Flows : account'.bound[f] \subseteq {durable[f]} \ {0}
  <2>1. account \in Accounts /\ \A f \in Flows : account.bound[f] \subseteq {durable[f]} \ {0}
    BY DEF PairingInv, PairingTypeOK, DeviceInv
  <2>2. CASE account' = account
    BY <2>1, <2>2
  <2>3. CASE account' = Bound(c)
    <3>1. /\ account' \in Accounts
          /\ account'.bound = [account.bound EXCEPT ![c.flow] = @ \cup {c.device}]
      BY <1>2, <2>3, BoundFacts DEF PairingInv
    <3> QED BY <1>2, <2>1, <3>1 DEF Accounts
  <2> QED BY <1>1, <2>2, <2>3
<1>6. PairingTypeOK'
  BY <1>1, <1>3, <1>4, <1>5 DEF PairingInv, PairingTypeOK
<1>7. ASSUME NEW f \in Flows, doing'.flow = f
      PROVE  /\ doing'.pc \in Knowing \cup Saved => wizard'[f].device # 0
             /\ doing'.pc = "sync" => registry'[f] = wizard'[f].device
             /\ doing'.pc \in Saved => durable'[f] = wizard'[f].device
  <2>1. CASE doing' = doing
    BY <1>1, <1>3, <1>7, <2>1 DEF PairingInv, DeviceInv
  <2>2. CASE doing' = Resting
    BY <1>7, <2>2, PairingConstants DEF Knowing, Saved
  <2>3. CASE Awaited(c) /\ doing' = [doing EXCEPT !.pc = "accept"]
    <3>1. doing.flow = f /\ doing.pc = "answer" /\ doing'.pc = "accept"
      BY <1>7, <2>3 DEF Awaited, PairingInv, PairingTypeOK, Works
    <3> QED BY <1>1, <1>3, <3>1 DEF PairingInv, DeviceInv, Knowing, Saved
  <2> QED BY <1>1, <2>1, <2>2, <2>3
<1>8. DeviceInv'
  <2>1. /\ \A f \in Flows : /\ durable'[f] \in {0, registry'[f]}
                            /\ registry'[f] \in {0, wizard'[f].device}
                            /\ wizard'[f].phase = "pairing_checkpoint" => wizard'[f].device # 0
        /\ \A f \in Flows : \A d \in claims' :
              d.flow = f => d.device = durable'[f] /\ d.device # 0
    BY <1>1, <1>3 DEF PairingInv, DeviceInv
  <2> QED BY <1>1, <1>5, <1>7, <2>1 DEF DeviceInv
<1> QED BY <1>6, <1>8 DEF PairingInv

LEMMA ClaimIsLostInv ==
    ASSUME PairingInv, ClaimIsLost
    PROVE  PairingInv'
<1>1. claims' \subseteq Claims
  BY PairingConstants DEF ClaimIsLost, PairingInv, PairingTypeOK, Records, Memories, Works,
     Accounts, Claims, SetupPhases, PairedPhases, RecoveryPhases, Knowing, Saved
<1>2. PairingTypeOK'
  BY <1>1 DEF ClaimIsLost, PairingInv, PairingTypeOK
<1>3. DeviceInv'
  BY <1>1, PairingConstants DEF ClaimIsLost, PairingInv, PairingTypeOK, DeviceInv, Records,
     Memories, Works, Accounts, Claims, Knowing, Saved
<1> QED BY <1>2, <1>3 DEF PairingInv

LEMMA AcceptSetupInv ==
    ASSUME PairingInv, AcceptSetup
    PROVE  PairingInv'
<1>1. /\ doing.flow = "setup" /\ doing.pc = "accept" /\ doing \in Works
      /\ "setup" \in Flows /\ "recovery" \in Flows
      /\ wizard["setup"] \in Memories /\ registry \in Records
  BY PairingConstants DEF AcceptSetup, PairingInv, PairingTypeOK
<1>2. /\ wizard' \in [Flows -> Memories]
      /\ \A f \in Flows : /\ wizard'[f].device = wizard[f].device
                          /\ wizard'[f].phase = wizard[f].phase
  <2>1. [wizard["setup"] EXCEPT !.bound = TRUE] \in Memories
    BY <1>1 DEF Memories
  <2> QED BY <1>1, <2>1 DEF AcceptSetup, PairingInv, PairingTypeOK, Memories
<1>3. /\ durable["setup"] = wizard["setup"].device
      /\ registry["setup"] \in {0, wizard["setup"].device}
  BY <1>1 DEF PairingInv, DeviceInv, Saved
<1>4. /\ registry' \in Records
      /\ registry'["setup"] = wizard["setup"].device
      /\ registry'["recovery"] = registry["recovery"]
  BY <1>1 DEF AcceptSetup, Records, Memories
<1>5. doing' \in Works /\ doing'.flow = "setup" /\ doing'.pc = "settle"
  BY <1>1 DEF AcceptSetup, Works
<1>6. PairingTypeOK'
  BY <1>2, <1>4, <1>5 DEF AcceptSetup, PairingInv, PairingTypeOK
<1>7. ASSUME NEW f \in Flows
      PROVE  durable'[f] \in {0, registry'[f]} /\ registry'[f] \in {0, wizard'[f].device}
  <2>1. CASE f = "setup"
    BY <1>1, <1>2, <1>3, <1>4, <2>1 DEF AcceptSetup
  <2>2. CASE f = "recovery"
    BY <1>1, <1>2, <1>4, <2>2 DEF AcceptSetup, PairingInv, DeviceInv
  <2> QED BY <2>1, <2>2, PairingConstants
<1>8. DeviceInv'
  BY <1>2, <1>5, <1>7 DEF AcceptSetup, PairingInv, DeviceInv, Knowing, Saved
<1> QED BY <1>6, <1>8 DEF PairingInv

LEMMA SyncIdentityInv ==
    ASSUME PairingInv, SyncIdentity
    PROVE  PairingInv'
<1>1. "setup" \in Flows /\ wizard["setup"] \in Memories
  BY PairingConstants DEF PairingInv, PairingTypeOK
<1>2. Settled(wizard["setup"]) \in PairedPhases
  BY DEF Settled, PairedPhases
<1>3. [wizard["setup"] EXCEPT !.phase = Settled(wizard["setup"]), !.code = 0] \in Memories
  BY <1>1, <1>2 DEF Memories
<1>4. durable' \in Records
  BY <1>1, <1>2, <1>3, PairingConstants DEF SyncIdentity, Settled, PairingInv,
     PairingTypeOK, Records, Memories, Works, Accounts, Claims, SetupPhases, PairedPhases,
     RecoveryPhases, Knowing, Saved
<1>5. wizard' \in [Flows -> Memories]
  BY <1>1, <1>2, <1>3, PairingConstants DEF SyncIdentity, PairingInv, PairingTypeOK
<1>6. doing' \in Works
  BY <1>1, <1>2, <1>3, PairingConstants DEF SyncIdentity, Settled, PairingInv,
     PairingTypeOK, Records, Memories, Works, Accounts, Claims, SetupPhases, PairedPhases,
     RecoveryPhases, Knowing, Saved
<1>7. PairingTypeOK'
  BY <1>1, <1>2, <1>3, <1>4, <1>5, <1>6 DEF SyncIdentity, PairingInv, PairingTypeOK
<1>8. DeviceInv'
  BY <1>1, <1>2, <1>3, <1>4, <1>5, <1>6, PairingConstants DEF SyncIdentity, Settled,
     PairingInv, PairingTypeOK, DeviceInv, Records, Memories, Works, Accounts, Claims,
     Knowing, Saved
<1> QED BY <1>7, <1>8 DEF PairingInv

LEMMA AcceptRecoveryInv ==
    ASSUME PairingInv, AcceptRecovery
    PROVE  PairingInv'
<1>1. /\ "recovery" \in Flows /\ wizard["recovery"] \in Memories /\ doing.flow = "recovery"
      /\ doing.pc = "accept"
  BY PairingConstants DEF PairingInv, PairingTypeOK, AcceptRecovery
<1>2. [wizard["recovery"] EXCEPT !.phase = "paired", !.code = 0] \in Memories
  BY <1>1 DEF Memories, PairedPhases
<1>3. wizard' \in [Flows -> Memories]
  BY <1>1, <1>2, PairingConstants DEF AcceptRecovery, PairingInv, PairingTypeOK
<1>4. doing' \in Works
  BY <1>1, <1>2, PairingConstants DEF AcceptRecovery, PairingInv, PairingTypeOK, Records,
     Memories, Works, Accounts, Claims, SetupPhases, PairedPhases, RecoveryPhases, Knowing,
     Saved
<1>5. PairingTypeOK'
  BY <1>1, <1>2, <1>3, <1>4 DEF AcceptRecovery, PairingInv, PairingTypeOK
<1>6. DeviceInv'
  BY <1>1, <1>2, <1>3, <1>4, PairingConstants DEF AcceptRecovery, PairingInv, PairingTypeOK,
     DeviceInv, Records, Memories, Works, Accounts, Claims, Knowing, Saved
<1> QED BY <1>5, <1>6 DEF PairingInv

LEMMA ResolveInv ==
    ASSUME NEW f \in Flows, PairingInv, Resolve(f)
    PROVE  PairingInv'
<1>1. wizard' \in [Flows -> Memories]
  BY PairingConstants DEF Resolve, Free, PairingInv, PairingTypeOK, Records, Memories,
     Works, Accounts, Claims, SetupPhases, PairedPhases, RecoveryPhases, Knowing, Saved
<1>2. doing' \in Works
  BY PairingConstants DEF Resolve, Free, PairingInv, PairingTypeOK, Records, Memories,
     Works, Accounts, Claims, SetupPhases, PairedPhases, RecoveryPhases, Knowing, Saved
<1>3. PairingTypeOK'
  BY <1>1, <1>2 DEF Resolve, PairingInv, PairingTypeOK
<1>4. DeviceInv'
  BY <1>1, <1>2, PairingConstants DEF Resolve, Free, PairingInv, PairingTypeOK, DeviceInv,
     Records, Memories, Works, Accounts, Claims, Knowing, Saved
<1> QED BY <1>3, <1>4 DEF PairingInv

LEMMA AskedInv ==
    ASSUME PairingInv, Asked
    PROVE  PairingInv'
<1>1. wizard' \in [Flows -> Memories]
  BY PairingConstants DEF Asked, Settled, Known, PairingInv, PairingTypeOK, Records,
     Memories, Works, Accounts, Claims, SetupPhases, PairedPhases, RecoveryPhases, Knowing,
     Saved
<1>2. doing' \in Works
  BY PairingConstants DEF Asked, Settled, Known, PairingInv, PairingTypeOK, Records,
     Memories, Works, Accounts, Claims, SetupPhases, PairedPhases, RecoveryPhases, Knowing,
     Saved
<1>3. PairingTypeOK'
  BY <1>1, <1>2 DEF Asked, PairingInv, PairingTypeOK
<1>4. DeviceInv'
  BY <1>1, <1>2, PairingConstants DEF Asked, Settled, Known, PairingInv, PairingTypeOK,
     DeviceInv, Records, Memories, Works, Accounts, Claims, Knowing, Saved
<1> QED BY <1>3, <1>4 DEF PairingInv

LEMMA ReauthorizeInv ==
    ASSUME NEW f \in Flows, PairingInv, Reauthorize(f)
    PROVE  PairingInv'
<1>1. wizard' \in [Flows -> Memories]
  BY PairingConstants DEF Reauthorize, Free, PairingInv, PairingTypeOK, Records, Memories,
     Works, Accounts, Claims, SetupPhases, PairedPhases, RecoveryPhases, Knowing, Saved
<1>2. PairingTypeOK'
  BY <1>1 DEF Reauthorize, PairingInv, PairingTypeOK
<1>3. DeviceInv'
  BY <1>1, PairingConstants DEF Reauthorize, Free, PairingInv, PairingTypeOK, DeviceInv,
     Records, Memories, Works, Accounts, Claims, Knowing, Saved
<1> QED BY <1>2, <1>3 DEF PairingInv

LEMMA StepFailsInv ==
    ASSUME PairingInv, StepFails
    PROVE  PairingInv'
<1>1. wizard' \in [Flows -> Memories]
  BY PairingConstants DEF StepFails, Ended, PairingInv, PairingTypeOK, Records, Memories,
     Works, Accounts, Claims, SetupPhases, PairedPhases, RecoveryPhases, Knowing, Saved
<1>2. doing' \in Works
  BY PairingConstants DEF StepFails, Ended, PairingInv, PairingTypeOK, Records, Memories,
     Works, Accounts, Claims, SetupPhases, PairedPhases, RecoveryPhases, Knowing, Saved
<1>3. PairingTypeOK'
  BY <1>1, <1>2 DEF StepFails, PairingInv, PairingTypeOK
<1>4. DeviceInv'
  BY <1>1, <1>2, PairingConstants DEF StepFails, Ended, PairingInv, PairingTypeOK,
     DeviceInv, Records, Memories, Works, Accounts, Claims, Knowing, Saved
<1> QED BY <1>3, <1>4 DEF PairingInv

-----------------------------------------------------------------------------
\* Setup: nothing that a vault was made with is orphaned.

SetupWorks == {"none", "draw", "synckey", "file", "make", "synccopy", "backup", "record"}

\* What setup changes of what pairing relies on.
LEMMA SetupFrame ==
    ASSUME PairingInv, SetupInv, SetupFlowNext
    PROVE  /\ UNCHANGED <<minted, account, claims>>
           /\ registry' \in Records /\ \A f \in Flows : registry'[f] = registry[f]
           /\ durable' = durable \/ (durable' = registry /\ doing' # doing)
           /\ wizard' \in [Flows -> Memories]
           /\ wizard'["recovery"] = wizard["recovery"]
           /\ wizard'["setup"].device = wizard["setup"].device
           /\ \/ wizard'["setup"].phase = wizard["setup"].phase
              \/ wizard'["setup"].phase \in PairedPhases
           /\ doing' \in Works
           /\ \/ doing' = doing
              \/ doing.pc \in SetupWorks /\ doing'.flow = "setup" /\ doing'.pc \in SetupWorks
<1>1. /\ registry \in Records /\ durable \in Records /\ wizard \in [Flows -> Memories]
      /\ doing \in Works /\ "setup" \in Flows /\ "recovery" \in Flows
      /\ wizard["setup"] \in Memories
  BY PairingConstants DEF PairingInv, PairingTypeOK
<1>2. \A p \in PairedPhases : [wizard["setup"] EXCEPT !.phase = p] \in Memories
  BY <1>1 DEF Memories
<1>3. drawn \in Nat
  BY DEF SetupInv, SetupTypeOK
<1>4. \A pc \in SetupWorks : [flow |-> "setup", pc |-> pc] \in Works
  BY <1>1 DEF Works, SetupWorks
<1>5. CASE PrepareKey
  BY <1>1, <1>2, <1>4, <1>5, PairingConstants DEF PrepareKey, At, Does, Elsewhere,
     setupFlowVars, Free, Records, PairedPhases, SetupWorks, Memories
<1>6. CASE DrawKey
  <2>1. \/ registry' = registry
        \/ registry' = [registry EXCEPT !.key = drawn + 1, !.confirmed = FALSE]
    BY <1>6 DEF DrawKey
  <2>2. registry' \in Records /\ \A f \in Flows : registry'[f] = registry[f]
    <3>1. drawn + 1 \in Nat /\ FALSE \in BOOLEAN
      BY <1>3
    <3>2. [registry EXCEPT !.key = drawn + 1, !.confirmed = FALSE] \in Records
      BY <1>1, <3>1 DEF Records
    <3>3. CASE registry' = registry
      BY <1>1, <3>3
    <3>4. CASE registry' = [registry EXCEPT !.key = drawn + 1, !.confirmed = FALSE]
      <4>1. registry'.setup = registry.setup /\ registry'.recovery = registry.recovery
        BY <1>1, <3>4 DEF Records
      <4> QED BY <3>2, <3>4, <4>1, PairingConstants
    <3> QED BY <2>1, <3>3, <3>4
  <2>3. /\ UNCHANGED <<durable, wizard, minted, account, claims>>
        /\ doing = [flow |-> "setup", pc |-> "draw"]
        /\ doing' = [flow |-> "setup", pc |-> "synckey"]
    BY <1>6 DEF DrawKey, Doing, Does, Elsewhere
  <2> QED BY <1>1, <1>4, <2>2, <2>3 DEF SetupWorks
<1>7. CASE SyncKey
  BY <1>1, <1>2, <1>4, <1>7, PairingConstants DEF SyncKey, Does, Doing, Elsewhere,
     setupFlowVars, Records, PairedPhases, SetupWorks, Memories
<1>8. CASE KeyFile
  BY <1>1, <1>2, <1>4, <1>8, PairingConstants DEF KeyFile, Does, Doing, Elsewhere, Records,
     PairedPhases, SetupWorks, Memories
<1>9. CASE MakeKey
  BY <1>1, <1>2, <1>4, <1>9, PairingConstants DEF MakeKey, Doing, To, Elsewhere, Resting,
     Records, PairedPhases, SetupWorks, Memories
<1>10. CASE ConfirmKey
  BY <1>1, <1>2, <1>4, <1>10, PairingConstants DEF ConfirmKey, At, Does, Usable, Elsewhere,
     setupFlowVars, Free, Records, PairedPhases, SetupWorks, Memories
<1>11. CASE SyncCopy
  BY <1>1, <1>2, <1>4, <1>11, PairingConstants DEF SyncCopy, Doing, To, Elsewhere, Resting,
     setupFlowVars, Records, PairedPhases, SetupWorks, Memories
<1>12. CASE FirstBackup
  BY <1>1, <1>2, <1>4, <1>12, PairingConstants DEF FirstBackup, At, Does, Ready, Usable,
     Elsewhere, setupFlowVars, Free, Records, PairedPhases, SetupWorks, Memories
<1>13. CASE ConfirmDeletions
  BY <1>1, <1>2, <1>4, <1>13, PairingConstants DEF ConfirmDeletions, At, Does, Usable,
     Elsewhere, setupFlowVars, Free, Records, PairedPhases, SetupWorks, Memories
<1>14. CASE BackedUp
  BY <1>1, <1>2, <1>4, <1>14, PairingConstants DEF BackedUp, Does, Doing, Elsewhere,
     Records, PairedPhases, SetupWorks, Memories
<1>15. CASE Record
  BY <1>1, <1>2, <1>4, <1>15, PairingConstants DEF Record, Doing, Elsewhere, NoneShown,
     Resting, Records, PairedPhases, SetupWorks, Memories
<1>16. CASE BreaksOff
  BY <1>1, <1>2, <1>4, <1>16, PairingConstants DEF BreaksOff, Doing, Elsewhere, Reserved,
     Resting, Records, PairedPhases, SetupWorks, Memories
<1>17. CASE ScheduledRun
  BY <1>1, <1>2, <1>4, <1>17, PairingConstants DEF ScheduledRun, Doing, pairingVars,
     Records, PairedPhases, SetupWorks, Memories
<1>18. CASE CheckUpload
  BY <1>1, <1>2, <1>4, <1>18, PairingConstants DEF CheckUpload, At, Ready, ReadyPhase,
     Usable, Shows, To, Elsewhere, Free, Records, PairedPhases, SetupWorks, Memories
<1>19. CASE AbandonUpload
  BY <1>1, <1>2, <1>4, <1>19, PairingConstants DEF AbandonUpload, At, ReadyPhase, Usable,
     Shows, NoneShown, To, Elsewhere, Free, Records, PairedPhases, SetupWorks, Memories
<1>20. CASE PrepareDeletions
  BY <1>1, <1>2, <1>4, <1>20, PairingConstants DEF PrepareDeletions, At, Ready, Usable,
     Shows, To, Elsewhere, Free, Records, PairedPhases, SetupWorks, Memories
<1>21. CASE Leave
  BY <1>1, <1>2, <1>4, <1>21, PairingConstants DEF Leave, At, ReadyPhase, Shows, To,
     Elsewhere, Free, Records, PairedPhases, SetupWorks, Memories
<1> QED
  BY <1>5, <1>6, <1>7, <1>8, <1>9, <1>10, <1>11, <1>12, <1>13, <1>14, <1>15, <1>16, <1>17,
     <1>18, <1>19, <1>20, <1>21 DEF SetupFlowNext

\* One lemma for each step of setup.
LEMMA PrepareKeyInv ==
    ASSUME PairingInv, SetupInv, PrepareKey
    PROVE  SetupInv'
<1>1. SetupTypeOK'
  BY DEF PrepareKey, At, Does, Elsewhere, setupFlowVars, Free, PairingInv, PairingTypeOK,
     Records, SetupInv, SetupTypeOK
<1>2. RecordInv'
  BY PairingConstants DEF PrepareKey, At, Does, Elsewhere, setupFlowVars, Free, PairingInv,
     PairingTypeOK, Records, Memories, SetupInv, SetupTypeOK, RecordInv, ConnectionInv,
     KeyInv
<1>3. ConnectionInv'
  BY PairingConstants DEF PrepareKey, At, Does, Elsewhere, setupFlowVars, Free, PairingInv,
     PairingTypeOK, Records, Memories, SetupInv, SetupTypeOK, RecordInv, ConnectionInv,
     KeyInv, PairedPhases
<1>4. KeyInv'
  BY PairingConstants DEF PrepareKey, At, Does, Elsewhere, setupFlowVars, Free, PairingInv,
     PairingTypeOK, Records, SetupInv, SetupTypeOK, RecordInv, ConnectionInv, KeyInv
<1> QED BY <1>1, <1>2, <1>3, <1>4 DEF SetupInv

LEMMA DrawKeyInv ==
    ASSUME PairingInv, SetupInv, DrawKey
    PROVE  SetupInv'
<1>1. SetupTypeOK'
  BY DEF DrawKey, SetupInv, SetupTypeOK
<1>2. /\ doing.pc = "draw" /\ doing'.pc = "synckey" /\ registry.bound
      /\ registry \in Records /\ drawn \in Nat
      /\ UNCHANGED <<durable, wizard, keyfile, keychain, protected>>
  BY DEF DrawKey, Doing, Does, PairingInv, PairingTypeOK, SetupInv, SetupTypeOK, ConnectionInv
<1>3. CASE registry.key = 0
  <2>1. /\ registry'.key = drawn + 1 /\ ~ registry'.confirmed
        /\ registry'.bound = registry.bound /\ registry'.backup = registry.backup
    BY <1>2, <1>3 DEF DrawKey, Records
  <2>2. registry.backup = 0 /\ durable.key = 0
    BY <1>3 DEF SetupInv, RecordInv
  <2>3. RecordInv'
    BY <1>2, <2>1, <2>2 DEF SetupInv, RecordInv
  <2>4. ConnectionInv'
    BY <1>2, <2>1 DEF SetupInv, ConnectionInv
  <2> QED BY <1>1, <1>2, <2>3, <2>4 DEF SetupInv, KeyInv
<1>4. CASE registry.key # 0
  <2>1. UNCHANGED registry
    BY <1>4 DEF DrawKey
  <2> QED BY <1>1, <1>2, <1>4, <2>1 DEF SetupInv, RecordInv, ConnectionInv, KeyInv
<1> QED BY <1>3, <1>4

LEMMA SyncKeyInv ==
    ASSUME PairingInv, SetupInv, SyncKey
    PROVE  SetupInv'
<1>1. SetupTypeOK'
  BY DEF SyncKey, Does, Doing, Elsewhere, setupFlowVars, PairingInv, PairingTypeOK, Records,
     SetupInv, SetupTypeOK
<1>2. RecordInv'
  BY PairingConstants DEF SyncKey, Does, Doing, Elsewhere, setupFlowVars, PairingInv,
     PairingTypeOK, Records, Memories, SetupInv, SetupTypeOK, RecordInv, ConnectionInv,
     KeyInv
<1>3. ConnectionInv'
  BY PairingConstants DEF SyncKey, Does, Doing, Elsewhere, setupFlowVars, PairingInv,
     PairingTypeOK, Records, Memories, SetupInv, SetupTypeOK, RecordInv, ConnectionInv,
     KeyInv, PairedPhases
<1>4. KeyInv'
  BY PairingConstants DEF SyncKey, Does, Doing, Elsewhere, setupFlowVars, PairingInv,
     PairingTypeOK, Records, SetupInv, SetupTypeOK, RecordInv, ConnectionInv, KeyInv
<1> QED BY <1>1, <1>2, <1>3, <1>4 DEF SetupInv

LEMMA KeyFileInv ==
    ASSUME PairingInv, SetupInv, KeyFile
    PROVE  SetupInv'
<1>1. SetupTypeOK'
  BY DEF KeyFile, Does, Doing, Elsewhere, PairingInv, PairingTypeOK, Records, SetupInv,
     SetupTypeOK
<1>2. RecordInv'
  BY PairingConstants DEF KeyFile, Does, Doing, Elsewhere, PairingInv, PairingTypeOK,
     Records, Memories, SetupInv, SetupTypeOK, RecordInv, ConnectionInv, KeyInv
<1>3. ConnectionInv'
  BY PairingConstants DEF KeyFile, Does, Doing, Elsewhere, PairingInv, PairingTypeOK,
     Records, Memories, SetupInv, SetupTypeOK, RecordInv, ConnectionInv, KeyInv,
     PairedPhases
<1>4. KeyInv'
  BY PairingConstants DEF KeyFile, Does, Doing, Elsewhere, PairingInv, PairingTypeOK,
     Records, SetupInv, SetupTypeOK, RecordInv, ConnectionInv, KeyInv
<1> QED BY <1>1, <1>2, <1>3, <1>4 DEF SetupInv

LEMMA MakeKeyInv ==
    ASSUME PairingInv, SetupInv, MakeKey
    PROVE  SetupInv'
<1>1. SetupTypeOK'
  BY DEF MakeKey, Doing, To, Elsewhere, Resting, PairingInv, PairingTypeOK, Records,
     SetupInv, SetupTypeOK
<1>2. RecordInv'
  BY PairingConstants DEF MakeKey, Doing, To, Elsewhere, Resting, PairingInv, PairingTypeOK,
     Records, Memories, SetupInv, SetupTypeOK, RecordInv, ConnectionInv, KeyInv
<1>3. ConnectionInv'
  BY PairingConstants DEF MakeKey, Doing, To, Elsewhere, Resting, PairingInv, PairingTypeOK,
     Records, Memories, SetupInv, SetupTypeOK, RecordInv, ConnectionInv, KeyInv,
     PairedPhases
<1>4. KeyInv'
  BY PairingConstants DEF MakeKey, Doing, To, Elsewhere, Resting, PairingInv, PairingTypeOK,
     Records, SetupInv, SetupTypeOK, RecordInv, ConnectionInv, KeyInv
<1> QED BY <1>1, <1>2, <1>3, <1>4 DEF SetupInv

LEMMA ConfirmKeyInv ==
    ASSUME PairingInv, SetupInv, ConfirmKey
    PROVE  SetupInv'
<1>1. SetupTypeOK'
  BY DEF ConfirmKey, At, Does, Usable, Elsewhere, setupFlowVars, Free, PairingInv,
     PairingTypeOK, Records, SetupInv, SetupTypeOK
<1>2. RecordInv'
  BY PairingConstants DEF ConfirmKey, At, Does, Usable, Elsewhere, setupFlowVars, Free,
     PairingInv, PairingTypeOK, Records, Memories, SetupInv, SetupTypeOK, RecordInv,
     ConnectionInv, KeyInv
<1>3. ConnectionInv'
  BY PairingConstants DEF ConfirmKey, At, Does, Usable, Elsewhere, setupFlowVars, Free,
     PairingInv, PairingTypeOK, Records, Memories, SetupInv, SetupTypeOK, RecordInv,
     ConnectionInv, KeyInv, PairedPhases
<1>4. KeyInv'
  BY PairingConstants DEF ConfirmKey, At, Does, Usable, Elsewhere, setupFlowVars, Free,
     PairingInv, PairingTypeOK, Records, SetupInv, SetupTypeOK, RecordInv, ConnectionInv,
     KeyInv
<1> QED BY <1>1, <1>2, <1>3, <1>4 DEF SetupInv

LEMMA SyncCopyInv ==
    ASSUME PairingInv, SetupInv, SyncCopy
    PROVE  SetupInv'
<1>1. SetupTypeOK'
  BY DEF SyncCopy, Doing, To, Elsewhere, Resting, setupFlowVars, PairingInv, PairingTypeOK,
     Records, SetupInv, SetupTypeOK
<1>2. RecordInv'
  BY PairingConstants DEF SyncCopy, Doing, To, Elsewhere, Resting, setupFlowVars,
     PairingInv, PairingTypeOK, Records, Memories, SetupInv, SetupTypeOK, RecordInv,
     ConnectionInv, KeyInv
<1>3. ConnectionInv'
  BY PairingConstants DEF SyncCopy, Doing, To, Elsewhere, Resting, setupFlowVars,
     PairingInv, PairingTypeOK, Records, Memories, SetupInv, SetupTypeOK, RecordInv,
     ConnectionInv, KeyInv, PairedPhases
<1>4. KeyInv'
  BY PairingConstants DEF SyncCopy, Doing, To, Elsewhere, Resting, setupFlowVars,
     PairingInv, PairingTypeOK, Records, SetupInv, SetupTypeOK, RecordInv, ConnectionInv,
     KeyInv
<1> QED BY <1>1, <1>2, <1>3, <1>4 DEF SetupInv

LEMMA FirstBackupInv ==
    ASSUME PairingInv, SetupInv, FirstBackup
    PROVE  SetupInv'
<1>1. SetupTypeOK'
  BY DEF FirstBackup, At, Does, Ready, Usable, Elsewhere, setupFlowVars, Free, PairingInv,
     PairingTypeOK, Records, SetupInv, SetupTypeOK
<1>2. RecordInv'
  BY PairingConstants DEF FirstBackup, At, Does, Ready, Usable, Elsewhere, setupFlowVars,
     Free, PairingInv, PairingTypeOK, Records, Memories, SetupInv, SetupTypeOK, RecordInv,
     ConnectionInv, KeyInv
<1>3. ConnectionInv'
  BY PairingConstants DEF FirstBackup, At, Does, Ready, Usable, Elsewhere, setupFlowVars,
     Free, PairingInv, PairingTypeOK, Records, Memories, SetupInv, SetupTypeOK, RecordInv,
     ConnectionInv, KeyInv, PairedPhases
<1>4. KeyInv'
  BY PairingConstants DEF FirstBackup, At, Does, Ready, Usable, Elsewhere, setupFlowVars,
     Free, PairingInv, PairingTypeOK, Records, SetupInv, SetupTypeOK, RecordInv,
     ConnectionInv, KeyInv
<1> QED BY <1>1, <1>2, <1>3, <1>4 DEF SetupInv

LEMMA ConfirmDeletionsInv ==
    ASSUME PairingInv, SetupInv, ConfirmDeletions
    PROVE  SetupInv'
<1>1. SetupTypeOK'
  BY DEF ConfirmDeletions, At, Does, Usable, Elsewhere, setupFlowVars, Free, PairingInv,
     PairingTypeOK, Records, SetupInv, SetupTypeOK
<1>2. RecordInv'
  BY PairingConstants DEF ConfirmDeletions, At, Does, Usable, Elsewhere, setupFlowVars,
     Free, PairingInv, PairingTypeOK, Records, Memories, SetupInv, SetupTypeOK, RecordInv,
     ConnectionInv, KeyInv
<1>3. ConnectionInv'
  BY PairingConstants DEF ConfirmDeletions, At, Does, Usable, Elsewhere, setupFlowVars,
     Free, PairingInv, PairingTypeOK, Records, Memories, SetupInv, SetupTypeOK, RecordInv,
     ConnectionInv, KeyInv, PairedPhases
<1>4. KeyInv'
  BY PairingConstants DEF ConfirmDeletions, At, Does, Usable, Elsewhere, setupFlowVars,
     Free, PairingInv, PairingTypeOK, Records, SetupInv, SetupTypeOK, RecordInv,
     ConnectionInv, KeyInv
<1> QED BY <1>1, <1>2, <1>3, <1>4 DEF SetupInv

LEMMA BackedUpInv ==
    ASSUME PairingInv, SetupInv, BackedUp
    PROVE  SetupInv'
<1>1. SetupTypeOK'
  BY DEF BackedUp, Does, Doing, Elsewhere, PairingInv, PairingTypeOK, Records, SetupInv,
     SetupTypeOK
<1>2. RecordInv'
  BY PairingConstants DEF BackedUp, Does, Doing, Elsewhere, PairingInv, PairingTypeOK,
     Records, Memories, SetupInv, SetupTypeOK, RecordInv, ConnectionInv, KeyInv
<1>3. ConnectionInv'
  BY PairingConstants DEF BackedUp, Does, Doing, Elsewhere, PairingInv, PairingTypeOK,
     Records, Memories, SetupInv, SetupTypeOK, RecordInv, ConnectionInv, KeyInv,
     PairedPhases
<1>4. KeyInv'
  BY PairingConstants DEF BackedUp, Does, Doing, Elsewhere, PairingInv, PairingTypeOK,
     Records, SetupInv, SetupTypeOK, RecordInv, ConnectionInv, KeyInv
<1> QED BY <1>1, <1>2, <1>3, <1>4 DEF SetupInv

LEMMA RecordedInv ==
    ASSUME PairingInv, SetupInv, Record
    PROVE  SetupInv'
<1>1. SetupTypeOK'
  BY DEF Record, Doing, Elsewhere, NoneShown, Resting, PairingInv, PairingTypeOK, Records,
     SetupInv, SetupTypeOK
<1>2. RecordInv'
  BY PairingConstants DEF Record, Doing, Elsewhere, NoneShown, Resting, PairingInv,
     PairingTypeOK, Records, Memories, SetupInv, SetupTypeOK, RecordInv, ConnectionInv,
     KeyInv
<1>3. ConnectionInv'
  BY PairingConstants DEF Record, Doing, Elsewhere, NoneShown, Resting, PairingInv,
     PairingTypeOK, Records, Memories, SetupInv, SetupTypeOK, RecordInv, ConnectionInv,
     KeyInv, PairedPhases
<1>4. KeyInv'
  BY PairingConstants DEF Record, Doing, Elsewhere, NoneShown, Resting, PairingInv,
     PairingTypeOK, Records, SetupInv, SetupTypeOK, RecordInv, ConnectionInv, KeyInv
<1> QED BY <1>1, <1>2, <1>3, <1>4 DEF SetupInv

LEMMA BreaksOffInv ==
    ASSUME PairingInv, SetupInv, BreaksOff
    PROVE  SetupInv'
<1>1. SetupTypeOK'
  BY DEF BreaksOff, Doing, Elsewhere, Reserved, Resting, PairingInv, PairingTypeOK, Records,
     SetupInv, SetupTypeOK
<1>2. RecordInv'
  BY PairingConstants DEF BreaksOff, Doing, Elsewhere, Reserved, Resting, PairingInv,
     PairingTypeOK, Records, Memories, SetupInv, SetupTypeOK, RecordInv, ConnectionInv,
     KeyInv
<1>3. ConnectionInv'
  BY PairingConstants DEF BreaksOff, Doing, Elsewhere, Reserved, Resting, PairingInv,
     PairingTypeOK, Records, Memories, SetupInv, SetupTypeOK, RecordInv, ConnectionInv,
     KeyInv, PairedPhases
<1>4. KeyInv'
  BY PairingConstants DEF BreaksOff, Doing, Elsewhere, Reserved, Resting, PairingInv,
     PairingTypeOK, Records, SetupInv, SetupTypeOK, RecordInv, ConnectionInv, KeyInv
<1> QED BY <1>1, <1>2, <1>3, <1>4 DEF SetupInv

LEMMA ScheduledRunInv ==
    ASSUME PairingInv, SetupInv, ScheduledRun
    PROVE  SetupInv'
<1>1. SetupTypeOK'
  BY DEF ScheduledRun, Doing, pairingVars, PairingInv, PairingTypeOK, Records, SetupInv,
     SetupTypeOK
<1>2. RecordInv'
  BY PairingConstants DEF ScheduledRun, Doing, pairingVars, PairingInv, PairingTypeOK,
     Records, Memories, SetupInv, SetupTypeOK, RecordInv, ConnectionInv, KeyInv
<1>3. ConnectionInv'
  BY PairingConstants DEF ScheduledRun, Doing, pairingVars, PairingInv, PairingTypeOK,
     Records, Memories, SetupInv, SetupTypeOK, RecordInv, ConnectionInv, KeyInv,
     PairedPhases
<1>4. KeyInv'
  BY PairingConstants DEF ScheduledRun, Doing, pairingVars, PairingInv, PairingTypeOK,
     Records, SetupInv, SetupTypeOK, RecordInv, ConnectionInv, KeyInv
<1> QED BY <1>1, <1>2, <1>3, <1>4 DEF SetupInv

LEMMA CheckUploadInv ==
    ASSUME PairingInv, SetupInv, CheckUpload
    PROVE  SetupInv'
<1>1. SetupTypeOK'
  BY DEF CheckUpload, At, Ready, ReadyPhase, Usable, Shows, To, Elsewhere, Free, PairingInv,
     PairingTypeOK, Records, SetupInv, SetupTypeOK
<1>2. RecordInv'
  BY PairingConstants DEF CheckUpload, At, Ready, ReadyPhase, Usable, Shows, To, Elsewhere,
     Free, PairingInv, PairingTypeOK, Records, Memories, SetupInv, SetupTypeOK, RecordInv,
     ConnectionInv, KeyInv
<1>3. ConnectionInv'
  BY PairingConstants DEF CheckUpload, At, Ready, ReadyPhase, Usable, Shows, To, Elsewhere,
     Free, PairingInv, PairingTypeOK, Records, Memories, SetupInv, SetupTypeOK, RecordInv,
     ConnectionInv, KeyInv, PairedPhases
<1>4. KeyInv'
  BY PairingConstants DEF CheckUpload, At, Ready, ReadyPhase, Usable, Shows, To, Elsewhere,
     Free, PairingInv, PairingTypeOK, Records, SetupInv, SetupTypeOK, RecordInv,
     ConnectionInv, KeyInv
<1> QED BY <1>1, <1>2, <1>3, <1>4 DEF SetupInv

LEMMA AbandonUploadInv ==
    ASSUME PairingInv, SetupInv, AbandonUpload
    PROVE  SetupInv'
<1>1. SetupTypeOK'
  BY DEF AbandonUpload, At, ReadyPhase, Usable, Shows, NoneShown, To, Elsewhere, Free,
     PairingInv, PairingTypeOK, Records, SetupInv, SetupTypeOK
<1>2. RecordInv'
  BY PairingConstants DEF AbandonUpload, At, ReadyPhase, Usable, Shows, NoneShown, To,
     Elsewhere, Free, PairingInv, PairingTypeOK, Records, Memories, SetupInv, SetupTypeOK,
     RecordInv, ConnectionInv, KeyInv
<1>3. ConnectionInv'
  BY PairingConstants DEF AbandonUpload, At, ReadyPhase, Usable, Shows, NoneShown, To,
     Elsewhere, Free, PairingInv, PairingTypeOK, Records, Memories, SetupInv, SetupTypeOK,
     RecordInv, ConnectionInv, KeyInv, PairedPhases
<1>4. KeyInv'
  BY PairingConstants DEF AbandonUpload, At, ReadyPhase, Usable, Shows, NoneShown, To,
     Elsewhere, Free, PairingInv, PairingTypeOK, Records, SetupInv, SetupTypeOK, RecordInv,
     ConnectionInv, KeyInv
<1> QED BY <1>1, <1>2, <1>3, <1>4 DEF SetupInv

LEMMA PrepareDeletionsInv ==
    ASSUME PairingInv, SetupInv, PrepareDeletions
    PROVE  SetupInv'
<1>1. SetupTypeOK'
  BY DEF PrepareDeletions, At, Ready, Usable, Shows, To, Elsewhere, Free, PairingInv,
     PairingTypeOK, Records, SetupInv, SetupTypeOK
<1>2. RecordInv'
  BY PairingConstants DEF PrepareDeletions, At, Ready, Usable, Shows, To, Elsewhere, Free,
     PairingInv, PairingTypeOK, Records, Memories, SetupInv, SetupTypeOK, RecordInv,
     ConnectionInv, KeyInv
<1>3. ConnectionInv'
  BY PairingConstants DEF PrepareDeletions, At, Ready, Usable, Shows, To, Elsewhere, Free,
     PairingInv, PairingTypeOK, Records, Memories, SetupInv, SetupTypeOK, RecordInv,
     ConnectionInv, KeyInv, PairedPhases
<1>4. KeyInv'
  BY PairingConstants DEF PrepareDeletions, At, Ready, Usable, Shows, To, Elsewhere, Free,
     PairingInv, PairingTypeOK, Records, SetupInv, SetupTypeOK, RecordInv, ConnectionInv,
     KeyInv
<1> QED BY <1>1, <1>2, <1>3, <1>4 DEF SetupInv

LEMMA LeaveInv ==
    ASSUME PairingInv, SetupInv, Leave
    PROVE  SetupInv'
<1>1. SetupTypeOK'
  BY DEF Leave, At, ReadyPhase, Shows, To, Elsewhere, Free, PairingInv, PairingTypeOK,
     Records, SetupInv, SetupTypeOK
<1>2. RecordInv'
  BY PairingConstants DEF Leave, At, ReadyPhase, Shows, To, Elsewhere, Free, PairingInv,
     PairingTypeOK, Records, Memories, SetupInv, SetupTypeOK, RecordInv, ConnectionInv,
     KeyInv
<1>3. ConnectionInv'
  BY PairingConstants DEF Leave, At, ReadyPhase, Shows, To, Elsewhere, Free, PairingInv,
     PairingTypeOK, Records, Memories, SetupInv, SetupTypeOK, RecordInv, ConnectionInv,
     KeyInv, PairedPhases
<1>4. KeyInv'
  BY PairingConstants DEF Leave, At, ReadyPhase, Shows, To, Elsewhere, Free, PairingInv,
     PairingTypeOK, Records, SetupInv, SetupTypeOK, RecordInv, ConnectionInv, KeyInv
<1> QED BY <1>1, <1>2, <1>3, <1>4 DEF SetupInv

\* Pairing changes none of the setup's keys and backups.
LEMMA PairingFrame ==
    ASSUME PairingInv, SetupInv, PairingStep
    PROVE  /\ registry' \in Records
           /\ registry'.key = registry.key /\ registry'.confirmed = registry.confirmed
           /\ registry'.backup = registry.backup
           /\ registry.bound => registry'.bound
           /\ registry'.bound => wizard'["setup"].bound
           /\ durable' = durable \/ durable' = registry
           /\ \/ wizard'["setup"].phase = wizard["setup"].phase
              \/ wizard'["setup"].phase \notin PairedPhases
              \/ registry'.bound
           /\ \/ doing'.pc \notin {"draw", "synckey", "file", "make", "synccopy",
                                   "backup", "record"}
              \/ UNCHANGED <<registry, durable, doing>>
           /\ doing'.pc = "settle" => registry'.bound
           /\ doing.pc = "folder" <=> doing'.pc = "folder"
<1>1. /\ registry \in Records /\ durable \in Records /\ wizard \in [Flows -> Memories]
      /\ doing \in Works /\ "setup" \in Flows /\ "recovery" \in Flows
      /\ wizard["setup"] \in Memories
      /\ "setup" # "recovery"
  BY PairingConstants DEF PairingInv, PairingTypeOK
<1>2. /\ registry.bound => wizard["setup"].bound
      /\ wizard["setup"].phase \in PairedPhases => registry.bound
      /\ doing.pc = "settle" => registry.bound
      /\ registry.confirmed => registry.bound
  BY DEF SetupInv, RecordInv, ConnectionInv
<1>3. CASE \E f \in Flows : SendCode(f)
  BY <1>1, <1>2, <1>3, PairingConstants DEF SendCode, Free, Records, Works, PairedPhases,
     Memories
<1>4. CASE \E f \in Flows : Resolve(f)
  BY <1>1, <1>2, <1>4, PairingConstants DEF Resolve, Free, Records, Works, PairedPhases,
     Memories
<1>5. CASE \E f \in Flows : Reauthorize(f)
  BY <1>1, <1>2, <1>5, PairingConstants DEF Reauthorize, Free, Records, Works, PairedPhases,
     Memories
<1>6. CASE ListVaults
  BY <1>1, <1>2, <1>6, PairingConstants DEF ListVaults, Free, Records, Works, PairedPhases,
     Memories
<1>7. CASE PairSetup
  BY <1>1, <1>2, <1>7, PairingConstants DEF PairSetup, Free, Records, Works, PairedPhases,
     Memories
<1>8. CASE PairRecovery
  BY <1>1, <1>2, <1>8, PairingConstants DEF PairRecovery, Free, Records, Works,
     PairedPhases, Memories
<1>9. CASE CreateOnce
  BY <1>1, <1>2, <1>9, PairingConstants DEF CreateOnce, Records, Works, PairedPhases, Memories
<1>10. CASE RetrySave
  BY <1>1, <1>2, <1>10, PairingConstants DEF RetrySave, Free, Records, Works, PairedPhases,
     Memories
<1>11. CASE Save
  BY <1>1, <1>2, <1>11, PairingConstants DEF Save, Saving, Records, Works, PairedPhases,
     Memories
<1>12. CASE SyncDevice
  BY <1>1, <1>2, <1>12, PairingConstants DEF SyncDevice, Records, Works, PairedPhases, Memories
<1>13. CASE ResolveFirst
  BY <1>1, <1>2, <1>13, PairingConstants DEF ResolveFirst, Known, Records, Works,
     PairedPhases, Memories
<1>14. CASE SendClaim
  BY <1>1, <1>2, <1>14, PairingConstants DEF SendClaim, Records, Works, PairedPhases, Memories
<1>15. CASE ClaimArrives
  BY <1>1, <1>2, <1>15, PairingConstants DEF ClaimArrives, Ended, Takes, Bound, Awaited,
     Resting, Records, Works, PairedPhases, Memories
<1>16. CASE ClaimIsLost
  BY <1>1, <1>2, <1>16, PairingConstants DEF ClaimIsLost, Records, Works, PairedPhases,
     Memories
<1>17. CASE AcceptSetup
  BY <1>1, <1>2, <1>17, PairingConstants DEF AcceptSetup, Records, Works, PairedPhases,
     Memories
<1>18. CASE SyncIdentity
  BY <1>1, <1>2, <1>18, PairingConstants DEF SyncIdentity, Settled, Resting, Records, Works,
     PairedPhases, Memories
<1>19. CASE AcceptRecovery
  BY <1>1, <1>2, <1>19, PairingConstants DEF AcceptRecovery, Resting, Records, Works,
     PairedPhases, Memories
<1>20. CASE Asked
  BY <1>1, <1>2, <1>20, PairingConstants DEF Asked, Settled, Known, Resting, Records, Works,
     PairedPhases, Memories
<1>21. CASE StepFails
  BY <1>1, <1>2, <1>21, PairingConstants DEF StepFails, Ended, Resting, Records, Works,
     PairedPhases, Memories
<1> QED
  BY <1>3, <1>4, <1>5, <1>6, <1>7, <1>8, <1>9, <1>10, <1>11, <1>12, <1>13, <1>14, <1>15,
     <1>16, <1>17, <1>18, <1>19, <1>20, <1>21 DEF PairingStep

\* Setup keeps the invariant of pairing.
LEMMA SetupKeepsPairing ==
    ASSUME PairingInv, SetupInv, SetupFlowNext
    PROVE  PairingInv'
<1>1. PairingTypeOK'
  BY SetupFrame DEF PairingInv, PairingTypeOK
<1>2. ASSUME NEW f \in Flows
      PROVE  /\ durable'[f] \in {0, registry'[f]} /\ registry'[f] \in {0, wizard'[f].device}
             /\ wizard'[f].phase = "pairing_checkpoint" => wizard'[f].device # 0
             /\ account'.bound[f] \subseteq {durable'[f]} \ {0}
             /\ \A c \in claims' : c.flow = f => c.device = durable'[f] /\ c.device # 0
  <2>1. /\ wizard'[f].device = wizard[f].device
        /\ wizard'[f].phase = "pairing_checkpoint" => wizard[f].phase = "pairing_checkpoint"
    BY SetupFrame, PairingConstants DEF PairedPhases
  <2>2. durable'[f] = durable[f] \/ durable'[f] = registry[f]
    BY SetupFrame
  <2> QED BY <2>1, <2>2, SetupFrame DEF PairingInv, DeviceInv
<1>3. ASSUME NEW f \in Flows, doing'.flow = f
      PROVE  /\ doing'.pc \in Knowing \cup Saved => wizard'[f].device # 0
             /\ doing'.pc = "sync" => registry'[f] = wizard'[f].device
             /\ doing'.pc \in Saved => durable'[f] = wizard'[f].device
  <2>1. CASE doing' = doing
    <3>1. /\ UNCHANGED durable /\ registry'[f] = registry[f]
          /\ wizard'[f].device = wizard[f].device
      BY <2>1, SetupFrame, PairingConstants
    <3> QED BY <1>3, <2>1, <3>1 DEF PairingInv, DeviceInv
  <2>2. CASE doing'.pc \in SetupWorks
    BY <2>2 DEF SetupWorks, Knowing, Saved
  <2> QED BY <2>1, <2>2, SetupFrame
<1> QED BY <1>1, <1>2, <1>3 DEF PairingInv, DeviceInv

\* Pairing keeps the invariant of setup.
LEMMA PairingKeepsSetup ==
    ASSUME PairingInv, SetupInv, PairingStep, UNCHANGED setupFlowVars
    PROVE  SetupInv'
<1>1. /\ RecordInv /\ ConnectionInv /\ KeyInv /\ SetupTypeOK
      /\ UNCHANGED <<drawn, keyfile, keychain, protected, upload, review, shown>>
  BY DEF SetupInv, setupFlowVars
<1>2. SetupTypeOK'
  BY <1>1 DEF SetupTypeOK
<1>3. RecordInv'
  BY <1>1, PairingFrame DEF RecordInv
<1>4. ConnectionInv'
  BY <1>1, PairingFrame DEF ConnectionInv, RecordInv
<1>5. KeyInv'
  BY <1>1, PairingFrame DEF RecordInv, KeyInv
<1> QED BY <1>2, <1>3, <1>4, <1>5 DEF SetupInv

\* The app is opened again: the registry is read back.
LEMMA ReopensInv ==
    ASSUME PairingInv, Reopens
    PROVE  PairingInv'
<1>1. PICK r \in {registry, durable} :
         /\ registry' = r /\ doing' = Resting
         /\ wizard' = [f \in Flows |-> Opening(r, f)]
         /\ UNCHANGED <<durable, minted, account, claims>>
  BY DEF Reopens, Reopened
<1>2. r \in Records
  BY DEF PairingInv, PairingTypeOK
<1>3. PairingTypeOK'
  BY <1>1, <1>2, PairingConstants DEF PairingInv, PairingTypeOK
<1>4. \A f \in Flows : /\ durable[f] \in {0, r[f]} /\ wizard'[f].device = r[f]
                       /\ wizard'[f].phase # "pairing_checkpoint"
  BY <1>1, <1>2, PairingConstants DEF PairingInv, DeviceInv
<1>5. doing'.pc \notin Knowing \cup Saved
  BY <1>1, PairingConstants DEF Knowing, Saved
<1>6. DeviceInv'
  BY <1>1, <1>4, <1>5 DEF PairingInv, DeviceInv, Knowing
<1> QED BY <1>3, <1>6 DEF PairingInv

\* What setup has stored is read back with it.
LEMMA ReopensKeepsSetup ==
    ASSUME PairingInv, SetupInv, Reopens, shown' \in [upload : Nat, review : Nat],
           UNCHANGED <<drawn, keyfile, keychain, protected, upload, review>>
    PROVE  SetupInv'
<1>1. PICK r \in {registry, durable} :
         /\ registry' = r /\ doing' = Resting /\ UNCHANGED durable
         /\ wizard' = [f \in Flows |-> Opening(r, f)]
  BY DEF Reopens, Reopened
<1>2. r \in Records
  BY DEF PairingInv, PairingTypeOK
<1>3. /\ wizard'["setup"].bound = r.bound /\ wizard'["setup"].phase \notin PairedPhases
      /\ doing'.pc = "none"
  BY <1>1, <1>2, PairingConstants DEF PairedPhases
<1>4. SetupTypeOK'
  BY DEF SetupInv, SetupTypeOK
<1>5. RecordInv'
  BY <1>1, <1>3 DEF SetupInv, RecordInv
<1>6. ConnectionInv'
  BY <1>3 DEF ConnectionInv
<1>7. KeyInv'
  BY <1>1 DEF SetupInv, KeyInv
<1> QED BY <1>4, <1>5, <1>6, <1>7 DEF SetupInv

\* The invariants of pairing and setup are inductive together.
LEMMA PairingStepInv ==
    ASSUME PairingInv, PairingStep
    PROVE  PairingInv'
BY SendCodeInv, ResolveInv, ReauthorizeInv, ListVaultsInv, PairSetupInv, PairRecoveryInv,
   CreateOnceInv, RetrySaveInv, SaveInv, SyncDeviceInv, ResolveFirstInv, SendClaimInv,
   ClaimArrivesInv, ClaimIsLostInv, AcceptSetupInv, SyncIdentityInv, AcceptRecoveryInv,
   AskedInv, StepFailsInv
   DEF PairingStep

LEMMA SetupStepInv ==
    ASSUME PairingInv, SetupInv, SetupFlowNext
    PROVE  PairingInv' /\ SetupInv'
<1>1. SetupInv'
  BY PrepareKeyInv, DrawKeyInv, SyncKeyInv, KeyFileInv, MakeKeyInv, ConfirmKeyInv,
     SyncCopyInv, FirstBackupInv, ConfirmDeletionsInv, BackedUpInv, RecordedInv,
     BreaksOffInv, ScheduledRunInv, CheckUploadInv, AbandonUploadInv,
     PrepareDeletionsInv, LeaveInv
     DEF SetupFlowNext
<1> QED BY <1>1, SetupKeepsPairing

\* At the start nothing is paired or set up.
LEMMA PairingInitInv == PairingInit => PairingInv
<1> SUFFICES ASSUME PairingInit PROVE PairingInv
  OBVIOUS
<1>1. /\ registry = Blank /\ durable = Blank /\ doing = Resting /\ minted = 0 /\ claims = {}
      /\ wizard = [f \in Flows |-> Opening(Blank, f)]
      /\ account \in Accounts /\ \A f \in Flows : account.bound[f] = {}
  BY DEF PairingInit, Accounts
<1>2. PairingTypeOK
  BY <1>1, PairingConstants DEF PairingTypeOK
<1>3. \A f \in Flows : /\ Blank[f] = 0 /\ wizard[f].device = 0
                       /\ wizard[f].phase # "pairing_checkpoint"
  BY <1>1, PairingConstants DEF Blank
<1>4. doing.pc \notin Knowing \cup Saved
  BY <1>1, PairingConstants DEF Knowing, Saved
<1> QED BY <1>1, <1>2, <1>3, <1>4 DEF PairingInv, DeviceInv, Knowing

LEMMA SetupInitInv == PairingInit /\ SetupInit => SetupInv
<1> SUFFICES ASSUME PairingInit, SetupInit PROVE SetupInv
  OBVIOUS
<1>1. /\ registry = Blank /\ durable = Blank /\ doing = Resting
      /\ wizard["setup"] = Opening(Blank, "setup")
  BY PairingConstants DEF PairingInit
<1>2. /\ wizard["setup"].phase \notin PairedPhases /\ doing.pc = "none"
  BY <1>1, PairingConstants DEF PairedPhases
<1>3. SetupTypeOK /\ KeyInv
  BY DEF SetupInit, SetupTypeOK, KeyInv, NoneShown
<1>4. RecordInv
  BY <1>1 DEF RecordInv, Blank
<1>5. ConnectionInv
  BY <1>2 DEF ConnectionInv
<1> QED BY <1>3, <1>4, <1>5 DEF SetupInv

\* What the invariants say of devices and keys.
LEMMA OrphansNothing == PairingInv /\ SetupInv => NothingOrphaned
BY DEF PairingInv, PairingTypeOK, DeviceInv, SetupInv, RecordInv, KeyInv, Claims,
       NothingOrphaned, BindingsAreSaved, KeysAreSaved

\* Every device that the service has bound, or may still bind, and every key that was
\* made or used is the one this Mac has saved for good, wherever an answer, a start
\* or the power is lost (setup.py, vault_hosted_key_setup.py).
THEOREM NothingIsOrphaned == SetupSpec => []NothingOrphaned
<1> DEFINE Inv == PairingInv /\ SetupInv
<1>1. PairingInit /\ SetupInit => Inv
  BY PairingInitInv, SetupInitInv
<1>2. ASSUME Inv, [\/ SetupFlowNext
                   \/ PairingNext /\ UNCHANGED setupFlowVars]_<<pairingVars, setupFlowVars>>
      PROVE  Inv'
  <2>1. CASE SetupFlowNext
    BY <1>2, <2>1, SetupStepInv
  <2>2. CASE PairingStep /\ UNCHANGED setupFlowVars
    BY <1>2, <2>2, PairingStepInv, PairingKeepsSetup
  <2>3. CASE Reopens /\ UNCHANGED setupFlowVars
    <3>1. /\ UNCHANGED <<drawn, keyfile, keychain, protected, upload, review>>
          /\ shown' \in [upload : Nat, review : Nat]
      BY <1>2, <2>3 DEF setupFlowVars, SetupInv, SetupTypeOK
    <3> QED BY <1>2, <2>3, <3>1, ReopensInv, ReopensKeepsSetup
  <2>4. CASE UNCHANGED <<pairingVars, setupFlowVars>>
    BY <1>2, <2>4 DEF pairingVars, setupFlowVars, PairingInv, PairingTypeOK, DeviceInv,
                      SetupInv, SetupTypeOK, RecordInv, ConnectionInv, KeyInv
  <2> QED BY <1>2, <2>1, <2>2, <2>3, <2>4 DEF PairingNext
<1>3. Inv => NothingOrphaned
  BY OrphansNothing
<1> QED BY <1>1, <1>2, <1>3, PTL DEF SetupSpec

-----------------------------------------------------------------------------
\* Recovery: what is recovered is whole.

RecoveryWorks == {Resting, [flow |-> "recovery", pc |-> "folder"]}

\* Recovery changes nothing of the registry, the service or the setup's wizard.
LEMMA RecoveryFrame ==
    ASSUME PairingInv, RecoveryTypeOK, RecoveryStep
    PROVE  /\ UNCHANGED <<registry, durable, minted, account, claims>>
           /\ wizard' \in [Flows -> Memories] /\ wizard'["setup"] = wizard["setup"]
           /\ wizard'["recovery"].device = wizard["recovery"].device
           /\ \/ wizard'["recovery"].phase = wizard["recovery"].phase
              \/ wizard'["recovery"].phase # "pairing_checkpoint"
           /\ doing' = doing \/ doing' \in RecoveryWorks
<1>1. /\ wizard \in [Flows -> Memories] /\ "setup" \in Flows /\ "recovery" \in Flows
      /\ wizard["recovery"] \in Memories /\ "setup" # "recovery"
  BY PairingConstants DEF PairingInv, PairingTypeOK
<1>2. ASSUME NEW p \in RecoveryPhases, Wizard(p)
      PROVE  /\ wizard' \in [Flows -> Memories] /\ wizard'["setup"] = wizard["setup"]
             /\ wizard'["recovery"].device = wizard["recovery"].device
             /\ wizard'["recovery"].phase # "pairing_checkpoint"
  <2>1. [wizard["recovery"] EXCEPT !.phase = p] \in Memories
    BY <1>1 DEF Memories
  <2>2. p # "pairing_checkpoint"
    BY DEF RecoveryPhases
  <2> QED BY <1>1, <1>2, <2>1, <2>2 DEF Wizard, Memories
<1>3. CASE ListVersions
  <2>1. "versions" \in RecoveryPhases /\ Wizard("versions")
    BY <1>3 DEF ListVersions, RecoveryPhases
  <2> QED BY <1>2, <1>3, <2>1 DEF ListVersions
<1>4. CASE AppOpens
  BY <1>1, <1>4 DEF AppOpens, RecoveryWorks
<1>5. CASE UNCHANGED pairingVars
  BY <1>1, <1>5 DEF pairingVars
<1>6. ASSUME NEW p \in Receivers, Rests(p) PROVE
         /\ UNCHANGED <<registry, durable, minted, account, claims>>
         /\ doing' = doing \/ doing' \in RecoveryWorks
  BY <1>6 DEF Rests, RecoveryWorks
<1>7. ASSUME NEW p \in Receivers, Done(p) \/ GivesUp(p) \/ Undo(p)
      PROVE  UNCHANGED wizard \/ \E q \in RecoveryPhases : Wizard(q)
  BY <1>7 DEF Done, GivesUp, Undo, After, RecoveryPhases
<1>8. ASSUME NEW p \in Receivers, Receives(p)
      PROVE  UNCHANGED pairingVars \/ (Rests(p) /\ (Done(p) \/ GivesUp(p) \/ Undo(p)))
  BY <1>8 DEF Receives, Mark, ClearPartial, Check, CreatePartial, Copy, CopyFails, Link,
              UnlinkPartial, Unlinks, Onward, ImportKey, CheckKey, Verify, Unmark, Done,
              GivesUp, Undo, pairingVars
<1>9. CASE \E p \in Receivers : Receives(p) /\ Rests(p) /\ (Done(p) \/ GivesUp(p) \/ Undo(p))
  BY <1>1, <1>2, <1>6, <1>7, <1>9
<1>10. CliOpens \/ CliDies => UNCHANGED pairingVars
  BY DEF CliOpens, CliDies
<1> QED BY <1>3, <1>4, <1>5, <1>8, <1>9, <1>10 DEF RecoveryStep

\* Recovery keeps the invariant of pairing.
LEMMA RecoveryKeepsPairing ==
    ASSUME PairingInv, RecoveryTypeOK, RecoveryStep
    PROVE  PairingInv'
<1>1. /\ \A w \in RecoveryWorks : w \in Works /\ w.pc \notin Knowing \cup Saved
      /\ PairingTypeOK /\ DeviceInv
  BY PairingConstants DEF RecoveryWorks, Works, Knowing, Saved, PairingInv
<1>2. PairingTypeOK'
  BY <1>1, RecoveryFrame DEF PairingTypeOK
<1>3. \A f \in Flows : /\ wizard'[f].device = wizard[f].device
                       /\ \/ wizard'[f].phase = wizard[f].phase
                          \/ wizard'[f].phase # "pairing_checkpoint"
  BY RecoveryFrame, PairingConstants
<1>4. DeviceInv'
  BY <1>1, <1>3, RecoveryFrame DEF DeviceInv, Knowing
<1> QED BY <1>2, <1>4 DEF PairingInv

\* Recovery keeps the invariant of setup.
LEMMA RecoveryKeepsSetup ==
    ASSUME PairingInv, SetupInv, RecoveryTypeOK, RecoveryStep, UNCHANGED setupFlowVars
    PROVE  SetupInv'
<1>1. \A w \in RecoveryWorks : w.pc \in {"none", "folder"}
  BY PairingConstants DEF RecoveryWorks
<1>2. /\ UNCHANGED <<drawn, keyfile, keychain, protected, upload, review, shown>>
      /\ SetupTypeOK /\ RecordInv /\ ConnectionInv /\ KeyInv
  BY DEF setupFlowVars, SetupInv
<1>3. SetupTypeOK' /\ KeyInv'
  BY <1>2, RecoveryFrame DEF SetupTypeOK, KeyInv
<1>4. RecordInv'
  BY <1>2, RecoveryFrame DEF RecordInv
<1>5. ConnectionInv'
  BY <1>1, <1>2, RecoveryFrame DEF ConnectionInv
<1> QED BY <1>3, <1>4, <1>5 DEF SetupInv

\* What a receiver's step does to the receivers and the folder.
LEMMA TurnsFacts ==
    ASSUME RecoveryTypeOK, NEW p \in Receivers, receiver[p] # Away,
           NEW pc \in Stages, Turns(p, pc)
    PROVE  /\ receiver' \in [Receivers -> Receptions]
           /\ receiver'[p].pc = pc /\ receiver'[p] # Away
           /\ \A q \in Receivers : /\ receiver'[q].item = receiver[q].item
                                   /\ q # p => receiver'[q] = receiver[q]
<1>1. receiver \in [Receivers -> Receptions] /\ receiver[p] \in Receptions \ {Away}
  BY DEF RecoveryTypeOK
<1>2. [receiver[p] EXCEPT !.pc = pc] \in Receptions \ {Away}
  BY <1>1 DEF Receptions, Away, Stages
<1> QED BY <1>1, <1>2 DEF Turns, Receptions, Away, Stages

LEMMA MovesFacts ==
    ASSUME RecoveryTypeOK, NEW p \in Receivers, receiver[p] # Away,
           NEW pc \in Stages, NEW i \in Items, Moves(p, pc, i)
    PROVE  /\ receiver' \in [Receivers -> Receptions]
           /\ receiver'[p].pc = pc /\ receiver'[p] # Away /\ receiver'[p].item = i
           /\ \A q \in Receivers : q # p => receiver'[q] = receiver[q]
<1>1. receiver \in [Receivers -> Receptions] /\ receiver[p] \in Receptions \ {Away}
  BY DEF RecoveryTypeOK
<1>2. [receiver[p] EXCEPT !.pc = pc, !.item = i] \in Receptions \ {Away}
  BY <1>1 DEF Receptions, Away, Stages
<1> QED BY <1>1, <1>2 DEF Moves, Receptions, Away, Stages

LEMMA RestsFacts ==
    ASSUME RecoveryTypeOK, NEW p \in Receivers, receiver' = [receiver EXCEPT ![p] = Away]
    PROVE  /\ receiver' \in [Receivers -> Receptions] /\ receiver'[p] = Away
           /\ \A q \in Receivers : q # p => receiver'[q] = receiver[q]
BY DEF RecoveryTypeOK, Receptions, Away

\* What no step of a receiver undoes.
Progress(p) ==
    /\ imported => imported'
    /\ \A i \in 1..3 : final[i] = "whole" => final'[i] = "whole"
    /\ final'[Latest] # "none" => final[Latest] # "none" \/ Item(p) = Latest
    /\ \A q \in Receivers : receiver'[q].item = Latest =>
          \/ receiver[q].item = Latest
          \/ imported /\ \A i \in 1..3 : final[i] = "whole"

\* A receiver goes on, or its operation ends and the app's step with it.
Receiving(p) ==
    /\ receiver[p] # Away
    /\ \/ receiver'[p] # Away /\ UNCHANGED doing
       \/ receiver'[p] = Away /\ doing' = IF p = "app" THEN Resting ELSE doing
    /\ \A q \in Receivers : q # p => receiver'[q] = receiver[q]

LEMMA WrittenFacts ==
    ASSUME RecoveryTypeOK, NEW p \in Receivers, NEW v \in Contents, Written(p, v)
    PROVE  /\ final' \in [Items -> Contents] /\ partial' \in [Items -> Contents]
           /\ \A i \in Items : final'[i] = IF final[i] = p THEN v ELSE final[i]
BY DEF RecoveryTypeOK, Written

LEMMA ProgressKeeps ==
    ASSUME RecoveryInv, RecoveryTypeOK', NEW p \in Receivers, Progress(p)
    PROVE  RecoveryInv'
BY DEF RecoveryInv, Progress, Item, Latest

\* One lemma for each step of a receiver.
LEMMA MarkKeeps ==
    ASSUME RecoveryInv, NEW p \in Receivers, Mark(p)
    PROVE  RecoveryTypeOK' /\ Progress(p) /\ Receiving(p)
<1>1. /\ RecoveryTypeOK /\ receiver[p] \in Receptions \ {Away}
      /\ receiver \in [Receivers -> Receptions]
      /\ Item(p) \in Items
  BY DEF Mark, Is, Item, RecoveryInv, RecoveryTypeOK, Receptions, Away
<1>2. /\ receiver' \in [Receivers -> Receptions]
      /\ \A q \in Receivers : q # p => receiver'[q] = receiver[q]
      /\ receiver'[p] # Away
      /\ UNCHANGED doing
  BY <1>1, TurnsFacts DEF Mark, Is, Stages, Away, Items, pairingVars
<1>3. receiver'[p].item = Latest =>
         receiver[p].item = Latest \/ (imported /\ \A i \in 1..3 : final[i] = "whole")
  BY <1>1, TurnsFacts DEF Mark, Is, Stages, Items, Latest, Away
<1>4. RecoveryTypeOK'
  BY <1>1, <1>2 DEF Mark, Is, RecoveryTypeOK, Contents
<1>5. /\ imported => imported'
      /\ \A i \in 1..3 : final[i] = "whole" => final'[i] = "whole"
      /\ final'[Latest] # "none" => final[Latest] # "none" \/ Item(p) = Latest
  BY <1>1 DEF Mark, Item, RecoveryTypeOK, Contents, Latest, Items, Receivers
<1> QED BY <1>1, <1>2, <1>3, <1>4, <1>5 DEF Progress, Receiving, Away

LEMMA ClearPartialKeeps ==
    ASSUME RecoveryInv, NEW p \in Receivers, ClearPartial(p)
    PROVE  RecoveryTypeOK' /\ Progress(p) /\ Receiving(p)
<1>1. /\ RecoveryTypeOK /\ receiver[p] \in Receptions \ {Away}
      /\ receiver \in [Receivers -> Receptions]
      /\ Item(p) \in Items
  BY DEF ClearPartial, Is, Item, RecoveryInv, RecoveryTypeOK, Receptions, Away
<1>2. /\ receiver' \in [Receivers -> Receptions]
      /\ \A q \in Receivers : q # p => receiver'[q] = receiver[q]
      /\ receiver'[p] # Away
      /\ UNCHANGED doing
  BY <1>1, TurnsFacts DEF ClearPartial, Is, Item, Stages, Away, Items, pairingVars
<1>3. receiver'[p].item = Latest =>
         receiver[p].item = Latest \/ (imported /\ \A i \in 1..3 : final[i] = "whole")
  BY <1>1, TurnsFacts DEF ClearPartial, Is, Item, Stages, Items, Latest, Away
<1>4. RecoveryTypeOK'
  BY <1>1, <1>2 DEF ClearPartial, Is, Item, RecoveryTypeOK, Contents
<1>5. /\ imported => imported'
      /\ \A i \in 1..3 : final[i] = "whole" => final'[i] = "whole"
      /\ final'[Latest] # "none" => final[Latest] # "none" \/ Item(p) = Latest
  BY <1>1 DEF ClearPartial, Item, RecoveryTypeOK, Contents, Latest, Items, Receivers
<1> QED BY <1>1, <1>2, <1>3, <1>4, <1>5 DEF Progress, Receiving, Away

LEMMA CheckKeeps ==
    ASSUME RecoveryInv, NEW p \in Receivers, Check(p)
    PROVE  RecoveryTypeOK' /\ Progress(p) /\ Receiving(p)
<1>1. /\ RecoveryTypeOK /\ receiver[p] \in Receptions \ {Away}
      /\ receiver \in [Receivers -> Receptions]
      /\ Item(p) \in Items
  BY DEF Check, Is, Item, RecoveryInv, RecoveryTypeOK, Receptions, Away
<1>2. /\ receiver' \in [Receivers -> Receptions]
      /\ \A q \in Receivers : q # p => receiver'[q] = receiver[q]
      /\ receiver'[p] # Away
      /\ UNCHANGED doing
  BY <1>1, TurnsFacts DEF Check, Is, Item, Stages, Away, Items, pairingVars
<1>3. receiver'[p].item = Latest =>
         receiver[p].item = Latest \/ (imported /\ \A i \in 1..3 : final[i] = "whole")
  BY <1>1, TurnsFacts DEF Check, Is, Item, Stages, Items, Latest, Away
<1>4. RecoveryTypeOK'
  BY <1>1, <1>2 DEF Check, Is, Item, RecoveryTypeOK, Contents
<1>5. /\ imported => imported'
      /\ \A i \in 1..3 : final[i] = "whole" => final'[i] = "whole"
      /\ final'[Latest] # "none" => final[Latest] # "none" \/ Item(p) = Latest
  BY <1>1 DEF Check, Item, RecoveryTypeOK, Contents, Latest, Items, Receivers
<1> QED BY <1>1, <1>2, <1>3, <1>4, <1>5 DEF Progress, Receiving, Away

LEMMA CreatePartialKeeps ==
    ASSUME RecoveryInv, NEW p \in Receivers, CreatePartial(p)
    PROVE  RecoveryTypeOK' /\ Progress(p) /\ Receiving(p)
<1>1. /\ RecoveryTypeOK /\ receiver[p] \in Receptions \ {Away}
      /\ receiver \in [Receivers -> Receptions]
      /\ Item(p) \in Items
  BY DEF CreatePartial, Is, Item, RecoveryInv, RecoveryTypeOK, Receptions, Away
<1>2. /\ receiver' \in [Receivers -> Receptions]
      /\ \A q \in Receivers : q # p => receiver'[q] = receiver[q]
      /\ receiver'[p] # Away
      /\ UNCHANGED doing
  BY <1>1, TurnsFacts DEF CreatePartial, Is, Item, Stages, Away, Items, pairingVars
<1>3. receiver'[p].item = Latest =>
         receiver[p].item = Latest \/ (imported /\ \A i \in 1..3 : final[i] = "whole")
  BY <1>1, TurnsFacts DEF CreatePartial, Is, Item, Stages, Items, Latest, Away
<1>4. RecoveryTypeOK'
  BY <1>1, <1>2 DEF CreatePartial, Is, Item, RecoveryTypeOK, Contents
<1>5. /\ imported => imported'
      /\ \A i \in 1..3 : final[i] = "whole" => final'[i] = "whole"
      /\ final'[Latest] # "none" => final[Latest] # "none" \/ Item(p) = Latest
  BY <1>1 DEF CreatePartial, Item, RecoveryTypeOK, Contents, Latest, Items, Receivers
<1> QED BY <1>1, <1>2, <1>3, <1>4, <1>5 DEF Progress, Receiving, Away

LEMMA CopyKeeps ==
    ASSUME RecoveryInv, NEW p \in Receivers, Copy(p)
    PROVE  RecoveryTypeOK' /\ Progress(p) /\ Receiving(p)
<1>1. /\ RecoveryTypeOK /\ receiver[p] \in Receptions \ {Away}
      /\ receiver \in [Receivers -> Receptions]
      /\ Item(p) \in Items
  BY DEF Copy, Is, Item, RecoveryInv, RecoveryTypeOK, Receptions, Away
<1>2. /\ receiver' \in [Receivers -> Receptions]
      /\ \A q \in Receivers : q # p => receiver'[q] = receiver[q]
      /\ receiver'[p] # Away
      /\ UNCHANGED doing
  BY <1>1, TurnsFacts DEF Copy, Is, Stages, Away, Items, pairingVars
<1>3. receiver'[p].item = Latest =>
         receiver[p].item = Latest \/ (imported /\ \A i \in 1..3 : final[i] = "whole")
  BY <1>1, TurnsFacts DEF Copy, Is, Stages, Items, Latest, Away
<1>4. RecoveryTypeOK'
  BY <1>1, <1>2, WrittenFacts DEF Copy, Is, RecoveryTypeOK, Contents
<1>5. /\ imported => imported'
      /\ \A i \in 1..3 : final[i] = "whole" => final'[i] = "whole"
      /\ final'[Latest] # "none" => final[Latest] # "none" \/ Item(p) = Latest
  BY <1>1, WrittenFacts DEF Copy, Item, RecoveryTypeOK, Contents, Latest, Items, Receivers
<1> QED BY <1>1, <1>2, <1>3, <1>4, <1>5 DEF Progress, Receiving, Away

LEMMA CopyFailsKeeps ==
    ASSUME RecoveryInv, NEW p \in Receivers, CopyFails(p)
    PROVE  RecoveryTypeOK' /\ Progress(p) /\ Receiving(p)
<1>1. /\ RecoveryTypeOK /\ receiver[p] \in Receptions \ {Away}
      /\ receiver \in [Receivers -> Receptions]
      /\ Item(p) \in Items
  BY DEF CopyFails, Is, Item, RecoveryInv, RecoveryTypeOK, Receptions, Away
<1>2. /\ receiver' \in [Receivers -> Receptions]
      /\ \A q \in Receivers : q # p => receiver'[q] = receiver[q]
      /\ receiver'[p] # Away
      /\ UNCHANGED doing
  BY <1>1, TurnsFacts DEF CopyFails, Is, Stages, Away, Items, pairingVars
<1>3. receiver'[p].item = Latest =>
         receiver[p].item = Latest \/ (imported /\ \A i \in 1..3 : final[i] = "whole")
  BY <1>1, TurnsFacts DEF CopyFails, Is, Stages, Items, Latest, Away
<1>4. RecoveryTypeOK'
  BY <1>1, <1>2, WrittenFacts DEF CopyFails, Is, RecoveryTypeOK, Contents
<1>5. /\ imported => imported'
      /\ \A i \in 1..3 : final[i] = "whole" => final'[i] = "whole"
      /\ final'[Latest] # "none" => final[Latest] # "none" \/ Item(p) = Latest
  BY <1>1, WrittenFacts DEF CopyFails, Item, RecoveryTypeOK, Contents, Latest, Items, Receivers
<1> QED BY <1>1, <1>2, <1>3, <1>4, <1>5 DEF Progress, Receiving, Away

LEMMA LinkKeeps ==
    ASSUME RecoveryInv, NEW p \in Receivers, Link(p)
    PROVE  RecoveryTypeOK' /\ Progress(p) /\ Receiving(p)
<1>1. /\ RecoveryTypeOK /\ receiver[p] \in Receptions \ {Away}
      /\ receiver \in [Receivers -> Receptions]
      /\ Item(p) \in Items
  BY DEF Link, Is, Item, RecoveryInv, RecoveryTypeOK, Receptions, Away
<1>2. /\ receiver' \in [Receivers -> Receptions]
      /\ \A q \in Receivers : q # p => receiver'[q] = receiver[q]
      /\ receiver'[p] # Away
      /\ UNCHANGED doing
  BY <1>1, TurnsFacts DEF Link, Is, Item, Stages, Away, Items, pairingVars
<1>3. receiver'[p].item = Latest =>
         receiver[p].item = Latest \/ (imported /\ \A i \in 1..3 : final[i] = "whole")
  BY <1>1, TurnsFacts DEF Link, Is, Item, Stages, Items, Latest, Away
<1>4. RecoveryTypeOK'
  BY <1>1, <1>2 DEF Link, Is, Item, RecoveryTypeOK, Contents
<1>5. /\ imported => imported'
      /\ \A i \in 1..3 : final[i] = "whole" => final'[i] = "whole"
      /\ final'[Latest] # "none" => final[Latest] # "none" \/ Item(p) = Latest
  BY <1>1 DEF Link, Item, RecoveryTypeOK, Contents, Latest, Items, Receivers
<1> QED BY <1>1, <1>2, <1>3, <1>4, <1>5 DEF Progress, Receiving, Away

LEMMA UnlinkPartialKeeps ==
    ASSUME RecoveryInv, NEW p \in Receivers, UnlinkPartial(p)
    PROVE  RecoveryTypeOK' /\ Progress(p) /\ Receiving(p)
<1>1. /\ RecoveryTypeOK /\ receiver[p] \in Receptions \ {Away}
      /\ receiver \in [Receivers -> Receptions]
      /\ Item(p) \in Items
  BY DEF UnlinkPartial, Is, Item, RecoveryInv, RecoveryTypeOK, Receptions, Away
<1>2. /\ receiver' \in [Receivers -> Receptions]
      /\ \A q \in Receivers : q # p => receiver'[q] = receiver[q]
      /\ receiver'[p] # Away
      /\ UNCHANGED doing
  BY <1>1, TurnsFacts DEF UnlinkPartial, Is, Stages, Away, Items, pairingVars
<1>3. receiver'[p].item = Latest =>
         receiver[p].item = Latest \/ (imported /\ \A i \in 1..3 : final[i] = "whole")
  BY <1>1, TurnsFacts DEF UnlinkPartial, Is, Stages, Items, Latest, Away
<1>4. RecoveryTypeOK'
  BY <1>1, <1>2 DEF UnlinkPartial, Is, Unlinks, RecoveryTypeOK, Contents
<1>5. /\ imported => imported'
      /\ \A i \in 1..3 : final[i] = "whole" => final'[i] = "whole"
      /\ final'[Latest] # "none" => final[Latest] # "none" \/ Item(p) = Latest
  BY <1>1 DEF UnlinkPartial, Item, Unlinks, RecoveryTypeOK, Contents, Latest, Items, Receivers
<1> QED BY <1>1, <1>2, <1>3, <1>4, <1>5 DEF Progress, Receiving, Away

LEMMA OnwardKeeps ==
    ASSUME RecoveryInv, NEW p \in Receivers, Onward(p)
    PROVE  RecoveryTypeOK' /\ Progress(p) /\ Receiving(p)
<1>1. /\ RecoveryTypeOK /\ receiver[p] \in Receptions \ {Away}
      /\ receiver \in [Receivers -> Receptions]
      /\ Item(p) \in Items
  BY DEF Onward, Is, Item, RecoveryInv, RecoveryTypeOK, Receptions, Away
<1>2. /\ receiver' \in [Receivers -> Receptions]
      /\ \A q \in Receivers : q # p => receiver'[q] = receiver[q]
      /\ receiver'[p] # Away
      /\ UNCHANGED doing
  BY <1>1, TurnsFacts, MovesFacts DEF Onward, Is, Item, Stages, Away, Items, pairingVars
<1>3. receiver'[p].item = Latest =>
         receiver[p].item = Latest \/ (imported /\ \A i \in 1..3 : final[i] = "whole")
  BY <1>1, TurnsFacts, MovesFacts DEF Onward, Is, Item, Stages, Items, Latest, Away
<1>4. RecoveryTypeOK'
  BY <1>1, <1>2 DEF Onward, Is, Item, RecoveryTypeOK, Contents
<1>5. /\ imported => imported'
      /\ \A i \in 1..3 : final[i] = "whole" => final'[i] = "whole"
      /\ final'[Latest] # "none" => final[Latest] # "none" \/ Item(p) = Latest
  BY <1>1 DEF Onward, Item, RecoveryTypeOK, Contents, Latest, Items, Receivers
<1> QED BY <1>1, <1>2, <1>3, <1>4, <1>5 DEF Progress, Receiving, Away

LEMMA ImportKeyKeeps ==
    ASSUME RecoveryInv, NEW p \in Receivers, ImportKey(p)
    PROVE  RecoveryTypeOK' /\ Progress(p) /\ Receiving(p)
<1>1. /\ RecoveryTypeOK /\ receiver[p] \in Receptions \ {Away}
      /\ receiver \in [Receivers -> Receptions]
      /\ Item(p) \in Items
  BY DEF ImportKey, Is, Item, RecoveryInv, RecoveryTypeOK, Receptions, Away
<1>2. /\ receiver' \in [Receivers -> Receptions]
      /\ \A q \in Receivers : q # p => receiver'[q] = receiver[q]
      /\ receiver'[p] # Away
      /\ UNCHANGED doing
  BY <1>1, TurnsFacts DEF ImportKey, Is, Stages, Away, Items, pairingVars
<1>3. receiver'[p].item = Latest =>
         receiver[p].item = Latest \/ (imported /\ \A i \in 1..3 : final[i] = "whole")
  BY <1>1, TurnsFacts DEF ImportKey, Is, Stages, Items, Latest, Away
<1>4. RecoveryTypeOK'
  BY <1>1, <1>2 DEF ImportKey, Is, RecoveryTypeOK, Contents
<1>5. /\ imported => imported'
      /\ \A i \in 1..3 : final[i] = "whole" => final'[i] = "whole"
      /\ final'[Latest] # "none" => final[Latest] # "none" \/ Item(p) = Latest
  BY <1>1 DEF ImportKey, Item, RecoveryTypeOK, Contents, Latest, Items, Receivers
<1> QED BY <1>1, <1>2, <1>3, <1>4, <1>5 DEF Progress, Receiving, Away

LEMMA CheckKeyKeeps ==
    ASSUME RecoveryInv, NEW p \in Receivers, CheckKey(p)
    PROVE  RecoveryTypeOK' /\ Progress(p) /\ Receiving(p)
<1>1. /\ RecoveryTypeOK /\ receiver[p] \in Receptions \ {Away}
      /\ receiver \in [Receivers -> Receptions]
      /\ Item(p) \in Items
  BY DEF CheckKey, Is, Item, RecoveryInv, RecoveryTypeOK, Receptions, Away
<1>2. /\ receiver' \in [Receivers -> Receptions]
      /\ \A q \in Receivers : q # p => receiver'[q] = receiver[q]
      /\ receiver'[p] # Away
      /\ UNCHANGED doing
  BY <1>1, MovesFacts DEF CheckKey, Is, Stages, Away, Items, pairingVars
<1>3. receiver'[p].item = Latest =>
         receiver[p].item = Latest \/ (imported /\ \A i \in 1..3 : final[i] = "whole")
  BY <1>1, MovesFacts DEF CheckKey, Is, Stages, Items, Latest, Away
<1>4. RecoveryTypeOK'
  BY <1>1, <1>2 DEF CheckKey, Is, RecoveryTypeOK, Contents
<1>5. /\ imported => imported'
      /\ \A i \in 1..3 : final[i] = "whole" => final'[i] = "whole"
      /\ final'[Latest] # "none" => final[Latest] # "none" \/ Item(p) = Latest
  BY <1>1 DEF CheckKey, Item, RecoveryTypeOK, Contents, Latest, Items, Receivers
<1> QED BY <1>1, <1>2, <1>3, <1>4, <1>5 DEF Progress, Receiving, Away

LEMMA VerifyKeeps ==
    ASSUME RecoveryInv, NEW p \in Receivers, Verify(p)
    PROVE  RecoveryTypeOK' /\ Progress(p) /\ Receiving(p)
<1>1. /\ RecoveryTypeOK /\ receiver[p] \in Receptions \ {Away}
      /\ receiver \in [Receivers -> Receptions]
      /\ Item(p) \in Items
  BY DEF Verify, Is, Item, RecoveryInv, RecoveryTypeOK, Receptions, Away
<1>2. /\ receiver' \in [Receivers -> Receptions]
      /\ \A q \in Receivers : q # p => receiver'[q] = receiver[q]
      /\ receiver'[p] # Away
      /\ UNCHANGED doing
  BY <1>1, MovesFacts DEF Verify, Is, Stages, Away, Items, Latest, pairingVars
<1>3. receiver'[p].item = Latest =>
         receiver[p].item = Latest \/ (imported /\ \A i \in 1..3 : final[i] = "whole")
  BY <1>1, MovesFacts DEF Verify, Is, Stages, Items, Latest, Away
<1>4. RecoveryTypeOK'
  BY <1>1, <1>2 DEF Verify, Is, RecoveryTypeOK, Contents, Latest
<1>5. /\ imported => imported'
      /\ \A i \in 1..3 : final[i] = "whole" => final'[i] = "whole"
      /\ final'[Latest] # "none" => final[Latest] # "none" \/ Item(p) = Latest
  BY <1>1 DEF Verify, Item, RecoveryTypeOK, Contents, Latest, Items, Receivers
<1> QED BY <1>1, <1>2, <1>3, <1>4, <1>5 DEF Progress, Receiving, Away

LEMMA UnmarkKeeps ==
    ASSUME RecoveryInv, NEW p \in Receivers, Unmark(p)
    PROVE  RecoveryTypeOK' /\ Progress(p) /\ Receiving(p)
<1>1. /\ RecoveryTypeOK /\ receiver[p] \in Receptions \ {Away}
      /\ receiver \in [Receivers -> Receptions]
      /\ Item(p) \in Items
  BY DEF Unmark, Is, Item, RecoveryInv, RecoveryTypeOK, Receptions, Away
<1>2. /\ receiver' \in [Receivers -> Receptions]
      /\ \A q \in Receivers : q # p => receiver'[q] = receiver[q]
      /\ receiver'[p] # Away
      /\ UNCHANGED doing
  BY <1>1, TurnsFacts DEF Unmark, Is, Stages, Away, Items, pairingVars
<1>3. receiver'[p].item = Latest =>
         receiver[p].item = Latest \/ (imported /\ \A i \in 1..3 : final[i] = "whole")
  BY <1>1, TurnsFacts DEF Unmark, Is, Stages, Items, Latest, Away
<1>4. RecoveryTypeOK'
  BY <1>1, <1>2 DEF Unmark, Is, RecoveryTypeOK, Contents
<1>5. /\ imported => imported'
      /\ \A i \in 1..3 : final[i] = "whole" => final'[i] = "whole"
      /\ final'[Latest] # "none" => final[Latest] # "none" \/ Item(p) = Latest
  BY <1>1 DEF Unmark, Item, RecoveryTypeOK, Contents, Latest, Items, Receivers
<1> QED BY <1>1, <1>2, <1>3, <1>4, <1>5 DEF Progress, Receiving, Away

LEMMA DoneKeeps ==
    ASSUME RecoveryInv, NEW p \in Receivers, Done(p)
    PROVE  RecoveryTypeOK' /\ Progress(p) /\ Receiving(p)
<1>1. /\ RecoveryTypeOK /\ receiver[p] \in Receptions \ {Away}
      /\ receiver \in [Receivers -> Receptions]
      /\ Item(p) \in Items
  BY DEF Done, Is, Item, RecoveryInv, RecoveryTypeOK, Receptions, Away
<1>2. /\ receiver' \in [Receivers -> Receptions]
      /\ \A q \in Receivers : q # p => receiver'[q] = receiver[q]
      /\ receiver'[p] = Away
      /\ doing' = IF p = "app" THEN Resting ELSE doing
  <2>1. Rests(p) /\ receiver[p] # Away
    BY DEF Done, Is, Away
  <2>2. /\ receiver' = [receiver EXCEPT ![p] = Away]
        /\ doing' = IF p = "app" THEN Resting ELSE doing
    BY <2>1 DEF Rests
  <2> QED BY <1>1, <2>1, <2>2, RestsFacts
<1>3. receiver'[p].item = Latest =>
         receiver[p].item = Latest \/ (imported /\ \A i \in 1..3 : final[i] = "whole")
  BY <1>1, <1>2 DEF Done, Is, Rests, Wizard, Items, Latest, Away
<1>4. RecoveryTypeOK'
  BY <1>1, <1>2 DEF Done, Is, Rests, Wizard, RecoveryTypeOK, Contents
<1>5. /\ imported => imported'
      /\ \A i \in 1..3 : final[i] = "whole" => final'[i] = "whole"
      /\ final'[Latest] # "none" => final[Latest] # "none" \/ Item(p) = Latest
  BY <1>1 DEF Done, Item, RecoveryTypeOK, Contents, Latest, Items, Receivers
<1> QED BY <1>1, <1>2, <1>3, <1>4, <1>5 DEF Progress, Receiving, Away

LEMMA GivesUpKeeps ==
    ASSUME RecoveryInv, NEW p \in Receivers, GivesUp(p)
    PROVE  RecoveryTypeOK' /\ Progress(p) /\ Receiving(p)
<1>1. /\ RecoveryTypeOK /\ receiver[p] \in Receptions \ {Away}
      /\ receiver \in [Receivers -> Receptions]
      /\ Item(p) \in Items
  BY DEF GivesUp, Item, RecoveryInv, RecoveryTypeOK, Receptions, Away
<1>2. /\ receiver' \in [Receivers -> Receptions]
      /\ \A q \in Receivers : q # p => receiver'[q] = receiver[q]
      /\ receiver'[p] = Away
      /\ doing' = IF p = "app" THEN Resting ELSE doing
  <2>1. Rests(p) /\ receiver[p] # Away
    BY DEF GivesUp, Away
  <2>2. /\ receiver' = [receiver EXCEPT ![p] = Away]
        /\ doing' = IF p = "app" THEN Resting ELSE doing
    BY <2>1 DEF Rests
  <2> QED BY <1>1, <2>1, <2>2, RestsFacts
<1>3. receiver'[p].item = Latest =>
         receiver[p].item = Latest \/ (imported /\ \A i \in 1..3 : final[i] = "whole")
  BY <1>1, <1>2 DEF GivesUp, Rests, Items, Latest, Away
<1>4. RecoveryTypeOK'
  BY <1>1, <1>2 DEF GivesUp, Rests, RecoveryTypeOK, Contents
<1>5. /\ imported => imported'
      /\ \A i \in 1..3 : final[i] = "whole" => final'[i] = "whole"
      /\ final'[Latest] # "none" => final[Latest] # "none" \/ Item(p) = Latest
  BY <1>1 DEF GivesUp, Item, RecoveryTypeOK, Contents, Latest, Items, Receivers
<1> QED BY <1>1, <1>2, <1>3, <1>4, <1>5 DEF Progress, Receiving, Away

LEMMA UndoKeeps ==
    ASSUME RecoveryInv, NEW p \in Receivers, Undo(p)
    PROVE  RecoveryTypeOK' /\ Progress(p) /\ Receiving(p)
<1>1. /\ RecoveryTypeOK /\ receiver[p] \in Receptions \ {Away}
      /\ receiver \in [Receivers -> Receptions]
      /\ Item(p) \in Items
  BY DEF Undo, Is, Item, RecoveryInv, RecoveryTypeOK, Receptions, Away
<1>2. /\ receiver' \in [Receivers -> Receptions]
      /\ \A q \in Receivers : q # p => receiver'[q] = receiver[q]
      /\ receiver'[p] = Away
      /\ doing' = IF p = "app" THEN Resting ELSE doing
  <2>1. Rests(p) /\ receiver[p] # Away
    BY DEF Undo, Is, Away
  <2>2. /\ receiver' = [receiver EXCEPT ![p] = Away]
        /\ doing' = IF p = "app" THEN Resting ELSE doing
    BY <2>1 DEF Rests
  <2> QED BY <1>1, <2>1, <2>2, RestsFacts
<1>3. receiver'[p].item = Latest =>
         receiver[p].item = Latest \/ (imported /\ \A i \in 1..3 : final[i] = "whole")
  BY <1>1, <1>2 DEF Undo, Is, Rests, Items, Latest, Away
<1>4. RecoveryTypeOK'
  BY <1>1, <1>2 DEF Undo, Is, Rests, Unlinks, RecoveryTypeOK, Contents
<1>5. /\ imported => imported'
      /\ \A i \in 1..3 : final[i] = "whole" => final'[i] = "whole"
      /\ final'[Latest] # "none" => final[Latest] # "none" \/ Item(p) = Latest
  BY <1>1 DEF Undo, Item, Unlinks, RecoveryTypeOK, Contents, Latest, Items, Receivers
<1> QED BY <1>1, <1>2, <1>3, <1>4, <1>5 DEF Progress, Receiving, Away

\* A receiver opens and dies.
LEMMA OpensFacts ==
    ASSUME RecoveryInv, NEW p \in Receivers, NEW op \in {"prepare", "import", "download"},
           Opens(p, op), issued' \in Nat
    PROVE  /\ RecoveryTypeOK' /\ Progress(p) /\ receiver'[p] # Away
           /\ \A q \in Receivers : q # p => receiver'[q] = receiver[q]
<1>1. PICK pc \in {"mark", "clear"} :
         /\ receiver' = [receiver EXCEPT ![p] = [op |-> op, pc |-> pc, item |-> 1]]
         /\ folder' \in {"bare", "marked"}
         /\ UNCHANGED <<final, partial, twin, imported>>
  BY DEF Opens
<1>2. /\ receiver \in [Receivers -> Receptions]
      /\ [op |-> op, pc |-> pc, item |-> 1] \in Receptions \ {Away}
  BY DEF RecoveryInv, RecoveryTypeOK, Receptions, Stages, Items, Away
<1>3. RecoveryTypeOK'
  BY <1>1, <1>2 DEF RecoveryInv, RecoveryTypeOK
<1> QED BY <1>1, <1>2, <1>3 DEF RecoveryInv, Progress, Away, Latest

LEMMA DiesFacts ==
    ASSUME RecoveryInv, NEW p \in Receivers, Dies(p)
    PROVE  /\ RecoveryTypeOK' /\ Progress(p) /\ receiver'[p] = Away
           /\ \A q \in Receivers : q # p => receiver'[q] = receiver[q]
<1>1. RecoveryTypeOK /\ receiver' = [receiver EXCEPT ![p] = Away]
  BY DEF Dies, RecoveryInv
<1>2. RecoveryTypeOK'
  <2>1. "torn" \in Contents /\ Written(p, "torn")
    BY DEF Dies, Contents
  <2>2. receiver' \in [Receivers -> Receptions]
    BY <1>1, RestsFacts
  <2> QED BY <1>1, <2>1, <2>2, WrittenFacts DEF Dies, RecoveryTypeOK
<1>3. /\ receiver'[p] = Away /\ \A q \in Receivers : q # p => receiver'[q] = receiver[q]
      /\ \A i \in Items : final'[i] = IF final[i] = p THEN "torn" ELSE final[i]
      /\ UNCHANGED imported
  BY <1>1, RestsFacts, WrittenFacts DEF Dies, Contents
<1>4. Progress(p)
  BY <1>3 DEF Progress, Away, Latest, Items, Receivers
<1> QED BY <1>2, <1>3, <1>4

\* The invariant of recovery is inductive.
LEMMA ReceivesInv ==
    ASSUME RecoveryInv, NEW p \in Receivers, Receives(p)
    PROVE  RecoveryInv'
<1>1. RecoveryTypeOK' /\ Progress(p)
  BY MarkKeeps, ClearPartialKeeps, CheckKeeps, CreatePartialKeeps, CopyKeeps, CopyFailsKeeps,
     LinkKeeps, UnlinkPartialKeeps, OnwardKeeps, ImportKeyKeeps, CheckKeyKeeps, VerifyKeeps,
     UnmarkKeeps, DoneKeeps, GivesUpKeeps, UndoKeeps DEF Receives
<1> QED BY <1>1, ProgressKeeps

LEMMA RecoveryStutters ==
    ASSUME RecoveryInv, UNCHANGED recoveryVars
    PROVE  RecoveryInv'
BY DEF recoveryVars, RecoveryInv, RecoveryTypeOK, Item

LEMMA RecoveryStepInv ==
    ASSUME RecoveryInv, RecoveryStep
    PROVE  RecoveryInv'
<1>1. CASE ListVersions
  BY <1>1, RecoveryStutters DEF ListVersions
<1>2. CASE AppOpens
  <2>1. "app" \in Receivers /\ issued' \in Nat
    BY <1>2 DEF AppOpens, Receivers, RecoveryInv, RecoveryTypeOK
  <2> QED BY <1>2, <2>1, OpensFacts, ProgressKeeps DEF AppOpens
<1>3. CASE CliOpens
  <2>1. "cli" \in Receivers /\ issued' \in Nat
    BY <1>3 DEF CliOpens, Receivers, RecoveryInv, RecoveryTypeOK
  <2> QED BY <1>3, <2>1, OpensFacts, ProgressKeeps DEF CliOpens
<1>4. CASE CliDies
  BY <1>4, DiesFacts, ProgressKeeps DEF CliDies, Receivers
<1> QED BY <1>1, <1>2, <1>3, <1>4, ReceivesInv DEF RecoveryStep

LEMMA AppDiesInv ==
    ASSUME RecoveryInv, Reopens, Dies("app")
    PROVE  RecoveryInv' /\ AppReceives'
<1>1. RecoveryInv' /\ receiver'["app"] = Away
  BY DiesFacts, ProgressKeeps DEF Receivers
<1>2. doing'.pc = "none"
  BY DEF Reopens, Reopened, Resting
<1> QED BY <1>1, <1>2 DEF AppReceives

\* The app's receiver works only while the app is in its step.
LEMMA ReceiverTurns ==
    ASSUME RecoveryInv, AppReceives, NEW p \in Receivers, Receives(p)
    PROVE  AppReceives'
<1>1. Receiving(p)
  BY MarkKeeps, ClearPartialKeeps, CheckKeeps, CreatePartialKeeps, CopyKeeps, CopyFailsKeeps,
     LinkKeeps, UnlinkPartialKeeps, OnwardKeeps, ImportKeyKeeps, CheckKeyKeeps, VerifyKeeps,
     UnmarkKeeps, DoneKeeps, GivesUpKeeps, UndoKeeps DEF Receives
<1> QED BY <1>1 DEF Receiving, AppReceives, Resting, Receivers

LEMMA ReceiverStays ==
    ASSUME RecoveryInv, AppReceives, RecoveryStep
    PROVE  AppReceives'
<1>1. "app" \in Receivers /\ "cli" \in Receivers /\ "app" # "cli"
  BY DEF Receivers
<1>2. CASE ListVersions
  BY <1>2 DEF ListVersions, recoveryVars, AppReceives
<1>3. CASE AppOpens
  <2>1. receiver'["app"] # Away
    BY <1>1, <1>3, OpensFacts DEF AppOpens, RecoveryInv, RecoveryTypeOK
  <2> QED BY <1>3, <2>1 DEF AppOpens, AppReceives
<1>4. CASE CliOpens
  <2>1. receiver'["app"] = receiver["app"] /\ UNCHANGED doing
    BY <1>1, <1>4, OpensFacts DEF CliOpens, RecoveryInv, RecoveryTypeOK, pairingVars
  <2> QED BY <2>1 DEF AppReceives
<1>5. CASE CliDies
  BY <1>1, <1>5, DiesFacts DEF CliDies, AppReceives, pairingVars
<1> QED BY <1>2, <1>3, <1>4, <1>5, ReceiverTurns DEF RecoveryStep

\* At the start nothing is recovered.
LEMMA RecoveryInitInv == RecoveryInit => RecoveryInv
<1> SUFFICES ASSUME RecoveryInit PROVE RecoveryInv
  OBVIOUS
<1>1. Away \in Receptions /\ "none" \in Contents
  BY DEF Away, Receptions, Contents
<1>2. RecoveryTypeOK
  BY <1>1 DEF RecoveryInit, RecoveryTypeOK
<1>3. /\ final[Latest] = "none"
      /\ \A p \in Receivers : receiver[p] = Away /\ Item(p) # Latest
  BY DEF RecoveryInit, Items, Latest, Item, Away
<1> QED BY <1>2, <1>3 DEF RecoveryInv

\* Pairing neither begins nor ends the app's recovery step.
LEMMA PairingKeepsFolder ==
    ASSUME PairingInv, AppReceives, PairingStep, UNCHANGED receiver
    PROVE  AppReceives'
<1>1. doing.pc = "folder" <=> doing'.pc = "folder"
  <2>1. doing \in Works
    BY DEF PairingInv, PairingTypeOK
  <2>2. CASE \E f \in Flows : SendCode(f) \/ Resolve(f) \/ Reauthorize(f)
    <3>1. PICK f \in Flows : SendCode(f) \/ Resolve(f) \/ Reauthorize(f)
      BY <2>2
    <3>2. doing.pc = "none" /\ (UNCHANGED doing \/ doing' = [flow |-> f, pc |-> "ask"])
      BY <3>1 DEF SendCode, Resolve, Reauthorize, Free
    <3> QED BY <3>2
  <2>3. CASE ListVaults \/ PairSetup \/ PairRecovery \/ RetrySave \/ ClaimIsLost
    BY <2>3 DEF ListVaults, PairSetup, PairRecovery, RetrySave, ClaimIsLost, Free
  <2>4. CASE CreateOnce \/ Save \/ SyncDevice \/ ResolveFirst \/ SendClaim
    BY <2>1, <2>4 DEF CreateOnce, Save, SyncDevice, ResolveFirst, SendClaim, Works
  <2>5. CASE ClaimArrives
    BY <2>1, <2>5 DEF ClaimArrives, Awaited, Resting, Works
  <2>6. CASE AcceptSetup \/ SyncIdentity \/ AcceptRecovery \/ Asked \/ StepFails
    BY <2>1, <2>6 DEF AcceptSetup, SyncIdentity, AcceptRecovery, Asked, StepFails, Resting,
       Works
  <2> QED BY <2>2, <2>3, <2>4, <2>5, <2>6 DEF PairingStep
<1> QED BY <1>1 DEF AppReceives

\* A folder that names a version as its latest holds all of it, and its key is on
\* this Mac, whatever two receivers and the death of either did
\* (vault_hosted_disaster_recovery.py).
THEOREM RecoveryIsWhole == RecoverySpec => []RecoveredIsWhole
<1>1. PairingInit /\ RecoveryInit => RecoveryInv
  BY RecoveryInitInv
<1>2. ASSUME RecoveryInv,
             [\/ RecoveryStep \/ AppDies
              \/ PairingStep /\ UNCHANGED recoveryVars]_<<pairingVars, recoveryVars>>
      PROVE  RecoveryInv'
  BY <1>2, RecoveryStepInv, AppDiesInv, RecoveryStutters DEF AppDies, recoveryVars
<1>3. RecoveryInv => RecoveredIsWhole
  BY DEF RecoveryInv, RecoveredIsWhole
<1> QED BY <1>1, <1>2, <1>3, PTL DEF RecoverySpec

-----------------------------------------------------------------------------
\* The app: all of it at once.

HostedInv == PairingInv /\ SetupInv /\ RecoveryInv /\ AppReceives
BelowInv  == BackupInv /\ RotationInv /\ ScheduleInv

\* A step of the schedule, or a change of what the app does, keeps what is below it.
LEMMA BelowStays ==
    ASSUME BelowInv, \/ [Next]_vars
                     \/ /\ app' \in Apps
                        /\ UNCHANGED <<backupVars, deviceVars, scheduleVars, marker, build,
                                       kicks, setups, owed, budget>>
    PROVE  BelowInv'
<1>1. CASE [Next]_vars
  <2>1. [BackupNext]_backupVars /\ [RotationNext]_deviceVars
    BY <1>1, ScheduleBacksUp, ScheduleRotates DEF BelowInv, ScheduleInv
  <2> QED BY <1>1, <2>1, BackupStepInv, RotationStepInv, ScheduleStepInv DEF BelowInv
<1>2. CASE /\ app' \in Apps
           /\ UNCHANGED <<backupVars, deviceVars, scheduleVars, marker, build,
                          kicks, setups, owed, budget>>
  <2>1. BackupInv' /\ RotationInv'
    BY <1>2, BackupStepInv, RotationStepInv DEF BelowInv
  <2>2. /\ UNCHANGED <<config, plist, loaded, last, local, setup, marker, build, kicks,
                       setups, owed, budget, src, vault, snaps, run, step>>
    BY <1>2 DEF backupVars, deviceVars, scheduleVars
  <2>3. TypeOK'
    BY <1>2, <2>2 DEF BelowInv, ScheduleInv, TypeOK
  <2>4. ProgressInv' /\ ConfigInv'
    BY <2>2 DEF BelowInv, ScheduleInv, ProgressInv, ConfigInv
  <2>5. ReceiptsInv'
    BY <2>2 DEF BelowInv, ScheduleInv, ReceiptsInv, Stored
  <2>6. GuardInv'
    BY <2>2 DEF BelowInv, ScheduleInv, GuardInv, Guarded, Unlocked, LocalWorks, HostedWorks
  <2> QED BY <2>1, <2>3, <2>4, <2>5, <2>6 DEF BelowInv, ScheduleInv
<1> QED BY <1>1, <1>2

\* Every step of the app is one or the other.
LEMMA DashboardMoves ==
    ASSUME DashboardInv, [DashboardNext]_dashboardVars
    PROVE  \/ [Next]_vars
           \/ /\ app' \in Apps
              /\ UNCHANGED <<backupVars, deviceVars, scheduleVars, marker, build,
                             kicks, setups, owed, budget>>
<1>1. CASE Quit
  <2>1. app' \in Apps
    BY <1>1 DEF Quit, Apps, DashboardInv, ScheduleInv, TypeOK
  <2> QED BY <1>1, <2>1 DEF Quit
<1>2. CASE \/ Acknowledge \/ SlotStep \/ MigrationStep \/ HostedStep \/ IndexStep
           \/ UNCHANGED dashboardVars
  BY <1>2 DEF Acknowledge, SlotStep, MigrationStep, HostedStep, IndexStep, dashboardVars
<1>3. CASE ScheduleStep
  BY <1>3 DEF ScheduleStep, Next
<1>4. CASE StartBackup \/ GoesOn \/ BackupEnds \/ UpdateShutdown \/ Reopen \/ Crash
  BY <1>4 DEF StartBackup, GoesOn, BackupEnds, UpdateShutdown, Reopen, Crash, Next
<1> QED BY <1>1, <1>2, <1>3, <1>4 DEF DashboardNext

\* Nothing hosted is changed.
LEMMA HostedStutters ==
    ASSUME HostedInv, UNCHANGED hostedVars
    PROVE  HostedInv'
<1>1. UNCHANGED <<registry, durable, wizard, doing, minted, account, claims, drawn, keyfile,
                  keychain, protected, upload, review, shown, folder, final, partial, twin,
                  receiver, imported, issued>>
  BY DEF hostedVars, pairingVars, setupFlowVars, recoveryVars
<1>2. PairingInv'
  BY <1>1 DEF HostedInv, PairingInv, PairingTypeOK, DeviceInv
<1>3. SetupInv'
  BY <1>1 DEF HostedInv, SetupInv, SetupTypeOK, RecordInv, ConnectionInv, KeyInv
<1>4. RecoveryInv' /\ AppReceives'
  BY <1>1 DEF HostedInv, RecoveryInv, RecoveryTypeOK, Item, AppReceives
<1> QED BY <1>2, <1>3, <1>4 DEF HostedInv

\* What a wizard or a receiver does.
LEMMA HostedStepKeeps ==
    ASSUME HostedInv, HostedStep
    PROVE  HostedInv'
<1>1. PairingInv /\ SetupInv /\ RecoveryInv /\ RecoveryTypeOK /\ AppReceives
  BY DEF HostedInv, RecoveryInv
<1>2. CASE PairingStep /\ UNCHANGED <<setupFlowVars, recoveryVars>>
  BY <1>1, <1>2, PairingStepInv, PairingKeepsSetup, RecoveryStutters, PairingKeepsFolder
     DEF HostedInv, recoveryVars
<1>3. CASE SetupFlowNext /\ UNCHANGED recoveryVars
  <2>1. doing.pc = "folder" <=> doing'.pc = "folder"
    BY <1>1, <1>3, SetupFrame DEF SetupWorks
  <2>2. AppReceives'
    BY <1>1, <1>3, <2>1 DEF AppReceives, recoveryVars
  <2> QED BY <1>1, <1>3, <2>2, SetupStepInv, RecoveryStutters DEF HostedInv
<1>4. CASE RecoveryStep /\ UNCHANGED setupFlowVars
  BY <1>1, <1>4, RecoveryKeepsPairing, RecoveryKeepsSetup, RecoveryStepInv, ReceiverStays
     DEF HostedInv
<1> QED BY <1>2, <1>3, <1>4 DEF HostedStep

\* The app is opened again.
LEMMA ReopenKeeps ==
    ASSUME HostedInv, Reopen, receiver["app"] = Away
    PROVE  HostedInv'
<1>1. /\ Reopens /\ UNCHANGED recoveryVars
      /\ UNCHANGED <<drawn, keyfile, keychain, protected, upload, review>>
      /\ shown' \in [upload : Nat, review : Nat]
  BY DEF Reopen, Reopens, Reopened, NoneShown
<1>2. doing'.pc = "none" /\ UNCHANGED receiver
  BY DEF Reopen, Reopened, Resting, recoveryVars
<1>3. AppReceives'
  BY <1>2 DEF AppReceives
<1> QED BY <1>1, <1>3, ReopensInv, ReopensKeepsSetup, RecoveryStutters DEF HostedInv

LEMMA CrashKeeps ==
    ASSUME HostedInv, Crash
    PROVE  HostedInv' /\ receiver'["app"] = Away /\ doing'.pc = "none"
<1>1. /\ Reopens /\ shown' \in [upload : Nat, review : Nat] /\ doing'.pc = "none"
      /\ UNCHANGED <<drawn, keyfile, keychain, protected, upload, review>>
  BY DEF Crash, NoneShown, Reopens, Reopened, Resting
<1>2. /\ RecoveryTypeOK
      /\ final[Latest] # "none" => imported /\ \A i \in 1..3 : final[i] = "whole"
      /\ UNCHANGED <<folder, twin, imported, issued>>
      /\ final' = [i \in Items |-> IF final[i] \in Receivers THEN "torn" ELSE final[i]]
      /\ partial' = [i \in Items |-> IF partial[i] \in Receivers THEN "torn" ELSE partial[i]]
      /\ receiver' = [p \in Receivers |-> Away]
  BY DEF Crash, HostedInv, RecoveryInv
<1>3. Away \in Receptions /\ "torn" \in Contents /\ "app" \in Receivers /\ Away.item = 0
  BY DEF Receptions, Contents, Receivers, Away
<1>4. RecoveryTypeOK'
  BY <1>2, <1>3 DEF RecoveryTypeOK
<1>5. RecoveryInv'
  BY <1>2, <1>3, <1>4 DEF RecoveryInv, Item, Latest, Items, Receivers
<1>6. AppReceives' /\ receiver'["app"] = Away
  BY <1>1, <1>2, <1>3 DEF AppReceives
<1> QED BY <1>1, <1>5, <1>6, ReopensInv, ReopensKeepsSetup DEF HostedInv

\* Every step of the app keeps what is hosted, and the index.
LEMMA HostedStays ==
    ASSUME DashboardInv, [DashboardNext]_dashboardVars
    PROVE  HostedInv'
<1>1. HostedInv
  BY DEF DashboardInv, HostedInv
<1>2. CASE Reopen
  <2>1. receiver["app"] = Away
    BY <1>2 DEF Reopen, ResumeApp, DashboardInv, NothingIsInterrupted
  <2> QED BY <1>1, <1>2, <2>1, ReopenKeeps
<1>3. CASE UNCHANGED hostedVars
  BY <1>1, <1>3, HostedStutters
<1>4. CASE \/ StartBackup \/ GoesOn \/ BackupEnds \/ Acknowledge \/ SlotStep \/ MigrationStep
           \/ IndexStep \/ ScheduleStep \/ UpdateShutdown \/ Quit \/ UNCHANGED dashboardVars
  BY <1>3, <1>4 DEF StartBackup, GoesOn, BackupEnds, Acknowledge, SlotStep, MigrationStep,
     IndexStep, ScheduleStep, UpdateShutdown, Quit, Beneath, dashboardVars
<1> QED BY <1>1, <1>2, <1>4, HostedStepKeeps, CrashKeeps DEF DashboardNext

LEMMA IndexStays ==
    ASSUME IndexInv, [DashboardNext]_dashboardVars
    PROVE  IndexInv'
<1>1. CASE IndexStep
  BY <1>1, IndexStepInv DEF IndexStep
<1>2. CASE Crash
  <2>1. /\ refresh' = Rest /\ query' = Quiet /\ UNCHANGED <<doc, base, index, changes>>
    BY <1>2 DEF Crash
  <2>2. IndexTypeOK'
    BY <2>1, IndexConstants DEF IndexInv, IndexTypeOK
  <2>3. StampsTell'
    <3>1. /\ refresh'.at = NoRow /\ query'.stamp = 0
          /\ \A d \in Docs : query'.rows[d] = NoRow /\ query'.old.rows[d] = NoRow
      BY <2>1, IndexConstants DEF Rest, Quiet
    <3>2. changes \in Nat /\ 0 <= changes
      BY IndexConstants DEF IndexInv, IndexTypeOK
    <3>3. refresh'.at.stamp = 0
      BY <3>1, IndexConstants
    <3>4. \A d \in Docs : query'.rows[d].stamp = 0 /\ query'.old.rows[d].stamp = 0
      BY <3>1, IndexConstants
    <3> QED BY <2>1, <3>1, <3>2, <3>3, <3>4 DEF IndexInv, StampsTell, OfItsStamp
  <2>4. RefreshTells'
    BY <2>1 DEF RefreshTells, Rest
  <2>5. SearchTells' /\ SearchMissesNothing'
    BY <2>1 DEF SearchTells, SearchMissesNothing, Quiet
  <2> QED BY <2>2, <2>3, <2>4, <2>5 DEF IndexInv
<1>3. ASSUME UNCHANGED indexVars PROVE IndexInv'
  BY <1>3, IndexStepInv
<1>4. CASE \/ StartBackup \/ GoesOn \/ BackupEnds \/ Acknowledge \/ SlotStep \/ MigrationStep
           \/ HostedStep \/ ScheduleStep \/ UpdateShutdown \/ Quit \/ Reopen
           \/ UNCHANGED dashboardVars
  BY <1>3, <1>4 DEF StartBackup, GoesOn, BackupEnds, Acknowledge, SlotStep, MigrationStep,
     HostedStep, ScheduleStep, UpdateShutdown, Quit, Reopen, Beneath, dashboardVars
<1> QED BY <1>1, <1>2, <1>4 DEF DashboardNext

\* A run by the person is begun, goes on and ends by nothing but the app.
LEMMA RunFacts ==
    ASSUME BackupInv, ScheduleInv, ScheduleStep
    PROVE  /\ run'.by = Person <=> run.by = Person
           /\ run.by = Person => run'.vault = run.vault
<1>1. CASE CodexWrites
  BY <1>1, CodexFacts DEF CodexWrites
<1>2. CASE Call
  BY <1>2, PersonFacts DEF Call, Begin, NoRun
<1>3. CASE Returned
  BY <1>3, PersonFacts DEF Returned, Return
<1>4. CASE ReleaseRun
  BY <1>4, ReleaseFacts, PersonFacts
<1>5. CASE UNCHANGED backupVars
  BY <1>5 DEF backupVars
<1>6. CASE Fails \/ Unload \/ TurnOff \/ KickLocal
  BY <1>4, <1>5, <1>6 DEF Fails, Unload, TurnOff, KickLocal, Bootout, backupVars
<1>7. CASE \/ Wake \/ Skip \/ Defer \/ Enter \/ Receipt \/ WriteFailed \/ SetUp \/ WritePlist
           \/ PlistFails \/ Bootstrap \/ PutBack \/ Forget \/ Unlink \/ HostedDefers
           \/ HostedStarts \/ HostedGoesOn \/ HostedChanges \/ HostedChangesOn \/ HostedFails
           \/ Replace \/ Lapse \/ KickHosted
  BY <1>5, <1>7 DEF Wake, Skip, Defer, Enter, Receipt, WriteFailed, SetUp, WritePlist,
     PlistFails, Bootstrap, PutBack, Forget, Unlink, HostedDefers, HostedStarts, HostedGoesOn,
     HostedChanges, HostedChangesOn, HostedFails, Replace, Lapse, KickHosted
<1> QED BY <1>1, <1>2, <1>3, <1>6, <1>7 DEF ScheduleStep

\* The schedule ends the app only where the app is about to go.
LEMMA AppFacts ==
    ScheduleStep => UNCHANGED app \/ (app.does = "quitting" /\ app'.does = "closed")
BY DEF ScheduleStep, CodexWrites, Wake, Skip, Defer, Enter, Call, Returned, Receipt, Fails,
       WriteFailed, SetUp, WritePlist, PlistFails, Unload, Bootstrap, PutBack, TurnOff, Forget,
       Unlink, HostedDefers, HostedStarts, HostedGoesOn, HostedChanges, HostedChangesOn,
       HostedFails, Replace, Lapse, KickLocal, KickHosted, guardVars

\* A backup makes no other key than its vault's, and the scheduled one none.
LEMMA MadeFacts ==
    ASSUME BackupInv, ScheduleInv, GoesOn
    PROVE  /\ run'.by = run.by /\ run'.vault = run.vault
           /\ Made \subseteq {run.vault} /\ (Made # {} => run.by = Person)
<1>1. BackupStep
  BY DEF GoesOn, BackupGoesOn
<1>2. /\ vault \in [Vaults -> [made : BOOLEAN, refs : SUBSET (1..MaxSnapshots),
                               latest : 0..MaxSnapshots]]
      /\ run.vault \in Vaults /\ run.by \in Callers \cup {NoOne}
      /\ run.by = NoOne => run.phase = "idle"
  BY DEF BackupInv, BackupTypeOK
<1>3. Made # {} => Prepare
  BY <1>1, <1>2 DEF Made, BackupStep, Enumerate, Prepare, Scan, Store, Settle, Retry, Paginate,
     List, Recheck, Seal, PublishReference, PublishLatest
<1>4. CASE Prepare
  <2>1. Made \subseteq {run.vault} /\ (Made # {} => ~vault[run.vault].made)
    BY <1>2, <1>4 DEF Prepare, Made
  <2>2. run.by # NoOne /\ (run.by = Agent => vault[run.vault].made)
    BY <1>2, <1>4 DEF Prepare, ScheduleInv, ProgressInv
  <2>3. Callers = {Agent, Person}
    BY ScheduleAssumption
  <2> QED BY <1>1, <1>2, <2>1, <2>2, <2>3, StepFacts
<1> QED BY <1>1, <1>3, <1>4, StepFacts

\* What the app has begun.
Busy == \/ VaultAlive \/ RestoreAlive \/ worker # {} \/ refresh.pc # "none"
        \/ engine = "working"

LEMMA IdleIsQuiet ==
    ASSUME HostedInv, Idle
    PROVE  ~Busy /\ receiver["app"] = Away /\ display = {}
BY DEF Idle, Busy, RestoreAlive, HostedInv, AppReceives

LEMMA ClosedIsQuiet ==
    ASSUME DashboardInv, app.does # "open"
    PROVE  ~Busy /\ unsaved = {} /\ doing.pc = "none"
<1>1. app.does \in {"quitting", "closed"}
  BY DEF DashboardInv, ScheduleInv, TypeOK, Apps
<1> QED BY <1>1 DEF DashboardInv, NothingIsInterrupted, KeyStaysInView, Busy, RestoreAlive

\* An app that is not open begins nothing and ends nothing.
LEMMA QuietStays ==
    ASSUME DashboardInv, HostedInv', [DashboardNext]_dashboardVars, app'.does # "open"
    PROVE  ~Busy' /\ receiver'["app"] = Away
<1>1. HostedInv /\ BackupInv /\ ScheduleInv
  BY DEF DashboardInv, HostedInv
<1>2. ASSUME app.does # "open"
      PROVE  ~Busy /\ receiver["app"] = Away /\ doing.pc = "none" /\ ~Serves
  BY <1>1, <1>2, ClosedIsQuiet DEF Serves, HostedInv, AppReceives
<1>3. CASE StartBackup \/ Acknowledge
  BY <1>3 DEF StartBackup, BackUp, Acknowledge, vars, guardVars, Serves
<1>4. CASE GoesOn
  BY <1>1, <1>2, <1>4, MadeFacts DEF GoesOn, BackupGoesOn, guardVars, Busy, VaultAlive,
     RestoreAlive, hostedVars, pairingVars, recoveryVars, indexVars, slotVars
<1>5. CASE BackupEnds
  BY <1>2, <1>5 DEF BackupEnds, PersonEnds, guardVars, Busy, VaultAlive
<1>6. CASE SlotStep
  BY <1>2, <1>6 DEF SlotStep, StartRestore, StartInstall, StartInstallRecovery, StartBrowse,
     StartThreadInstall, WorkerEnds, Admits, vars, guardVars, backupVars, hostedVars,
     pairingVars, recoveryVars, indexVars, Busy, VaultAlive, RestoreAlive
<1>7. CASE MigrationStep
  BY <1>2, <1>7 DEF MigrationStep, ConfigureMigration, Migrate, Migrated, vars, guardVars,
     backupVars, hostedVars, pairingVars, recoveryVars, indexVars, Busy, VaultAlive,
     RestoreAlive
<1>8. CASE HostedStep
  <2>1. UNCHANGED <<app, run, worker, engine, refresh>>
    BY <1>8 DEF HostedStep, vars, guardVars, backupVars, indexVars, slotVars
  <2>2. ~Serves /\ doing.pc = "none" /\ ~Busy
    BY <1>2, <2>1
  <2>3. doing' = doing
    BY <1>8, <2>2 DEF HostedStep, Begins
  <2> QED BY <2>1, <2>2, <2>3 DEF Busy, VaultAlive, RestoreAlive, HostedInv, AppReceives
<1>9. CASE IndexStep
  <2>1. UNCHANGED <<app, run, worker, engine, doing, receiver>>
    BY <1>9 DEF IndexStep, vars, guardVars, backupVars, hostedVars, pairingVars,
       recoveryVars, slotVars
  <2>2. ~Serves /\ refresh.pc = "none" /\ ~Busy /\ receiver["app"] = Away
    BY <1>2, <2>1 DEF Busy
  <2>3. refresh' = refresh
    BY <1>9, <2>2 DEF IndexStep
  <2> QED BY <2>1, <2>2, <2>3 DEF Busy, VaultAlive, RestoreAlive
<1>10. CASE ScheduleStep
  <2>1. app.does # "open"
    BY <1>10, AppFacts
  <2>2. /\ run'.by = Person <=> run.by = Person
        /\ UNCHANGED <<doing, receiver, worker, engine, refresh>>
    BY <1>1, <1>10, RunFacts DEF ScheduleStep, Beneath, hostedVars, pairingVars,
       recoveryVars, slotVars, indexVars
  <2> QED BY <1>2, <2>1, <2>2 DEF Busy, VaultAlive, RestoreAlive
<1>11. CASE UpdateShutdown \/ Quit
  <2>1. Idle /\ UNCHANGED <<run, doing, receiver, worker, engine, refresh>>
    BY <1>11 DEF UpdateShutdown, Quit, PrepareUpdate, Beneath, backupVars, hostedVars,
       pairingVars, recoveryVars, slotVars, indexVars
  <2> QED BY <1>1, <2>1, IdleIsQuiet DEF Busy, VaultAlive, RestoreAlive
<1>12. CASE Reopen
  BY <1>12 DEF Reopen, ResumeApp, DashboardInv, ScheduleInv, TypeOK, Apps
<1>13. CASE Crash
  <2>1. /\ doing'.pc = "none" /\ receiver'["app"] = Away
    BY <1>1, <1>13, CrashKeeps
  <2>2. run'.by # Person
    BY <1>13, PersonFacts DEF Crash, Restart, Stop, backupVars
  <2> QED BY <1>13, <2>1, <2>2 DEF Crash, Busy, VaultAlive, RestoreAlive, Rest
<1>14. CASE UNCHANGED dashboardVars
  BY <1>2, <1>14 DEF dashboardVars, vars, guardVars, backupVars, hostedVars, pairingVars,
     recoveryVars, slotVars, indexVars, Busy, VaultAlive, RestoreAlive
<1> QED BY <1>3, <1>4, <1>5, <1>6, <1>7, <1>8, <1>9, <1>10, <1>11, <1>12, <1>13, <1>14
    DEF DashboardNext

\* No step of the app leaves what is under way behind.
LEMMA NothingInterrupted ==
    ASSUME DashboardInv, BelowInv', HostedInv', [DashboardNext]_dashboardVars
    PROVE  NothingIsInterrupted'
<1>1. Guarded' => Unlocked' /\ run'.by # Agent
  BY DEF BelowInv, ScheduleInv, GuardInv, ProgressInv, Unlocked, LocalWorks
<1>2. app'.does \in {"quitting", "closed"} => ~Busy' /\ receiver'["app"] = Away
  BY QuietStays
<1> QED BY <1>1, <1>2 DEF NothingIsInterrupted, Busy

\* No step of the app takes a key out of view that is not stored.
LEMMA KeyStays ==
    ASSUME DashboardInv, [DashboardNext]_dashboardVars
    PROVE  KeyStaysInView' /\ OneKey'
<1>1. /\ BackupInv /\ ScheduleInv /\ KeyStaysInView /\ OneKey
      /\ app.does # "open" => unsaved = {} /\ ~VaultAlive
  BY ClosedIsQuiet DEF DashboardInv, Busy
<1>2. CASE StartBackup
  <2>1. unsaved = {}
    BY <1>1, <1>2, PersonFacts DEF StartBackup, BackUp, Begin, KeyStaysInView, VaultAlive
  <2> QED BY <1>2, <2>1 DEF StartBackup, KeyStaysInView, OneKey
<1>3. CASE GoesOn
  <2>1. /\ run'.by = run.by /\ run'.vault = run.vault
        /\ Made \subseteq {run.vault} /\ (Made # {} => run.by = Person)
        /\ unsaved' = unsaved \cup Made /\ UNCHANGED <<display, app>>
    BY <1>1, <1>3, MadeFacts DEF GoesOn, BackupGoesOn, guardVars
  <2> QED BY <1>1, <2>1 DEF KeyStaysInView, OneKey, VaultAlive
<1>4. CASE BackupEnds
  <2>1. /\ run.by = Person /\ run'.by # Person /\ UNCHANGED app
    BY <1>4, PersonFacts DEF BackupEnds, PersonEnds, Return, Stop, guardVars
  <2>2. app.does = "open" /\ unsaved \subseteq {run.vault}
    BY <1>1, <2>1 DEF OneKey, VaultAlive
  <2>3. \/ display' = unsaved /\ UNCHANGED unsaved
        \/ display' = {run.vault} /\ UNCHANGED unsaved
        \/ unsaved' = {}
    BY <1>4 DEF BackupEnds
  <2> QED BY <2>1, <2>2, <2>3 DEF KeyStaysInView, OneKey, VaultAlive
<1>5. CASE Acknowledge \/ Crash
  BY <1>5 DEF Acknowledge, Crash, KeyStaysInView, OneKey
<1>6. CASE SlotStep \/ MigrationStep \/ HostedStep \/ IndexStep \/ UNCHANGED dashboardVars
  <2>1. UNCHANGED <<display, unsaved, run, app>>
    BY <1>6 DEF SlotStep, MigrationStep, HostedStep, IndexStep, dashboardVars, keyVars,
       vars, guardVars, backupVars
  <2> QED BY <1>1, <2>1 DEF KeyStaysInView, OneKey, VaultAlive
<1>7. CASE ScheduleStep
  <2>1. UNCHANGED <<display, unsaved>>
    BY <1>7 DEF ScheduleStep, Beneath, keyVars
  <2>2. /\ run'.by = Person <=> run.by = Person
        /\ run.by = Person => run'.vault = run.vault
    BY <1>1, <1>7, RunFacts
  <2>3. app'.does # app.does => app.does # "open"
    BY <1>7, AppFacts
  <2> QED BY <1>1, <2>1, <2>2, <2>3 DEF KeyStaysInView, OneKey, VaultAlive
<1>8. CASE UpdateShutdown \/ Quit \/ Reopen
  <2>1. /\ unsaved' = unsaved
        /\ Idle \/ app.does # "open"
    BY <1>8 DEF UpdateShutdown, Quit, Reopen, ResumeApp, Beneath, keyVars
  <2>2. unsaved = {}
    BY <1>1, <2>1 DEF Idle, KeyStaysInView
  <2> QED BY <2>1, <2>2 DEF KeyStaysInView, OneKey
<1> QED BY <1>2, <1>3, <1>4, <1>5, <1>6, <1>7, <1>8 DEF DashboardNext

\* Every step of the app is typed.
LEMMA TypeStays ==
    ASSUME DashboardInv, [DashboardNext]_dashboardVars
    PROVE  DashboardTypeOK'
<1>1. run.vault \in Vaults /\ DashboardTypeOK
  BY DEF DashboardInv, BackupInv, BackupTypeOK
<1>2. CASE StartBackup \/ GoesOn \/ BackupEnds \/ Acknowledge
  BY <1>1, <1>2 DEF StartBackup, GoesOn, BackupEnds, Acknowledge, Made, DashboardTypeOK,
     slotVars
<1>3. CASE SlotStep
  BY <1>1, <1>3 DEF SlotStep, StartRestore, StartInstall, StartInstallRecovery, StartBrowse,
     StartThreadInstall, WorkerEnds, DashboardTypeOK, keyVars, Slots
<1>4. CASE MigrationStep
  BY <1>1, <1>4 DEF MigrationStep, ConfigureMigration, Migrate, Migrated, DashboardTypeOK,
     keyVars
<1>5. CASE \/ HostedStep \/ IndexStep \/ ScheduleStep \/ UpdateShutdown \/ Quit
           \/ UNCHANGED dashboardVars
  BY <1>1, <1>5 DEF HostedStep, IndexStep, ScheduleStep, UpdateShutdown, Quit, Beneath,
     dashboardVars, slotVars, keyVars, DashboardTypeOK
<1>6. CASE Reopen \/ Crash
  BY <1>1, <1>6 DEF Reopen, Crash, DashboardTypeOK
<1> QED BY <1>2, <1>3, <1>4, <1>5, <1>6 DEF DashboardNext

\* At the start the app is open and idle.
LEMMA DashboardInitInv == DashboardInit => DashboardInv
<1> SUFFICES ASSUME DashboardInit PROVE DashboardInv
  OBVIOUS
<1>1. BackupInv /\ RotationInv /\ ScheduleInv
  BY InvariantOfAll DEF DashboardInit
<1>2. PairingInv /\ SetupInv /\ RecoveryInv /\ IndexInv
  BY PairingInitInv, SetupInitInv, RecoveryInitInv, IndexInitInv DEF DashboardInit
<1>3. /\ doing.pc = "none" /\ receiver["app"] = Away
  BY DEF DashboardInit, PairingInit, RecoveryInit, Resting, Receivers
<1>4. AppReceives
  BY <1>3 DEF AppReceives
<1>5. DashboardTypeOK /\ KeyStaysInView
  BY DEF DashboardInit, PlansInit, DashboardTypeOK, KeyStaysInView
<1>6. ~Guarded /\ app.does = "open" /\ unsaved = {}
  BY DEF DashboardInit, Init, PlansInit, Guarded, NoGuard
<1>7. NothingIsInterrupted /\ OneKey
  BY <1>6 DEF NothingIsInterrupted, OneKey
<1> QED BY <1>1, <1>2, <1>4, <1>5, <1>7 DEF DashboardInv

\* The invariant of the app is inductive.
LEMMA DashboardStepInv == DashboardInv /\ [DashboardNext]_dashboardVars => DashboardInv'
<1> SUFFICES ASSUME DashboardInv, [DashboardNext]_dashboardVars PROVE DashboardInv'
  OBVIOUS
<1>1. BelowInv'
  BY DashboardMoves, BelowStays DEF DashboardInv, BelowInv
<1>2. HostedInv'
  BY HostedStays
<1>3. IndexInv'
  BY IndexStays DEF DashboardInv
<1> QED BY <1>1, <1>2, <1>3, TypeStays, NothingInterrupted, KeyStays
        DEF DashboardInv, BelowInv, HostedInv

\* Every state of the app satisfies the invariants of all its parts and its own.
THEOREM DashboardInvariance == DashboardSpec => []DashboardInv
BY DashboardInitInv, DashboardStepInv, PTL DEF DashboardSpec

\* Nothing that the app or launchd has begun is at work while a guard stands, or from
\* the request that closes the app until it is open again (setup.py, vault_schedule.py).
THEOREM NothingGetsInterrupted == DashboardSpec => []NothingIsInterrupted
<1>1. DashboardInv => NothingIsInterrupted
  BY DEF DashboardInv
<1> QED BY <1>1, DashboardInvariance, PTL

\* The recovery key of a vault that a backup from the app made is in view until the
\* person has saved it (setup.py).
THEOREM KeyIsInView == DashboardSpec => []KeyStaysInView
<1>1. DashboardInv => KeyStaysInView
  BY DEF DashboardInv
<1> QED BY <1>1, DashboardInvariance, PTL

\* What the backup, the schedule, the rotation, setup, recovery and the search
\* index promise alone they promise together, inside the app.
THEOREM AppKeepsItsPromises ==
    DashboardSpec => [](/\ SnapshotIsAMoment /\ LossStaysFlagged
                        /\ ReceiptIsStored /\ DeferralIsKept /\ DeviceIsUsable
                        /\ NothingOrphaned /\ RecoveredIsWhole /\ SearchMissesNothing)
<1>1. DashboardInv => /\ BackupInv /\ RotationInv /\ ScheduleInv
                      /\ PairingInv /\ SetupInv /\ RecoveryInv /\ IndexInv
  BY DEF DashboardInv
<1>2. BackupInv => SnapshotIsAMoment /\ LossStaysFlagged
  BY PublishedIsSealed DEF SnapshotIsAMoment, LossStaysFlagged, BackupInv, SealedInv
<1>3. BackupInv /\ ScheduleInv => ReceiptIsStored /\ DeferralIsKept
  BY InvMakesReceipts DEF ScheduleInv, GuardInv, DeferralIsKept, MaySkip
<1>4. RotationInv => DeviceIsUsable
  BY InvMakesUsable
<1>5. RecoveryInv => RecoveredIsWhole
  BY DEF RecoveryInv, RecoveredIsWhole
<1>6. IndexInv => SearchMissesNothing
  BY DEF IndexInv
<1> QED BY <1>1, <1>2, <1>3, <1>4, <1>5, <1>6, OrphansNothing, DashboardInvariance, PTL

\* The app implements the backup and the rotation: whatever it does, they do no
\* more than their own steps.
THEOREM DashboardImplements == DashboardSpec => BackupSpec /\ RotationSpec
<1>1. DashboardInit => BackupInit /\ RotationInit
  BY DEF DashboardInit, Init
<1>2. DashboardInv /\ [DashboardNext]_dashboardVars
        => [BackupNext]_backupVars /\ [RotationNext]_deviceVars
  <2> SUFFICES ASSUME DashboardInv, [DashboardNext]_dashboardVars
               PROVE  [BackupNext]_backupVars /\ [RotationNext]_deviceVars
    OBVIOUS
  <2>1. CASE [Next]_vars
    BY <2>1, ScheduleBacksUp, ScheduleRotates DEF DashboardInv, ScheduleInv
  <2>2. CASE UNCHANGED <<backupVars, deviceVars>>
    BY <2>2
  <2> QED BY <2>1, <2>2, DashboardMoves
<1> QED BY <1>1, <1>2, DashboardInvariance, PTL DEF DashboardSpec, BackupSpec, RotationSpec

=============================================================================
