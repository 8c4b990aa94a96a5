--------------------------- MODULE SqliteFtsProofs ---------------------------
(***************************************************************************)
(* The SQLite store's full-text index and the times of its messages, for   *)
(* any messages and terms, and with no bound but MaxRowid on the rowids.   *)
(*                                                                         *)
(* The times first, in the columns of both backends: the two roads of a ts *)
(* lead to nanoseconds in the order of the messages.  The arithmetic that  *)
(* shows it is that of the nearest double (FloatNear) and of its fraction  *)
(* cut to nanoseconds (ParseNear); the texts of SQLite are then compared   *)
(* place by place (PlaceStep).  Then the index: each trigger replaces the  *)
(* entries of one row by those of its new text (Replaced), so that the     *)
(* index is always the terms of the stored rows.                           *)
(***************************************************************************)
EXTENDS SqliteFts, TLAPS

\* The double nearest to a ts: twice the error is less than one unit.
LEMMA FloatNear ==
    ASSUME NEW u \in Nat
    PROVE  /\ Float(u) \in Nat
           /\ 15625 * Float(u) <= 65536 * u + 7812
           /\ 15625 * Float(u) >= 65536 * u - 7812
<1> DEFINE a == u \div 15625
           b == u % 15625
           r == (65536 * b + 7812) \div 15625
<1>1. a \in Nat /\ b \in Nat /\ b < 15625 /\ u = 15625 * a + b
  BY SMT
<1>2. /\ r \in Nat
      /\ 15625 * r <= 65536 * b + 7812
      /\ 65536 * b + 7812 < 15625 * r + 15625
  BY <1>1, SMT
<1>3. Float(u) = 65536 * a + r
  BY SMT DEF Float
<1> HIDE DEF a, b, r
<1>4. QED
  BY <1>1, <1>2, <1>3, SMT

\* Cut to nanoseconds, the fraction of that double.
LEMMA ParseNear ==
    ASSUME NEW u \in Nat
    PROVE  /\ parseTS(u) \in Nat
           /\ 1000 * u - 120 <= parseTS(u)
           /\ parseTS(u) <= 1000 * u + 119
<1> DEFINE k == Float(u)
           c == k \div 8192
           d == k % 8192
           e == (3429 * d) \div 8192
<1>1. k \in Nat /\ 15625 * k <= 65536 * u + 7812 /\ 15625 * k >= 65536 * u - 7812
  BY FloatNear, SMT
<1> HIDE DEF k
<1>2. c \in Nat /\ d \in Nat /\ d < 8192 /\ k = 8192 * c + d
  BY <1>1, SMT
<1>3. e \in Nat /\ 8192 * e <= 3429 * d /\ 3429 * d < 8192 * e + 8192
  BY <1>2, SMT
<1>4. parseTS(u) = 1953125 * c + 238 * d + e
  BY SMT DEF parseTS, k
<1> HIDE DEF c, d, e
<1>5. /\ 8192 * parseTS(u) <= 1953125 * k
      /\ 8192 * parseTS(u) > 1953125 * k - 8192
      /\ parseTS(u) \in Nat
  BY <1>2, <1>3, <1>4, SMT
<1>6. QED
  BY <1>1, <1>5, SMT

\* Every time came by one of the two roads.
Roads(u) == {tsToTime(u), parseTS(u)}

TimesInv == /\ posted_at = [u \in Messages |-> posted_at[u]]
            /\ \A u \in Messages : posted_at[u] \in {NoTime} \cup Roads(u)

\* Either process writes a time of its own road, a delete leaves none.
LEMMA TimesStep == TimesInv /\ [TimeNext]_posted_at => TimesInv'
  BY SMT DEF TimesInv, TimeNext, ServeWrites, BackfillWrites, Delete, Roads

\* So it is whatever the two processes do.
LEMMA TimesInvariant == TimeSpec => []TimesInv
<1>1. TimeInit => TimesInv
  BY SMT DEF TimeInit, TimesInv
<1>2. QED
  BY <1>1, TimesStep, PTL DEF TimeSpec

\* Either road ends next to its ts, and within its second.
LEMMA RoadNear ==
    ASSUME NEW u \in Nat, NEW n \in Roads(u)
    PROVE  /\ n \in Nat /\ 1000 * u - 120 <= n /\ n <= 1000 * u + 119
           /\ u < 1000000 => n < Second
  BY ParseNear, SMT DEF Roads, tsToTime, Second

\* Cut to microseconds, it is the ts or one microsecond less.
LEMMA RoadCut ==
    ASSUME NEW u \in Nat, NEW n \in Roads(u)
    PROVE  timestamptz(n) \in {1000 * u - 1000, 1000 * u}
<1> DEFINE q == n \div 1000
<1>1. n \in Nat /\ 1000 * u - 120 <= n /\ n <= 1000 * u + 119
  BY RoadNear
<1>2. q \in Int /\ 1000 * q <= n /\ n < 1000 * q + 1000
  BY <1>1, SMT
<1>3. timestamptz(n) = 1000 * q
  BY SMT DEF timestamptz
<1> HIDE DEF q
<1>4. q = u - 1 \/ q = u
  BY <1>1, <1>2, SMT
<1> QED BY <1>3, <1>4, SMT

\* What is known of a row that has a time.
LEMMA TimeOfRow ==
    ASSUME TimesInv, NEW u \in Messages, HasTime(u)
    PROVE  u \in Nat /\ u < 1000000 /\ posted_at[u] \in Roads(u)
  BY SMT, TimestampsAssumption DEF TimesInv, HasTime

\* Whatever is written by whom, SQLite's time of a message is at most 120
\* nanoseconds off its ts, and that of Postgres at most a microsecond.
THEOREM TimesNear == TimeSpec => []WithinMicrosecond
<1>1. TimesInv => WithinMicrosecond
  <2> SUFFICES ASSUME TimesInv, NEW u \in Messages, HasTime(u)
               PROVE  /\ posted_at[u] \in (1000 * u - 120)..(1000 * u + 119)
                      /\ timestamptz(posted_at[u]) \in {1000 * u - 1000, 1000 * u}
    BY DEF WithinMicrosecond
  <2>1. u \in Nat /\ posted_at[u] \in Roads(u)
    BY TimeOfRow
  <2>2. QED
    BY <2>1, RoadNear, RoadCut
<1>2. QED
  BY <1>1, TimesInvariant, PTL
-----------------------------------------------------------------------------
\* Of two times with the same digits above a place, the texts differ there as
\* the times do, or one is cut short there, or the digits there are the same.
LEMMA PlaceStep ==
    ASSUME NEW a \in Nat, NEW b \in Nat, a < b, NEW p \in Places,
           a \div (10 * p) = b \div (10 * p)
    PROVE  \/ rfc(a)[p] < rfc(b)[p]
           \/ CutShort(a, b)
           \/ rfc(a)[p] = rfc(b)[p] /\ a \div p = b \div p
<1> DEFINE t == 10 * p
           h == a \div t
<1>1. t \in Nat /\ t > 0 /\ p \in Nat /\ p > 0
  BY DEF Places
<1>2. /\ rfc(a)[p] = IF a % t = 0 THEN 10 ELSE (a \div p) % 10
      /\ rfc(b)[p] = IF b % t = 0 THEN 10 ELSE (b \div p) % 10
  BY DEF rfc, Z
<1>3. CASE a % t = 0
  <2>1. a = b - (b % t)
    BY <1>1, <1>3 DEF Places
  <2> QED BY <2>1 DEF CutShort
<1>4. CASE a % t # 0
  <2>1. b % t # 0
    BY <1>1, <1>4 DEF Places
  <2>2. \/ (a \div p) % 10 < (b \div p) % 10
        \/ (a \div p) % 10 = (b \div p) % 10 /\ a \div p = b \div p
    BY <1>1 DEF Places
  <2> QED BY <1>2, <1>4, <2>1, <2>2
<1> QED BY <1>3, <1>4

(* Times whose texts agree down to a place, and so do their digits.        *)
AgreeTo(a, b, p) ==
    /\ a \div p = b \div p
    /\ \A q \in Places : q >= p => rfc(a)[q] = rfc(b)[q]

(* The next place to the right either tells them apart or agrees as well.  *)
LEMMA AgreeNext ==
    ASSUME NEW a \in Nat, NEW b \in Nat, a < b, NEW p \in Places,
           AgreeTo(a, b, 10 * p), ~CutShort(a, b), ~TextBefore(rfc(a), rfc(b))
    PROVE  AgreeTo(a, b, p)
<1>1. \A q \in Places : q > p => rfc(a)[q] = rfc(b)[q]
  BY DEF AgreeTo, Places
<1>2. ~(rfc(a)[p] < rfc(b)[p])
  BY <1>1 DEF TextBefore
<1>3. rfc(a)[p] = rfc(b)[p] /\ a \div p = b \div p
  BY <1>2, PlaceStep DEF AgreeTo
<1>4. \A q \in Places : q >= p => q = p \/ q > p
  BY DEF Places
<1> QED BY <1>1, <1>3, <1>4 DEF AgreeTo

\* SQLite sorts the texts of two times of a second like the times, unless the
\* earlier one is cut short: they cannot agree at all nine places.
LEMMA TextsOrdered ==
    ASSUME NEW a \in Nat, NEW b \in Nat, a < b, b < Second
    PROVE  TextBefore(rfc(a), rfc(b)) \/ CutShort(a, b)
<1> SUFFICES ASSUME ~CutShort(a, b), ~TextBefore(rfc(a), rfc(b))
             PROVE  FALSE
  OBVIOUS
<1>1. \A p \in Places, t \in Nat : t = 10 * p /\ AgreeTo(a, b, t) => AgreeTo(a, b, p)
  BY AgreeNext
<1>2. AgreeTo(a, b, 1000000000)
  BY DEF AgreeTo, Places, Second
<1>3. /\ 100000000 \in Places /\ 10000000 \in Places /\ 1000000 \in Places
      /\ 100000 \in Places /\ 10000 \in Places /\ 1000 \in Places
      /\ 100 \in Places /\ 10 \in Places /\ 1 \in Places
  BY DEF Places
<1>4. AgreeTo(a, b, 1000000)
  <2>1. AgreeTo(a, b, 100000000)
    BY <1>1, <1>2, <1>3
  <2>2. AgreeTo(a, b, 10000000)
    BY <1>1, <1>3, <2>1
  <2> QED BY <1>1, <1>3, <2>2
<1>5. AgreeTo(a, b, 1000)
  <2>1. AgreeTo(a, b, 100000)
    BY <1>1, <1>3, <1>4
  <2>2. AgreeTo(a, b, 10000)
    BY <1>1, <1>3, <2>1
  <2> QED BY <1>1, <1>3, <2>2
<1>6. AgreeTo(a, b, 1)
  <2>1. AgreeTo(a, b, 100)
    BY <1>1, <1>3, <1>5
  <2>2. AgreeTo(a, b, 10)
    BY <1>1, <1>3, <2>1
  <2> QED BY <1>1, <1>3, <2>2
<1> QED BY <1>6 DEF AgreeTo

\* Microseconds keep the order of nanoseconds that are most of one apart.
LEMMA CutOrdered ==
    ASSUME NEW u \in Nat, NEW v \in Nat, u < v,
           NEW m \in Roads(u), NEW n \in Roads(v)
    PROVE  \/ timestamptz(m) < timestamptz(n)
           \/ timestamptz(m) = timestamptz(n) /\ v = u + 1
<1>1. /\ timestamptz(m) \in {1000 * u - 1000, 1000 * u}
      /\ timestamptz(n) \in {1000 * v - 1000, 1000 * v}
  BY RoadCut
<1> QED BY <1>1, SMT

\* Whatever is written by whom, the times sort like the messages, up to the
\* microseconds of Postgres and the zeros that SQLite's texts leave out.
THEOREM TimesOrdered == TimeSpec => []OrderKept
<1>1. TimesInv => OrderKept
  <2> SUFFICES ASSUME TimesInv, NEW u \in Messages, NEW v \in Messages,
                      HasTime(u), HasTime(v), u < v
               PROVE  LET a == posted_at[u]
                          b == posted_at[v]
                      IN  /\ \/ timestamptz(a) < timestamptz(b)
                             \/ timestamptz(a) = timestamptz(b) /\ v = u + 1
                          /\ TextBefore(rfc(a), rfc(b)) \/ CutShort(a, b)
    BY Zenon DEF OrderKept
  <2> DEFINE a == posted_at[u]
             b == posted_at[v]
  <2>1. /\ u \in Nat /\ a \in Roads(u)
        /\ v \in Nat /\ b \in Roads(v) /\ v < 1000000
    BY TimeOfRow
  <2> HIDE DEF a, b
  <2>2. /\ a \in Nat /\ a <= 1000 * u + 119
        /\ b \in Nat /\ 1000 * v - 120 <= b /\ b < Second
    BY <2>1, RoadNear
  <2>3. a < b
    BY <2>1, <2>2
  <2>4. TextBefore(rfc(a), rfc(b)) \/ CutShort(a, b)
    BY <2>2, <2>3, TextsOrdered
  <2>5. \/ timestamptz(a) < timestamptz(b)
        \/ timestamptz(a) = timestamptz(b) /\ v = u + 1
    BY <2>1, CutOrdered
  <2> QED BY <2>4, <2>5 DEF a, b
<1>2. QED
  BY <1>1, TimesInvariant, PTL
-----------------------------------------------------------------------------
FtsInv == FtsTypeOK /\ IndexFollows

(* The state that an insert, an update and a delete leave, in one form: the *)
(* row of m is the only one that changes, and its entries replace its old.  *)
LEMMA Replaced ==
    ASSUME FtsInv, NEW m \in Messages, NEW new \in [rowid : Nat, text : Texts],
           new.rowid = 0 => new.text = {},
           \A n \in Stored \ {m} : rows[n].rowid # new.rowid,
           rows' = [rows EXCEPT ![m] = new],
           index' = (index \ Entries(rows[m].rowid, rows[m].text))
                       \cup Entries(new.rowid, new.text)
    PROVE  FtsInv'
<1>1. \A n \in Messages : rows'[n] = IF n = m THEN new ELSE rows[n]
  BY SMT DEF FtsInv, FtsTypeOK
<1>2. Stored' \ {m} = Stored \ {m}
  BY <1>1, SMT DEF Stored
<1>3. FtsTypeOK'
  <2>1. rows' \in [Messages -> [rowid : Nat, text : Texts]]
    BY SMT DEF FtsInv, FtsTypeOK
  <2>2. new.rowid # 0 => Entries(new.rowid, new.text) \subseteq Rowids \X Terms
    BY SMT DEF Entries, Texts, Rowids
  <2>3. new.rowid = 0 => Entries(new.rowid, new.text) = {}
    BY SMT DEF Entries
  <2> QED BY <2>1, <2>2, <2>3, SMT DEF FtsInv, FtsTypeOK
<1>4. \A a, b \in Stored' : rows'[a].rowid = rows'[b].rowid => a = b
  BY <1>1, <1>2, SMT DEF FtsInv, IndexFollows, Stored
<1>5. \A e : e \in index'
             <=> \E n \in Stored' : e \in Entries(rows'[n].rowid, rows'[n].text)
  <2> SUFFICES ASSUME NEW e
               PROVE  e \in index' <=> \E n \in Stored' :
                            e \in Entries(rows'[n].rowid, rows'[n].text)
    OBVIOUS
  <2>1. e \in index
          <=> \E n \in Stored : e \in Entries(rows[n].rowid, rows[n].text)
    BY SMT DEF FtsInv, IndexFollows
  <2>2. \A n \in Stored : n # m /\ e \in Entries(rows[n].rowid, rows[n].text)
             => e \notin Entries(rows[m].rowid, rows[m].text)
    BY SMT DEF FtsInv, IndexFollows, Entries, Stored
  <2>3. e \in Entries(new.rowid, new.text) => m \in Stored'
    BY <1>1, SMT DEF Entries, Stored
  <2>4. \A n \in Stored \ {m} :
            /\ n \in Stored'
            /\ rows'[n] = rows[n]
    BY <1>1, <1>2, SMT DEF Stored
  <2>5. rows'[m] = new
    BY <1>1, SMT
  <2>6. ASSUME e \in index'
        PROVE  \E n \in Stored' : e \in Entries(rows'[n].rowid, rows'[n].text)
    <3>1. CASE e \in Entries(new.rowid, new.text)
      BY <3>1, <2>3, <2>5, SMT
    <3>2. CASE e \notin Entries(new.rowid, new.text)
      <4>1. e \in index /\ e \notin Entries(rows[m].rowid, rows[m].text)
        BY <2>6, <3>2, SMT
      <4>2. PICK n \in Stored : e \in Entries(rows[n].rowid, rows[n].text)
        BY <4>1, <2>1, SMT
      <4> QED BY <4>1, <4>2, <2>4, SMT
    <3> QED BY <3>1, <3>2
  <2>7. ASSUME NEW n \in Stored', e \in Entries(rows'[n].rowid, rows'[n].text)
        PROVE  e \in index'
    <3>1. CASE n = m
      BY <3>1, <2>7, <2>5, SMT
    <3>2. CASE n # m
      <4>1. n \in Stored /\ rows'[n] = rows[n]
        BY <3>2, <1>2, <2>4, SMT
      <4> QED BY <4>1, <3>2, <2>7, <2>1, <2>2, SMT
    <3> QED BY <3>1, <3>2
  <2> QED BY <2>6, <2>7
<1>6. IndexFollows'
  BY <1>4, <1>5, SMT DEF IndexFollows
<1> QED BY <1>3, <1>6 DEF FtsInv

(* Each statement is one of these replacements.                            *)
LEMMA FtsStep == FtsInv /\ [FtsNext]_ftsVars => FtsInv'
<1> SUFFICES ASSUME FtsInv, [FtsNext]_ftsVars PROVE FtsInv'
  OBVIOUS
<1>1. ASSUME NEW m \in Messages, NEW text \in Texts, Insert(m, text)
      PROVE  FtsInv'
  <2>1. PICK r \in Rowids : /\ IsNewRowid(r)
                            /\ rows' = [rows EXCEPT ![m] = [rowid |-> r, text |-> text]]
                            /\ index' = messages_ai([rowid |-> r, text |-> text])
    BY <1>1, Zenon DEF Insert
  <2> DEFINE new == [rowid |-> r, text |-> text]
  <2>2. new \in [rowid : Nat, text : Texts] /\ new.rowid = r /\ new.text = text /\ r # 0
    BY SMT DEF Rowids
  <2>3. \A n \in Messages : rows[n].rowid # new.rowid
    BY <2>1, <2>2, SMT DEF IsNewRowid, FtsInv, FtsTypeOK, Rowids
  <2>4. \A e \in index : e \notin Entries(rows[m].rowid, rows[m].text)
    BY <1>1, SMT DEF Insert, Stored, FtsInv, FtsTypeOK, Entries, Rowids
  <2>5. index' = (index \ Entries(rows[m].rowid, rows[m].text))
                    \cup Entries(new.rowid, new.text)
    BY <2>1, <2>4, SMT DEF messages_ai
  <2>6. \A n \in Stored \ {m} : rows[n].rowid # new.rowid
    BY <2>3, SMT DEF Stored
  <2> HIDE DEF new
  <2>7. rows' = [rows EXCEPT ![m] = new]
    BY <2>1 DEF new
  <2>8. new.rowid = 0 => new.text = {}
    BY <2>2
  <2> QED BY <2>2, <2>5, <2>6, <2>7, <2>8, Replaced, Zenon
<1>2. ASSUME NEW m \in Messages, NEW text \in Texts, Update(m, text)
      PROVE  FtsInv'
  <2> DEFINE new == [rowid |-> rows[m].rowid, text |-> text]
  <2>1. rows[m] \in [rowid : Nat, text : Texts] /\ rows[m].rowid # 0 /\ m \in Stored
    BY <1>2, SMT DEF Update, Stored, FtsInv, FtsTypeOK
  <2>2. new \in [rowid : Nat, text : Texts]
        /\ new.rowid = rows[m].rowid /\ new.text = text
    BY <2>1, SMT
  <2>3. \A n \in Stored \ {m} : rows[n].rowid # new.rowid
    BY <2>1, <2>2, SMT DEF FtsInv, IndexFollows
  <2>4. index' = (index \ Entries(rows[m].rowid, rows[m].text))
                    \cup Entries(new.rowid, new.text)
    BY <1>2, SMT DEF Update, messages_au
  <2>5. rows' = [rows EXCEPT ![m] = new]
    BY <1>2, <2>1, SMT DEF Update, FtsInv, FtsTypeOK
  <2> HIDE DEF new
  <2>6. new.rowid = 0 => new.text = {}
    BY <2>1, <2>2, SMT
  <2> QED BY <2>2, <2>3, <2>4, <2>5, <2>6, Replaced, Zenon
<1>3. ASSUME NEW m \in Messages, DeleteMessage(m)
      PROVE  FtsInv'
  <2>1. NoRow \in [rowid : Nat, text : Texts]
        /\ NoRow.rowid = 0 /\ NoRow.text = {} /\ Entries(NoRow.rowid, NoRow.text) = {}
    BY SMT DEF NoRow, Texts, Entries
  <2>2. \A n \in Stored \ {m} : rows[n].rowid # NoRow.rowid
    BY <2>1, SMT DEF Stored
  <2>3. index' = (index \ Entries(rows[m].rowid, rows[m].text))
                    \cup Entries(NoRow.rowid, NoRow.text)
    BY <1>3, <2>1, SMT DEF DeleteMessage, messages_ad
  <2>4. rows' = [rows EXCEPT ![m] = NoRow]
    BY <1>3 DEF DeleteMessage
  <2> QED BY <2>1, <2>2, <2>3, <2>4, Replaced, Zenon
<1>4. CASE UNCHANGED ftsVars
  BY <1>4, SMT DEF ftsVars, FtsInv, FtsTypeOK, IndexFollows, Stored
<1>5. ASSUME FtsNext
      PROVE  \E m \in Messages :
                \/ \E text \in Texts : Insert(m, text) \/ Update(m, text)
                \/ DeleteMessage(m)
  BY <1>5, Zenon DEF FtsNext, UpsertMessage
<1> QED BY <1>1, <1>2, <1>3, <1>4, <1>5

(* An empty table has an empty index.                                      *)
LEMMA FtsInitial == FtsInit => FtsInv
<1> SUFFICES ASSUME rows = [m \in Messages |-> NoRow], index = {} PROVE FtsInv
  BY Zenon DEF FtsInit
<1>1. NoRow \in [rowid : Nat, text : Texts] /\ NoRow.rowid = 0
  BY SMT DEF NoRow, Texts
<1>2. \A m \in Messages : rows[m] = NoRow
  BY Zenon
<1>3. Stored = {}
  BY <1>1, <1>2, SMT DEF Stored
<1>4. FtsTypeOK
  BY <1>1, SMT DEF FtsTypeOK
<1>5. IndexFollows
  BY <1>3, SMT DEF IndexFollows
<1> QED BY <1>4, <1>5 DEF FtsInv

(* The index holds the terms of the stored rows and nothing else: the three *)
(* triggers of 0001_init.sql leave no entry of a deleted or edited text.    *)
THEOREM IndexFollowsRows == FtsSpec => [](FtsTypeOK /\ IndexFollows)
<1>1. FtsSpec => []FtsInv
  BY FtsInitial, FtsStep, PTL DEF FtsSpec
<1> QED BY <1>1, PTL DEF FtsInv

(* An index that follows the rows answers for their texts of now: the rowid *)
(* an entry leads to is that of the only row it can come from.              *)
LEMMA FollowingAgrees == FtsInv => SearchAgrees
<1> SUFFICES ASSUME FtsInv, NEW t \in Terms, NEW m \in Stored
             PROVE  <<rows[m].rowid, t>> \in index <=> t \in rows[m].text
  BY SMT DEF SearchAgrees, Hits, Containing
<1>1. ASSUME <<rows[m].rowid, t>> \in index
      PROVE  t \in rows[m].text
  <2>1. PICK n \in Stored :
            <<rows[m].rowid, t>> \in Entries(rows[n].rowid, rows[n].text)
    BY <1>1, SMT DEF FtsInv, IndexFollows
  <2>2. rows[m].rowid = rows[n].rowid /\ t \in rows[n].text
    BY <2>1, SMT DEF Entries
  <2> QED BY <2>2, SMT DEF FtsInv, IndexFollows
<1>2. ASSUME t \in rows[m].text
      PROVE  <<rows[m].rowid, t>> \in index
  <2>1. <<rows[m].rowid, t>> \in Entries(rows[m].rowid, rows[m].text)
    BY <1>2, SMT DEF Entries
  <2> QED BY <2>1, SMT DEF FtsInv, IndexFollows
<1> QED BY <1>1, <1>2

(* The rows get and lose their times as Timestamps says, so that what is    *)
(* proved of its times holds of the rows of this store.                     *)
THEOREM RowsKeepTimes == FtsSpec => TimeSpec
<1>1. FtsInit => TimeInit
  BY DEF FtsInit
<1>2. FtsNext => TimeNext
  BY Zenon DEF FtsNext, TimeNext
<1>3. UNCHANGED ftsVars => UNCHANGED posted_at
  BY Zenon DEF ftsVars
<1> QED BY <1>1, <1>2, <1>3, PTL DEF FtsSpec, TimeSpec

(* Search (sqlitestore/search.go) finds a message by the terms of the text  *)
(* it has now, and by no term of an earlier text or of another message.     *)
THEOREM SearchFindsCurrent == FtsSpec => []SearchAgrees
<1>1. FtsSpec => []FtsInv
  BY FtsInitial, FtsStep, PTL DEF FtsSpec
<1> QED BY <1>1, FollowingAgrees, PTL
=============================================================================
