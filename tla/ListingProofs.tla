--------------------------- MODULE ListingProofs ---------------------------
(* Theorems about Listing for any requests, limits, catalogs, numbers of    *)
(* writers and entries, and walks of any length.                            *)
EXTENDS Listing, SequenceTheorems, FiniteSetTheorems, FunctionTheorems, TLAPS

(* The limit a request's pages are cut to. *)
PageLimit == ClampLimit(ParseInt(req.limit, DefaultLimit))

(* The rows that come before this one in every order. *)
Rank(row) == Cardinality({other \in Rows : SortsFirst(other, row)})

(* The rows that do not come after this one in every order. *)
Upto(row) == Cardinality({other \in Rows : ~SortsFirst(row, other)})

(* Rows are finitely many, and those of the beginning are still there. *)
Finite ==
    /\ IsFiniteSet(entries)
    /\ \A w \in Writers : IsFiniteSet(writing[w])
    /\ before \subseteq entries

(* What an answer says of the page it holds. *)
Pages ==
    /\ stage = "answered" => Len(answers) > 0
    /\ Proper(req) =>
          /\ req.list = "reports" => offset >= 0
          /\ \A i \in DOMAIN answers :
                answers[i].page.limit = PageLimit /\ answers[i].page.offset >= 0

(* What was counted is still there.                                        *)
Counted == stage = "counted" => total <= Cardinality(Rows)

LastPage == answers[Len(answers)].page

(* A row the walk has not returned lies beyond the pages it has read, and  *)
(* after the last one beyond what the COUNT saw.                           *)
Ahead(row) ==
    /\ stage \in {"asked", "counted"} => Rank(row) >= ClampOffset(offset)
    /\ stage = "answered" =>
          /\ Rank(row) >= LastPage.offset + LastPage.limit
          /\ LastPage.offset + LastPage.limit < LastPage.total + grown
    /\ stage = "done" => grown > 0

FirstRows == Matching(IF req.list = "audit" THEN before ELSE Catalog)

Reach ==
    Proper(req) /\ FromTop(req) /\ stage # "idle" =>
        \A row \in FirstRows : row \in Returned \/ HasTie(row) \/ Ahead(row)

(* Nothing arrived since the walk began. *)
Quiet ==
    /\ Proper(req) /\ FromTop(req) /\ stage # "idle"
    /\ req.list = "audit" => entries = before

(* Then a row stands where some order may have it, once on its page, and   *)
(* pages do not overlap.                                                   *)
RankedPage(answer) ==
    /\ Len(answer.rows) <= PageLimit
    /\ \A k \in DOMAIN answer.rows : \E row \in Rows :
          /\ row = answer.rows[k]
          /\ Rank(row) <= answer.page.offset + k - 1
          /\ answer.page.offset + k <= Upto(row)
    /\ \A k, l \in DOMAIN answer.rows : answer.rows[k] = answer.rows[l] => k = l

Ranked ==
    /\ stage = "idle" => answers = <<>> /\ grown = 0
    /\ Quiet =>
        /\ grown = 0
        /\ stage = "counted" => total = Cardinality(Rows)
        /\ \A i \in DOMAIN answers : RankedPage(answers[i])
        /\ \A i, j \in DOMAIN answers :
              i < j => answers[i].page.offset + PageLimit <= answers[j].page.offset
        /\ stage \in {"asked", "counted"} =>
              \A i \in DOMAIN answers :
                  answers[i].page.offset + PageLimit <= ClampOffset(offset)

-----------------------------------------------------------------------------
(* Orders and pages *)

(* An order of finitely many rows has each of them at one place.           *)
LEMMA OrderFacts ==
    ASSUME NEW rows, IsFiniteSet(rows), NEW s \in Orders(rows)
    PROVE  /\ s \in Seq(rows)
           /\ Len(s) = Cardinality(rows)
           /\ Len(s) \in Nat
           /\ \A i, j \in 1..Len(s) : i < j => ~SortsFirst(s[j], s[i])
           /\ \A i, j \in 1..Len(s) : s[i] = s[j] => i = j
           /\ \A row \in rows : \E i \in 1..Len(s) : s[i] = row
  <1> DEFINE n == Cardinality(rows)
  <1>1. n \in Nat
    BY FS_CardinalityType
  <1>2. /\ s \in [1..n -> rows]
        /\ \A i, j \in 1..n : i # j => s[i] # s[j]
    BY DEF Orders, SetToSeqs
  <1> HIDE DEF n
  <1>3. s \in Seq(rows) /\ Len(s) = n
    BY <1>1, <1>2
  <1>4. s \in Injection(1..n, rows)
    BY <1>2, Fun_IsInj
  <1>5. Cardinality(1..n) = n
    BY <1>1, FS_Interval
  <1>6. s \in Surjection(1..n, rows)
    BY <1>4, <1>5, FS_Injection DEF n
  <1>7. \A row \in rows : \E i \in 1..n : s[i] = row
    BY <1>6 DEF Surjection
  <1>8. \A i, j \in 1..n : i < j => ~SortsFirst(s[j], s[i])
    BY <1>2 DEF Orders
  <1> QED  BY <1>1, <1>2, <1>3, <1>7, <1>8 DEF n

LEMMA SliceFacts ==
    ASSUME NEW S, NEW s \in Seq(S), NEW limit \in Nat, NEW from \in Nat
    PROVE  /\ Slice(s, limit, from) \in Seq(S)
           /\ Len(Slice(s, limit, from)) =
                 IF from + limit <= Len(s) THEN limit
                 ELSE IF from < Len(s) THEN Len(s) - from ELSE 0
           /\ \A k \in 1..Len(Slice(s, limit, from)) :
                 from + k \in 1..Len(s) /\ Slice(s, limit, from)[k] = s[from + k]
  <1> DEFINE m == IF from + limit < Len(s) THEN from + limit ELSE Len(s)
             page == SubSeq(s, from + 1, m)
  <1>1. Len(s) \in Nat /\ m \in Int /\ m <= Len(s) /\ from + 1 \in Int
    OBVIOUS
  <1>2. \A i \in (from + 1)..m : s[i] \in S
    BY <1>1
  <1>3. m - (from + 1) + 1 = m - from
    BY <1>1
  <1> HIDE DEF m
  <1>4. /\ page \in Seq(S)
        /\ Len(page) = IF from + 1 <= m THEN m - (from + 1) + 1 ELSE 0
        /\ \A i \in 1..(m - (from + 1) + 1) : page[i] = s[from + 1 + i - 1]
    BY <1>1, <1>2, SubSeqProperties
  <1> HIDE DEF page
  <1>5. Len(page) = IF from + limit <= Len(s) THEN limit
                    ELSE IF from < Len(s) THEN Len(s) - from ELSE 0
    BY <1>1, <1>4 DEF m
  <1>6. \A k \in 1..Len(page) : from + k \in 1..Len(s) /\ page[k] = s[from + k]
    <2> SUFFICES ASSUME NEW k \in 1..Len(page)
                 PROVE  from + k \in 1..Len(s) /\ page[k] = s[from + k]
      OBVIOUS
    <2>1. k \in 1..(m - (from + 1) + 1) /\ from + k \in 1..Len(s)
      BY <1>1, <1>4
    <2>2. from + 1 + k - 1 = from + k
      BY <2>1
    <2> QED  BY <1>4, <2>1, <2>2
  <1>7. Slice(s, limit, from) = page
    BY DEF Slice, page, m
  <1> QED  BY <1>4, <1>5, <1>6, <1>7

(* In every order, a row that does not tie stands at its rank. *)
LEMMA Standing ==
    ASSUME IsFiniteSet(Rows), NEW s \in Orders(Rows), NEW k \in 1..Len(s),
           ~HasTie(s[k]), ~SortsFirst(s[k], s[k])
    PROVE  Rank(s[k]) = k - 1
  <1> DEFINE row == s[k]
             Below == {other \in Rows : SortsFirst(other, row)}
             g == [i \in 1..(k - 1) |-> s[i]]
  <1>1. /\ Len(s) \in Nat
        /\ \A i \in 1..Len(s) : s[i] \in Rows
        /\ \A i, j \in 1..Len(s) : i < j => ~SortsFirst(s[j], s[i])
        /\ \A i, j \in 1..Len(s) : s[i] = s[j] => i = j
        /\ \A other \in Rows : \E i \in 1..Len(s) : s[i] = other
    BY OrderFacts
  <1>2. \A i \in 1..(k - 1) : i \in 1..Len(s) /\ i < k
    BY <1>1
  <1>3. ASSUME NEW i \in 1..(k - 1)
        PROVE  s[i] \in Below
    <2>1. s[i] \in Rows /\ s[i] # row /\ ~SortsFirst(row, s[i])
      BY <1>1, <1>2
    <2> QED  BY <2>1 DEF HasTie, Tied
  <1>4. ASSUME NEW other \in Below
        PROVE  \E i \in 1..(k - 1) : s[i] = other
    <2>1. PICK i \in 1..Len(s) : s[i] = other
      BY <1>1
    <2>2. SortsFirst(s[i], row)
      BY <2>1
    <2>3. i # k
      BY <2>2
    <2>4. ~(k < i)
      BY <1>1, <2>2
    <2>5. i \in 1..(k - 1)
      BY <1>1, <2>3, <2>4
    <2> QED  BY <2>1, <2>5
  <1>5. \A i, j \in 1..(k - 1) : s[i] = s[j] => i = j
    BY <1>1, <1>2
  <1> HIDE DEF Below, row
  <1>6. g \in [1..(k - 1) -> Below]
    BY <1>3
  <1>7. g \in Bijection(1..(k - 1), Below)
    BY <1>4, <1>5, <1>6, Fun_IsBij
  <1>8. ASSUME NEW m \in Nat
        PROVE  IsFiniteSet(1..m) /\ Cardinality(1..m) = m
    <2>1. 1 \in Int /\ m \in Int
      OBVIOUS
    <2>2. /\ IsFiniteSet(1..m)
          /\ Cardinality(1..m) = IF 1 > m THEN 0 ELSE m - 1 + 1
      BY <2>1, FS_Interval
    <2> QED  BY <2>2
  <1>9. IsFiniteSet(1..(k - 1)) /\ Cardinality(1..(k - 1)) = k - 1
    <2>1. k - 1 \in Nat
      BY <1>1
    <2> QED  BY <1>8, <2>1
  <1>10. Cardinality(Below) = k - 1
    BY <1>7, <1>9, FS_Bijection DEF ExistsBijection
  <1> QED  BY <1>10 DEF Rank, Below, row

(* The first m places of an order hold m rows. *)
LEMMA Prefix ==
    ASSUME IsFiniteSet(Rows), NEW s \in Orders(Rows), NEW m \in 0..Len(s)
    PROVE  /\ IsFiniteSet({s[i] : i \in 1..m})
           /\ Cardinality({s[i] : i \in 1..m}) = m
  <1> DEFINE First == {s[i] : i \in 1..m}
             g == [i \in 1..m |-> s[i]]
  <1>1. Len(s) \in Nat /\ \A i, j \in 1..Len(s) : s[i] = s[j] => i = j
    BY OrderFacts
  <1>2. m \in Nat /\ \A i \in 1..m : i \in 1..Len(s)
    BY <1>1
  <1>3. \A i, j \in 1..m : s[i] = s[j] => i = j
    BY <1>1, <1>2
  <1>4. g \in [1..m -> First]
    OBVIOUS
  <1>5. \A row \in First : \E i \in 1..m : g[i] = row
    OBVIOUS
  <1>6. g \in Bijection(1..m, First)
    BY <1>3, <1>4, <1>5, Fun_IsBij
  <1>7. IsFiniteSet(1..m) /\ Cardinality(1..m) = m
    <2>1. 1 \in Int /\ m \in Int
      BY <1>2
    <2>2. /\ IsFiniteSet(1..m)
          /\ Cardinality(1..m) = IF 1 > m THEN 0 ELSE m - 1 + 1
      BY <2>1, FS_Interval
    <2> QED  BY <1>2, <2>2
  <1> HIDE DEF First, g
  <1>8. IsFiniteSet(First) /\ Cardinality(First) = m
    BY <1>6, <1>7, FS_Bijection DEF ExistsBijection
  <1> QED  BY <1>8 DEF First

(* In every order, a row stands between its rank and its last place. *)
LEMMA Between ==
    ASSUME IsFiniteSet(Rows), NEW s \in Orders(Rows), NEW k \in 1..Len(s),
           ~SortsFirst(s[k], s[k])
    PROVE  Rank(s[k]) <= k - 1 /\ k <= Upto(s[k])
  <1> DEFINE row == s[k]
             Below == {other \in Rows : SortsFirst(other, row)}
             Within == {other \in Rows : ~SortsFirst(row, other)}
             Before == {s[i] : i \in 1..(k - 1)}
             So == {s[i] : i \in 1..k}
  <1>1. /\ Len(s) \in Nat
        /\ \A i \in 1..Len(s) : s[i] \in Rows
        /\ \A i, j \in 1..Len(s) : i < j => ~SortsFirst(s[j], s[i])
        /\ \A other \in Rows : \E i \in 1..Len(s) : s[i] = other
    BY OrderFacts
  <1>2. ASSUME NEW other \in Below
        PROVE  other \in Before
    <2>1. PICK i \in 1..Len(s) : s[i] = other
      BY <1>1
    <2>2. SortsFirst(s[i], s[k])
      BY <2>1
    <2>3. i # k
      BY <2>2
    <2>4. ~(k < i)
      BY <1>1, <2>2
    <2>5. i \in 1..(k - 1)
      BY <1>1, <2>3, <2>4
    <2> QED  BY <2>1, <2>5
  <1>3. ASSUME NEW other \in So
        PROVE  other \in Within
    <2>1. PICK i \in 1..k : s[i] = other
      OBVIOUS
    <2>2. i \in 1..Len(s) /\ (i = k \/ i < k)
      BY <1>1
    <2>3. s[i] \in Rows /\ ~SortsFirst(s[k], s[i])
      BY <1>1, <2>2
    <2> QED  BY <2>1, <2>3
  <1>4. k - 1 \in 0..Len(s) /\ k \in 0..Len(s)
    BY <1>1
  <1>5. IsFiniteSet(Before) /\ Cardinality(Before) = k - 1
    BY <1>4, Prefix
  <1>6. IsFiniteSet(So) /\ Cardinality(So) = k
    BY <1>4, Prefix
  <1>7. Within \in SUBSET Rows
    OBVIOUS
  <1>8. Below \in SUBSET Before
    BY <1>2
  <1>9. So \in SUBSET Within
    BY <1>3
  <1>10. Rank(s[k]) = Cardinality(Below) /\ Upto(s[k]) = Cardinality(Within)
    BY DEF Rank, Upto
  <1> HIDE DEF Below, Before, Within, So
  <1>11. IsFiniteSet(Within)
    BY <1>7, FS_Subset
  <1>12. Cardinality(Below) <= Cardinality(Before)
    BY <1>5, <1>8, FS_Subset
  <1>13. Cardinality(So) <= Cardinality(Within)
    BY <1>9, <1>11, FS_Subset
  <1> QED  BY <1>5, <1>6, <1>10, <1>12, <1>13

-----------------------------------------------------------------------------
(* Requests and rows *)

LEMMA RequestFacts ==
    ASSUME TypeOK
    PROVE  /\ req.list \in {"audit", "reports"}
           /\ ParseInt(req.limit, DefaultLimit) \in Int
           /\ ParseInt(req.offset, 0) \in Int
           /\ PageLimit \in Nat /\ PageLimit >= 1
  <1>1. req \in Requests
    BY AskedAssumption DEF TypeOK
  <1>2. /\ req.list \in {"audit", "reports"}
        /\ req.limit \in RawInt /\ req.offset \in RawInt
    <2>1. CASE req \in [list : {"audit"}, limit : RawInt, offset : RawInt, filtered : BOOLEAN]
      BY <2>1
    <2>2. CASE req \in [list : {"reports"}, limit : RawInt, offset : RawInt,
                        filtered : BOOLEAN, sort : {"name", "updated"}, desc : BOOLEAN]
      BY <2>2
    <2> QED  BY <1>1, <2>1, <2>2 DEF Requests
  <1>3. ParseInt(req.limit, DefaultLimit) \in Int /\ ParseInt(req.offset, 0) \in Int
    BY <1>2, LimitAssumption DEF ParseInt, RawInt
  <1> QED  BY <1>2, <1>3, LimitAssumption DEF PageLimit, ClampLimit

LEMMA OffsetFacts ==
    ASSUME NEW n \in Int
    PROVE  ClampOffset(n) \in Nat /\ (n >= 0 => ClampOffset(n) = n) /\ (n <= 0 => ClampOffset(n) = 0)
  BY DEF ClampOffset

LEMMA RowFacts ==
    ASSUME TypeOK, Finite
    PROVE  /\ IsFiniteSet(Rows) /\ Cardinality(Rows) \in Nat
           /\ Rows \subseteq Entries \cup Catalog
           /\ \A r \in Rows : ~SortsFirst(r, r)
           /\ \A r, s, t \in Rows : SortsFirst(r, s) /\ SortsFirst(s, t) => SortsFirst(r, t)
           /\ \A r, s, t \in Rows : SortsFirst(r, s) => SortsFirst(r, t) \/ SortsFirst(t, s)
           /\ \A r, s \in Rows : ~SortsFirst(s, r) => InOrder(r, s)
  <1> DEFINE all == IF req.list = "audit" THEN entries ELSE Catalog
             report == [id : Nat, name : Int, updated : Int, match : BOOLEAN]
  <1>1. IsFiniteSet(all) /\ all \subseteq Entries \cup Catalog
    BY CatalogAssumption DEF TypeOK, Finite
  <1>2. Rows \subseteq all
    BY DEF Rows, Matching
  <1>3. IsFiniteSet(Rows) /\ Cardinality(Rows) \in Nat
    BY <1>1, <1>2, FS_Subset, FS_CardinalityType
  <1>4. req.list # "audit" => \A r \in Rows : r.name \in Int /\ r.updated \in Int
    BY <1>2, CatalogAssumption
  <1>5. req.list = "audit" => \A r \in Rows : r.created \in Nat
    BY <1>2 DEF TypeOK, Entries
  <1>6. \A r \in Rows : ~SortsFirst(r, r)
    BY <1>4, <1>5 DEF SortsFirst, SortKey
  <1>7. \A r, s, t \in Rows : SortsFirst(r, s) /\ SortsFirst(s, t) => SortsFirst(r, t)
    BY <1>4, <1>5 DEF SortsFirst, SortKey
  <1>8. \A r, s, t \in Rows : SortsFirst(r, s) => SortsFirst(r, t) \/ SortsFirst(t, s)
    BY <1>4, <1>5 DEF SortsFirst, SortKey
  <1>9. \A r, s \in Rows : ~SortsFirst(s, r) => InOrder(r, s)
    BY <1>4, <1>5 DEF SortsFirst, InOrder, SortKey
  <1> QED  BY <1>1, <1>2, <1>3, <1>6, <1>7, <1>8, <1>9

LEMMA RankFacts ==
    ASSUME TypeOK, Finite, NEW row
    PROVE  /\ Rank(row) \in Nat
           /\ row \in Rows => Rank(row) < Cardinality(Rows)
  <1> DEFINE Below == {other \in Rows : SortsFirst(other, row)}
  <1>1. row \in Rows => Below \in SUBSET (Rows \ {row})
    BY RowFacts
  <1>2. Below \in SUBSET Rows
    OBVIOUS
  <1>3. Cardinality(Below) \in Nat
    BY <1>2, RowFacts, FS_Subset, FS_CardinalityType
  <1>4. ASSUME row \in Rows
        PROVE  Cardinality(Below) < Cardinality(Rows)
    <2>1. /\ IsFiniteSet(Rows \ {row})
          /\ Cardinality(Rows \ {row}) = Cardinality(Rows) - 1
      BY <1>4, RowFacts, FS_RemoveElement
    <2>2. Below \in SUBSET (Rows \ {row})
      BY <1>1, <1>4
    <2> HIDE DEF Below
    <2>3. Cardinality(Below) <= Cardinality(Rows \ {row})
      BY <2>1, <2>2, FS_Subset
    <2> QED  BY <1>3, <2>1, <2>3, RowFacts
  <1> QED  BY <1>3, <1>4 DEF Rank

(* Rows are only added: a rank never falls and a tie stays. *)
LEMMA Grows ==
    ASSUME TypeOK, Finite, Next, TypeOK', Finite'
    PROVE  /\ req' = req
           /\ entries \subseteq entries'
           /\ Rows \subseteq Rows'
           /\ \A row : HasTie(row) => HasTie(row)'
           /\ \A row : Rank(row) \in Nat /\ Rank(row)' \in Nat /\ Rank(row) <= Rank(row)'
           /\ Cardinality(Rows) \in Nat /\ Cardinality(Rows)' \in Nat
           /\ Cardinality(Rows) <= Cardinality(Rows)'
           /\ Rows' = Rows => \A row : Rank(row)' = Rank(row) /\ Upto(row)' = Upto(row)
  <1>1. req' = req /\ entries \subseteq entries'
    BY DEF Next, ClientStep, CommitEntry, BeginEntry, Tick, Begin, Count, Select, PageFails,
           Follow, Over, client, vars
  <1>2. Rows \subseteq Rows'
    BY <1>1 DEF Rows, Matching
  <1>3. \A r, s : SortsFirst(r, s)' <=> SortsFirst(r, s)
    BY <1>1 DEF SortsFirst, SortKey
  <1>4. \A r, s : Tied(r, s)' <=> Tied(r, s)
    BY <1>3 DEF Tied
  <1>5. \A row : HasTie(row) => HasTie(row)'
    BY <1>2, <1>4 DEF HasTie
  <1>6. IsFiniteSet(Rows) /\ IsFiniteSet(Rows')
    <2>1. IsFiniteSet(Rows)
      BY RowFacts
    <2>2. IsFiniteSet(IF req'.list = "audit" THEN entries' ELSE Catalog)
      BY CatalogAssumption DEF Finite
    <2>3. Rows' \in SUBSET (IF req'.list = "audit" THEN entries' ELSE Catalog)
      BY DEF Rows, Matching
    <2> QED  BY <2>1, <2>2, <2>3, FS_Subset
  <1>7. ASSUME NEW row
        PROVE  /\ Rank(row) \in Nat /\ Rank(row)' \in Nat /\ Rank(row) <= Rank(row)'
               /\ Rows' = Rows => Rank(row)' = Rank(row)
    <2> DEFINE Below == {other \in Rows : SortsFirst(other, row)}
               BelowNow == {other \in Rows' : SortsFirst(other, row)'}
    <2>1. Below \in SUBSET BelowNow /\ (Rows' = Rows => BelowNow = Below)
      BY <1>2, <1>3
    <2>2. IsFiniteSet(Below) /\ IsFiniteSet(BelowNow)
      BY <1>6, FS_Subset
    <2> HIDE DEF Below, BelowNow
    <2>3. /\ Cardinality(Below) \in Nat /\ Cardinality(BelowNow) \in Nat
          /\ Cardinality(Below) <= Cardinality(BelowNow)
      BY <2>1, <2>2, FS_Subset, FS_CardinalityType
    <2>4. Rank(row) = Cardinality(Below) /\ Rank(row)' = Cardinality(BelowNow)
      BY DEF Rank, Below, BelowNow
    <2> QED  BY <2>1, <2>3, <2>4
  <1>8. /\ Cardinality(Rows) \in Nat /\ Cardinality(Rows)' \in Nat
        /\ Cardinality(Rows) <= Cardinality(Rows)'
    BY <1>2, <1>6, FS_Subset, FS_CardinalityType
  <1>9. ASSUME Rows' = Rows, NEW row
        PROVE  Upto(row)' = Upto(row)
    BY <1>3, <1>9 DEF Upto
  <1> QED  BY <1>1, <1>2, <1>5, <1>7, <1>8, <1>9

-----------------------------------------------------------------------------
(* Types and pages *)

LEMMA AnswerFacts ==
    ASSUME TypeOK, NEW i \in DOMAIN answers
    PROVE  /\ DOMAIN answers = 1..Len(answers) /\ Len(answers) \in Nat
           /\ answers[i].page.limit \in Int
           /\ answers[i].page.offset \in Int
           /\ answers[i].page.total \in Nat
           /\ answers[i].rows \in Seq(Entries \cup Catalog)
  <1> DEFINE Lists == Seq(Entries \cup Catalog)
             Answers == [page : [limit : Int, offset : Int, total : Nat], rows : Lists]
  <1>1. answers \in Seq(Answers)
    BY DEF TypeOK
  <1> HIDE DEF Answers
  <1>2. DOMAIN answers = 1..Len(answers) /\ Len(answers) \in Nat /\ answers[i] \in Answers
    BY <1>1
  <1> HIDE DEF Lists
  <1>3. answers[i].page \in [limit : Int, offset : Int, total : Nat] /\ answers[i].rows \in Lists
    BY <1>2 DEF Answers
  <1> QED  BY <1>2, <1>3 DEF Lists

(* The answer Select appends. *)
LEMMA SelectFacts ==
    ASSUME TypeOK, Finite, Pages, Select
    PROVE  \E s \in Orders(Rows) :
              LET n == Len(answers)
                  answer == answers'[n + 1]
              IN  /\ answers' \in Seq([page : [limit : Int, offset : Int, total : Nat],
                                       rows : Seq(Entries \cup Catalog)])
                  /\ n \in Nat /\ DOMAIN answers = 1..n
                  /\ DOMAIN answers' = 1..(n + 1) /\ Len(answers') = n + 1
                  /\ \A i \in 1..n : answers'[i] = answers[i]
                  /\ answer.rows = Slice(s, PageLimit, ClampOffset(offset))
                  /\ answer.page.total = total
                  /\ Proper(req) => /\ answer.page.limit = PageLimit
                                    /\ answer.page.offset = ClampOffset(offset)
  <1> DEFINE limit == ParseInt(req.limit, DefaultLimit)
             n == Len(answers)
             Answers == [page : [limit : Int, offset : Int, total : Nat],
                         rows : Seq(Entries \cup Catalog)]
             page == IF req.list = "audit" THEN AuditPagination(limit) ELSE ReportPagination(limit)
             from == ClampOffset(offset)
  <1>1. PICK s \in Orders(Rows) :
           answers' = Append(answers, [page |-> page, rows |-> Slice(s, ClampLimit(limit), from)])
    BY DEF Select
  <1>2. ClampLimit(limit) = PageLimit
    BY DEF PageLimit
  <1>3. offset \in Int /\ total \in Nat /\ from \in Nat
    BY OffsetFacts DEF TypeOK
  <1>4. page \in [limit : Int, offset : Int, total : Nat]
    BY <1>2, <1>3, RequestFacts DEF AuditPagination, ReportPagination
  <1>5. page.total = total
    BY DEF AuditPagination, ReportPagination
  <1>6. Proper(req) => page.limit = PageLimit /\ page.offset = from
    <2>1. CASE req.list = "audit"
      BY <1>2, <2>1 DEF AuditPagination
    <2>2. CASE req.list # "audit" /\ Proper(req)
      <3>1. limit \in 1..LimitCap /\ offset >= 0
        BY <2>2, RequestFacts DEF Proper, Pages
      <3>2. ClampLimit(limit) = limit
        BY <3>1, LimitAssumption, RequestFacts DEF ClampLimit
      <3> QED  BY <1>2, <1>3, <2>2, <3>1, <3>2, OffsetFacts DEF ReportPagination
    <2> QED  BY <2>1, <2>2
  <1> HIDE DEF page, limit, from
  <1> DEFINE rows == Slice(s, PageLimit, from)
             answer == [page |-> page, rows |-> rows]
  <1>7. rows \in Seq(Entries \cup Catalog)
    <2>1. s \in Seq(Rows) /\ Rows \subseteq Entries \cup Catalog
      BY RowFacts, OrderFacts
    <2>2. rows \in Seq(Rows)
      BY <1>3, <2>1, RequestFacts, SliceFacts
    <2> HIDE DEF rows
    <2> QED  BY <2>1, <2>2
  <1>8. answer \in Answers /\ answers \in Seq(Answers) /\ answers' = Append(answers, answer)
    BY <1>1, <1>2, <1>4, <1>7 DEF TypeOK
  <1>9. answer.page = page /\ answer.rows = rows
    OBVIOUS
  <1> HIDE DEF answer, rows, Answers
  <1>10. /\ answers' \in Seq(Answers)
         /\ n \in Nat /\ DOMAIN answers = 1..n
         /\ DOMAIN answers' = 1..(n + 1) /\ Len(answers') = n + 1
         /\ \A i \in 1..n : answers'[i] = answers[i]
         /\ answers'[n + 1] = answer
    BY <1>8, AppendProperties
  <1> QED  BY <1>5, <1>6, <1>9, <1>10 DEF rows, from, Answers

LEMMA InitTypes == Init => TypeOK /\ Finite /\ Pages
  <1> SUFFICES ASSUME Init PROVE TypeOK /\ Finite /\ Pages
    OBVIOUS
  <1>1. TypeOK
    BY ListingBounds DEF Init, TypeOK
  <1>2. Finite
    BY FS_EmptySet DEF Init, Finite
  <1>3. Pages
    BY DEF Init, Pages
  <1> QED  BY <1>1, <1>2, <1>3

LEMMA StepTypes ==
    ASSUME TypeOK, Finite, Pages, Next
    PROVE  TypeOK' /\ Finite'
  <1> USE DEF TypeOK, client
  <1>1. ASSUME NEW w \in Writers, CommitEntry(w)
        PROVE  TypeOK' /\ Finite'
    <2>1. /\ entries' = entries \cup writing[w]
          /\ writing' = [writing EXCEPT ![w] = {}]
          /\ UNCHANGED <<written, clock, client>>
      BY <1>1 DEF CommitEntry
    <2>2. TypeOK'
      BY <2>1
    <2>3. IsFiniteSet(entries') /\ before' \subseteq entries'
      BY <2>1, FS_Union DEF Finite
    <2>4. \A u \in Writers : IsFiniteSet(writing'[u])
      BY <2>1, FS_EmptySet DEF Finite
    <2> QED  BY <2>2, <2>3, <2>4 DEF Finite
  <1>2. ASSUME NEW w \in Writers, NEW match \in BOOLEAN, BeginEntry(w, match)
        PROVE  TypeOK' /\ Finite'
    <2> DEFINE row == [id |-> written + 1, created |-> clock, match |-> match]
    <2>1. /\ written' = written + 1 /\ written < MaxEntries
          /\ writing' = [writing EXCEPT ![w] = {row}]
          /\ UNCHANGED <<entries, clock, client>>
      BY <1>2 DEF BeginEntry, MayWrite
    <2>2. written' \in 0..MaxEntries /\ written + 1 \in Nat \ {0} /\ clock \in Nat
      BY <2>1, ListingBounds
    <2>3. row \in Entries
      BY <2>2, Zenon DEF Entries
    <2> HIDE DEF row
    <2>4. TypeOK'
      BY <2>1, <2>2, <2>3
    <2>5. \A u \in Writers : IsFiniteSet(writing'[u])
      BY <2>1, FS_Singleton DEF Finite
    <2> QED  BY <2>1, <2>4, <2>5 DEF Finite
  <1>3. CASE Tick
    BY <1>3, ListingBounds DEF Tick, Finite
  <1>4. CASE Begin
    BY <1>4, RequestFacts DEF Begin, Finite
  <1>5. CASE Count
    BY <1>5, RowFacts DEF Count, Finite
  <1>6. CASE Select
    <2>1. answers' \in Seq([page : [limit : Int, offset : Int, total : Nat],
                            rows : Seq(Entries \cup Catalog)])
      BY <1>6, SelectFacts
    <2>2. grown' \in Int
      BY <1>6, RowFacts DEF Select
    <2>3. /\ stage' = "answered"
          /\ UNCHANGED <<entries, writing, written, clock, req, offset, total, before, faults>>
      BY <1>6 DEF Select
    <2> QED  BY <2>1, <2>2, <2>3 DEF Finite
  <1>7. CASE PageFails
    BY <1>7, ListingBounds DEF PageFails, Finite
  <1>8. CASE Follow
    <2> DEFINE page == answers[Len(answers)].page
    <2>1. Len(answers) \in DOMAIN answers
      BY <1>8 DEF Follow, Pages
    <2>2. page.offset \in Int /\ page.limit \in Int
      BY <2>1, AnswerFacts
    <2>3. page.offset + page.limit \in Int
      BY <2>2
    <2> HIDE DEF page
    <2>4. /\ offset' = page.offset + page.limit
          /\ stage' \in {"done", "asked", "gave_up"}
          /\ UNCHANGED <<entries, writing, written, clock, req, total, answers, before, grown, faults>>
      BY <1>8 DEF Follow, page
    <2> QED  BY <2>3, <2>4 DEF Finite
  <1>9. CASE Over
    BY <1>9 DEF Over, vars, Finite
  <1> QED
    BY <1>1, <1>2, <1>3, <1>4, <1>5, <1>6, <1>7, <1>8, <1>9 DEF Next, ClientStep

LEMMA StepPages ==
    ASSUME TypeOK, Finite, Pages, Next
    PROVE  Pages'
  <1>0. req' = req /\ PageLimit' = PageLimit /\ (Proper(req)' <=> Proper(req))
    BY StepTypes, Grows DEF PageLimit
  <1>1. CASE UNCHANGED <<stage, offset, answers>>
    BY <1>0, <1>1 DEF Pages
  <1>2. CASE Begin
    BY <1>0, <1>2, RequestFacts DEF Begin, Pages, Proper
  <1>3. CASE Count \/ PageFails
    BY <1>0, <1>3 DEF Count, PageFails, Pages
  <1>4. CASE Select
    <2>1. /\ Len(answers) \in Nat /\ Len(answers') = Len(answers) + 1
          /\ DOMAIN answers = 1..Len(answers) /\ DOMAIN answers' = 1..(Len(answers) + 1)
          /\ \A i \in 1..Len(answers) : answers'[i] = answers[i]
          /\ Proper(req) =>
                /\ answers'[Len(answers) + 1].page.limit = PageLimit
                /\ answers'[Len(answers) + 1].page.offset = ClampOffset(offset)
      BY <1>4, SelectFacts
    <2>2. offset' = offset /\ ClampOffset(offset) >= 0
      BY <1>4, OffsetFacts DEF Select, TypeOK
    <2> QED  BY <1>0, <2>1, <2>2 DEF Pages
  <1>5. CASE Follow
    <2> DEFINE page == answers[Len(answers)].page
    <2>1. Len(answers) \in DOMAIN answers
      BY <1>5 DEF Follow, Pages, TypeOK
    <2>2. Proper(req) => page.limit = PageLimit /\ page.offset >= 0 /\ page.offset \in Int
      BY <2>1, AnswerFacts DEF Pages
    <2> HIDE DEF page
    <2>3. /\ offset' = page.offset + page.limit
          /\ stage' # "answered"
          /\ answers' = answers
      BY <1>5 DEF Follow, page
    <2> QED  BY <1>0, <2>2, <2>3, RequestFacts DEF Pages
  <1> QED
    BY <1>1, <1>2, <1>3, <1>4, <1>5
    DEF Next, ClientStep, CommitEntry, BeginEntry, Tick, Over, client, vars

LEMMA TypesHold == Spec => [](TypeOK /\ Finite /\ Pages)
  <1> DEFINE Inv == TypeOK /\ Finite /\ Pages
  <1>1. Inv /\ [Next]_vars => Inv'
    <2> SUFFICES ASSUME Inv, [Next]_vars PROVE Inv'
      OBVIOUS
    <2>1. CASE Next
      BY <2>1, StepTypes, StepPages
    <2>2. CASE UNCHANGED vars
      BY <2>2 DEF vars, client, TypeOK, Finite, Pages, PageLimit, Proper
    <2> QED  BY <2>1, <2>2
  <1> QED  BY <1>1, InitTypes, PTL DEF Spec

(* The state stays within its types: pages hold entries or reports, and    *)
(* totals and offsets stay numbers, whatever a client asks for.            *)
THEOREM ListingTypes == Spec => []TypeOK
  BY TypesHold, PTL

-----------------------------------------------------------------------------
(* No short page *)

LEMMA StepCounted ==
    ASSUME TypeOK, Finite, Pages, Counted, Next
    PROVE  Counted'
  <1>1. /\ Cardinality(Rows) \in Nat /\ Cardinality(Rows)' \in Nat
        /\ Cardinality(Rows) <= Cardinality(Rows)'
    BY StepTypes, Grows
  <1>2. CASE Count
    BY <1>1, <1>2 DEF Count, Counted
  <1>3. CASE stage' = stage /\ total' = total
    BY <1>1, <1>3 DEF Counted, TypeOK
  <1>4. CASE stage' # "counted"
    BY <1>4 DEF Counted
  <1>5. Begin \/ Select \/ PageFails \/ Follow => stage' # "counted"
    BY DEF Begin, Select, PageFails, Follow
  <1> QED
    BY <1>2, <1>3, <1>4, <1>5
    DEF Next, ClientStep, CommitEntry, BeginEntry, Tick, Over, client, vars

LEMMA StepNoShortPage ==
    ASSUME TypeOK, Finite, Pages, Counted, NoShortPage, Next
    PROVE  NoShortPage'
  <1>0. req' = req /\ (Proper(req)' <=> Proper(req))
    BY StepTypes, Grows
  <1>1. CASE answers' = answers
    BY <1>0, <1>1 DEF NoShortPage
  <1>2. CASE Select
    <2> DEFINE n == Len(answers)
               from == ClampOffset(offset)
    <2>1. PICK s \in Orders(Rows) :
             /\ n \in Nat /\ DOMAIN answers = 1..n /\ DOMAIN answers' = 1..(n + 1)
             /\ \A i \in 1..n : answers'[i] = answers[i]
             /\ answers'[n + 1].rows = Slice(s, PageLimit, from)
             /\ answers'[n + 1].page.total = total
             /\ Proper(req) => /\ answers'[n + 1].page.limit = PageLimit
                               /\ answers'[n + 1].page.offset = from
      BY <1>2, SelectFacts
    <2>2. s \in Seq(Rows) /\ Len(s) = Cardinality(Rows)
      BY RowFacts, OrderFacts
    <2>3. from \in Nat /\ PageLimit \in Nat
      BY OffsetFacts, RequestFacts DEF TypeOK
    <2> HIDE DEF from, n
    <2>4. from + PageLimit <= Len(s) => Len(Slice(s, PageLimit, from)) = PageLimit
      BY <2>2, <2>3, SliceFacts
    <2>5. total <= Len(s) /\ total \in Nat /\ Len(s) \in Nat
      BY <1>2, <2>2, RowFacts DEF Select, Counted, TypeOK
    <2>6. ASSUME Proper(req), from + PageLimit <= total
          PROVE  Len(Slice(s, PageLimit, from)) = PageLimit
      BY <2>3, <2>4, <2>5, <2>6
    <2> QED  BY <1>0, <2>1, <2>6 DEF NoShortPage
  <1>3. answers' = answers \/ Select
    BY DEF Next, ClientStep, CommitEntry, BeginEntry, Tick, Begin, Count, PageFails, Follow,
           Over, client, vars
  <1> QED  BY <1>1, <1>2, <1>3

-----------------------------------------------------------------------------
(* The walk reaches every row *)

LEMMA StepReach ==
    ASSUME TypeOK, Finite, Pages, Reach, Next
    PROVE  Reach'
  <1>0. TypeOK' /\ Finite'
    BY StepTypes
  <1>1. /\ req' = req
        /\ \A row : HasTie(row) => HasTie(row)'
        /\ \A row : Rank(row) \in Nat /\ Rank(row)' \in Nat /\ Rank(row) <= Rank(row)'
    BY <1>0, Grows
  <1> SUFFICES ASSUME Proper(req), FromTop(req), stage' # "idle",
                      NEW row \in FirstRows', row \notin Returned', ~HasTie(row)'
               PROVE  Ahead(row)'
    BY <1>1 DEF Reach
  <1>2. CASE Begin
    <2>1. stage' = "asked" /\ offset' = ParseInt(req.offset, 0)
      BY <1>2 DEF Begin
    <2>2. ClampOffset(offset') = 0
      BY <2>1, RequestFacts, OffsetFacts DEF FromTop
    <2> QED  BY <1>1, <2>1, <2>2 DEF Ahead
  <1>3. CASE before' = before /\ stage # "idle"
    <2>1. row \in FirstRows
      BY <1>1, <1>3 DEF FirstRows, Matching
    <2>2. row \notin Returned => Ahead(row)
      BY <1>1, <1>3, <2>1 DEF Reach
    <2>3. CASE /\ answers' = answers
               /\ UNCHANGED <<stage, offset, grown>> \/ Count \/ PageFails \/ Follow
      <3>1. Ahead(row)
        BY <2>2, <2>3 DEF Returned
      <3>2. CASE UNCHANGED <<stage, offset, grown>>
        <4>1. ClampOffset(offset) \in Nat
          BY OffsetFacts DEF TypeOK
        <4>2. stage = "answered" => LastPage.offset + LastPage.limit \in Int
          <5>1. SUFFICES ASSUME stage = "answered"
                         PROVE  LastPage.offset + LastPage.limit \in Int
            OBVIOUS
          <5>2. Len(answers) \in DOMAIN answers
            BY <5>1 DEF Pages, TypeOK
          <5> QED  BY <5>2, AnswerFacts DEF LastPage
        <4>3. LastPage' = LastPage
          BY <2>3 DEF LastPage
        <4> DEFINE end == LastPage.offset + LastPage.limit
        <4>4. /\ stage \in {"asked", "counted"} => Rank(row)' >= ClampOffset(offset')
              /\ stage = "answered" => Rank(row)' >= end
          BY <1>1, <3>1, <3>2, <4>1, <4>2 DEF Ahead
        <4> QED  BY <3>1, <3>2, <4>3, <4>4 DEF Ahead
      <3>3. CASE Count \/ PageFails
        <4>1. /\ stage \in {"asked", "counted"} /\ stage' \in {"asked", "counted"}
              /\ offset' = offset
          BY <3>3 DEF Count, PageFails
        <4>2. ClampOffset(offset) \in Nat
          BY OffsetFacts DEF TypeOK
        <4>3. Rank(row)' >= ClampOffset(offset')
          BY <1>1, <3>1, <4>1, <4>2 DEF Ahead
        <4> QED  BY <4>1, <4>3 DEF Ahead
      <3>4. CASE Follow
        <4> DEFINE end == LastPage.offset + LastPage.limit
        <4>1. Len(answers) \in DOMAIN answers
          BY <3>4 DEF Follow, Pages, TypeOK
        <4>2. LastPage.offset >= 0 /\ LastPage.limit = PageLimit
          BY <4>1 DEF Pages, LastPage
        <4>3. end \in Nat
          BY <4>1, <4>2, AnswerFacts, RequestFacts DEF LastPage
        <4>4. LastPage.total \in Nat /\ grown \in Int
          BY <4>1, AnswerFacts DEF LastPage, TypeOK
        <4>5. Rank(row) >= end /\ end < LastPage.total + grown
          BY <3>1, <3>4 DEF Ahead, Follow
        <4>6. /\ offset' = end /\ grown' = grown
              /\ stage' \in {"done", "asked", "gave_up"}
              /\ stage' = "done" => end >= LastPage.total
          <5> HIDE DEF end
          <5>1. /\ offset' = end /\ grown' = grown
                /\ stage' = CASE offset' >= LastPage.total -> "done"
                             [] offset' < LastPage.total /\ Len(answers) < MaxPages -> "asked"
                             [] OTHER -> "gave_up"
            BY <3>4 DEF Follow, LastPage, end
          <5> QED  BY <4>3, <4>4, <5>1
        <4> HIDE DEF end
        <4>7. ClampOffset(offset') = end
          BY <4>3, <4>6, OffsetFacts
        <4>8. stage' \in {"asked", "counted"} => Rank(row)' >= ClampOffset(offset')
          BY <1>1, <4>3, <4>5, <4>7
        <4>9. stage' = "done" => grown' > 0
          BY <4>3, <4>4, <4>5, <4>6
        <4> QED  BY <4>6, <4>8, <4>9 DEF Ahead
      <3> QED  BY <2>3, <3>2, <3>3, <3>4
    <2>4. CASE Select
      <3> DEFINE n == Len(answers)
                 from == ClampOffset(offset)
      <3>1. PICK s \in Orders(Rows) :
               /\ n \in Nat /\ DOMAIN answers = 1..n /\ DOMAIN answers' = 1..(n + 1)
               /\ Len(answers') = n + 1
               /\ \A i \in 1..n : answers'[i] = answers[i]
               /\ answers'[n + 1].rows = Slice(s, PageLimit, from)
               /\ answers'[n + 1].page.total = total
               /\ answers'[n + 1].page.limit = PageLimit
               /\ answers'[n + 1].page.offset = from
        BY <2>4, SelectFacts
      <3>2. stage = "counted" /\ stage' = "answered" /\ grown' = Cardinality(Rows) - total
        BY <2>4 DEF Select
      <3>3. from \in Nat /\ PageLimit \in Nat /\ total \in Nat
        BY OffsetFacts, RequestFacts DEF TypeOK
      <3> HIDE DEF n
      <3>4. Returned \subseteq Returned'
        BY <3>1 DEF Returned
      <3>5. row \in Rows /\ ~HasTie(row) /\ Rank(row) >= from
        <4>1. row \in Rows
          BY <2>1 DEF FirstRows, Rows, Matching, Finite
        <4> QED  BY <1>1, <2>2, <3>2, <3>4, <4>1 DEF Ahead
      <3> HIDE DEF from
      <3>6. /\ s \in Seq(Rows) /\ Len(s) \in Nat
            /\ \E k \in 1..Len(s) : s[k] = row
        BY <3>5, RowFacts, OrderFacts
      <3>7. PICK k \in 1..Len(s) : s[k] = row
        BY <3>6
      <3>8. Rank(row) = k - 1
        BY <3>5, <3>7, RowFacts, Standing
      <3>9. ~(k <= from + PageLimit)
        <4> DEFINE page == Slice(s, PageLimit, from)
        <4>0. s \in Seq(Rows) /\ PageLimit \in Nat /\ from \in Nat
          BY <3>3, <3>6
        <4>1. SUFFICES ASSUME k <= from + PageLimit
                       PROVE  row \in Returned'
          OBVIOUS
        <4>2. /\ page \in Seq(Rows)
              /\ Len(page) = IF from + PageLimit <= Len(s) THEN PageLimit
                             ELSE IF from < Len(s) THEN Len(s) - from ELSE 0
              /\ \A i \in 1..Len(page) : from + i \in 1..Len(s) /\ page[i] = s[from + i]
          BY <4>0, SliceFacts, Zenon
        <4> HIDE DEF page
        <4>3. k - from \in 1..Len(page) /\ from + (k - from) = k
          BY <3>3, <3>5, <3>6, <3>8, <4>1, <4>2
        <4>4. page[k - from] = row
          BY <3>7, <4>2, <4>3
        <4>5. row \in ToSet(page)
          BY <4>2, <4>3, <4>4 DEF ToSet
        <4>6. answers'[n + 1].rows = page /\ n + 1 \in DOMAIN answers'
          BY <3>1 DEF page
        <4> QED  BY <4>5, <4>6 DEF Returned
      <3>10. LastPage'.offset = from /\ LastPage'.limit = PageLimit /\ LastPage'.total = total
        BY <3>1 DEF LastPage
      <3>11. Rank(row) >= from + PageLimit
        BY <3>3, <3>6, <3>8, <3>9
      <3>12. Rank(row) < Cardinality(Rows) /\ Cardinality(Rows) \in Nat
        BY <3>5, RankFacts, RowFacts
      <3>13. from + PageLimit < total + grown' /\ Rank(row)' >= from + PageLimit
        BY <1>1, <3>2, <3>3, <3>11, <3>12
      <3> QED  BY <3>2, <3>10, <3>13 DEF Ahead
    <2>5. \/ Select
          \/ /\ answers' = answers
             /\ UNCHANGED <<stage, offset, grown>> \/ Count \/ PageFails \/ Follow
      BY <1>3 DEF Next, ClientStep, CommitEntry, BeginEntry, Tick, Begin, Count, PageFails,
                  Follow, Over, client, vars
    <2> QED  BY <2>3, <2>4, <2>5
  <1>4. ~Begin => before' = before /\ stage # "idle"
    BY DEF Next, ClientStep, CommitEntry, BeginEntry, Tick, Count, Select, PageFails, Follow,
           Over, client, vars
  <1> QED  BY <1>2, <1>3, <1>4

-----------------------------------------------------------------------------
(* A quiet walk *)

(* Of two rows that stand at different places neither comes before the     *)
(* other against the order, and a row that does not tie has one place.     *)
LEMMA PlacesSort ==
    ASSUME TypeOK, Finite, NEW row \in Rows, NEW other \in Rows, NEW p \in Int, NEW q \in Int,
           p < q, Rank(row) <= p - 1, q <= Upto(other)
    PROVE  ~SortsFirst(other, row) /\ (row = other => HasTie(row))
  <1> DEFINE Below == {r \in Rows : SortsFirst(r, row)}
             Within == {r \in Rows : ~SortsFirst(other, r)}
  <1>1. /\ IsFiniteSet(Below) /\ Cardinality(Below) \in Nat
        /\ IsFiniteSet(Within) /\ Cardinality(Within) \in Nat
    <2>1. Below \in SUBSET Rows /\ Within \in SUBSET Rows
      OBVIOUS
    <2> HIDE DEF Below, Within
    <2> QED  BY <2>1, RowFacts, FS_Subset, FS_CardinalityType
  <1>2. Cardinality(Below) <= p - 1 /\ q <= Cardinality(Within)
    BY DEF Rank, Upto
  <1>3. ASSUME SortsFirst(other, row)
        PROVE  FALSE
    <2>1. Within \in SUBSET Below
      BY <1>3, RowFacts
    <2> HIDE DEF Below, Within
    <2>2. Cardinality(Within) <= Cardinality(Below)
      BY <1>1, <2>1, FS_Subset
    <2> QED  BY <1>1, <1>2, <2>2
  <1>4. ASSUME row = other, ~HasTie(row)
        PROVE  FALSE
    <2>1. Within \in SUBSET (Below \cup {row})
      BY <1>4 DEF HasTie, Tied
    <2> HIDE DEF Below, Within
    <2>2. /\ IsFiniteSet(Below \cup {row})
          /\ Cardinality(Below \cup {row}) =
                IF row \in Below THEN Cardinality(Below) ELSE Cardinality(Below) + 1
      BY <1>1, FS_AddElement
    <2>3. Cardinality(Within) <= Cardinality(Below \cup {row})
      BY <2>1, <2>2, FS_Subset
    <2> QED  BY <1>1, <1>2, <2>2, <2>3
  <1> QED  BY <1>3, <1>4

(* What a quiet walk's next page holds. *)
LEMMA SelectRanked ==
    ASSUME TypeOK, Finite, Quiet, NEW s \in Orders(Rows), NEW from \in Nat
    PROVE  LET page == Slice(s, PageLimit, from) IN
           /\ Len(page) <= PageLimit
           /\ \A k \in DOMAIN page :
                 page[k] \in Rows /\ Rank(page[k]) <= from + k - 1 /\ from + k <= Upto(page[k])
           /\ \A k, l \in DOMAIN page : page[k] = page[l] => k = l
  <1> DEFINE page == Slice(s, PageLimit, from)
  <1>1. /\ s \in Seq(Rows) /\ Len(s) \in Nat
        /\ \A k \in 1..Len(s) : s[k] \in Rows
        /\ \A k, l \in 1..Len(s) : s[k] = s[l] => k = l
    BY RowFacts, OrderFacts
  <1>2. PageLimit \in Nat
    BY RequestFacts
  <1>3. /\ page \in Seq(Rows)
        /\ Len(page) = IF from + PageLimit <= Len(s) THEN PageLimit
                       ELSE IF from < Len(s) THEN Len(s) - from ELSE 0
        /\ \A k \in 1..Len(page) : from + k \in 1..Len(s) /\ page[k] = s[from + k]
    BY <1>1, <1>2, SliceFacts, Zenon
  <1> HIDE DEF page
  <1>4. DOMAIN page = 1..Len(page)
    BY <1>3
  <1>5. ASSUME NEW k \in DOMAIN page
        PROVE  page[k] \in Rows /\ Rank(page[k]) <= from + k - 1 /\ from + k <= Upto(page[k])
    <2>1. from + k \in 1..Len(s) /\ page[k] = s[from + k]
      BY <1>3, <1>4
    <2>2. s[from + k] \in Rows
      BY <1>1, <2>1
    <2>3. ~SortsFirst(s[from + k], s[from + k])
      BY <2>2, RowFacts
    <2>4. Rank(s[from + k]) <= (from + k) - 1 /\ from + k <= Upto(s[from + k])
      BY <2>1, <2>3, RowFacts, Between
    <2>5. k \in Int /\ (from + k) - 1 = from + k - 1
      BY <1>3, <1>4
    <2> QED  BY <2>1, <2>2, <2>4, <2>5
  <1>6. Len(page) <= PageLimit
    BY <1>1, <1>2, <1>3
  <1>7. ASSUME NEW k \in DOMAIN page, NEW l \in DOMAIN page, page[k] = page[l]
        PROVE  k = l
    <2>1. /\ from + k \in 1..Len(s) /\ page[k] = s[from + k]
          /\ from + l \in 1..Len(s) /\ page[l] = s[from + l]
          /\ k \in Int /\ l \in Int
      BY <1>3, <1>4
    <2>2. from + k = from + l
      BY <1>1, <1>7, <2>1
    <2> QED  BY <2>1, <2>2
  <1> QED  BY <1>5, <1>6, <1>7 DEF page

LEMMA StepRanked ==
    ASSUME TypeOK, Finite, Pages, Ranked, Next
    PROVE  Ranked'
  <1>0. TypeOK' /\ Finite'
    BY StepTypes
  <1>1. /\ req' = req /\ entries \subseteq entries' /\ PageLimit' = PageLimit
        /\ Rows' = Rows => \A row : Rank(row)' = Rank(row) /\ Upto(row)' = Upto(row)
    BY <1>0, Grows DEF PageLimit
  <1>2. stage' = "idle" => answers' = <<>> /\ grown' = 0
    BY DEF Ranked, Next, ClientStep, CommitEntry, BeginEntry, Tick, Begin, Count, Select,
           PageFails, Follow, Over, client, vars
  <1> DEFINE Apart == \A i, j \in DOMAIN answers :
                 i < j => answers[i].page.offset + PageLimit <= answers[j].page.offset
             Behind == stage \in {"asked", "counted"} =>
                 \A i \in DOMAIN answers :
                     answers[i].page.offset + PageLimit <= ClampOffset(offset)
             Exact == grown = 0 /\ (stage = "counted" => total = Cardinality(Rows))
             AllRanked == \A i \in DOMAIN answers : RankedPage(answers[i])
  <1>3. Quiet /\ stage # "idle" => Apart /\ Behind /\ Exact /\ AllRanked
    BY DEF Ranked
  <1>4. ASSUME Quiet' => Apart' /\ Behind' /\ Exact' /\ AllRanked'
        PROVE  Ranked'
    BY <1>2, <1>4 DEF Ranked
  <1> HIDE DEF Apart, Behind, Exact, AllRanked
  <1> SUFFICES ASSUME Quiet'
               PROVE  Apart' /\ Behind' /\ Exact' /\ AllRanked'
    BY <1>4
  <1>5. CASE Begin
    <2>1. answers' = <<>> /\ grown' = 0 /\ stage' = "asked"
      BY <1>5 DEF Begin, Ranked
    <2> QED  BY <2>1 DEF Apart, Behind, Exact, AllRanked
  <1>6. CASE before' = before /\ stage # "idle"
    <2>1. Rows' = Rows
      BY <1>1, <1>6 DEF Quiet, Rows, Matching, Finite
    <2>2. Quiet
      BY <1>1, <1>6, <2>1 DEF Quiet, Finite, Proper, FromTop
    <2>3. Apart /\ Behind /\ Exact /\ AllRanked
      BY <1>3, <1>6, <2>2
    <2>4. ASSUME NEW i \in DOMAIN answers', RankedPage(answers'[i])
          PROVE  RankedPage(answers[i])'
      BY <1>1, <2>1, <2>4 DEF RankedPage
    <2>5. CASE answers' = answers
      <3>1. AllRanked'
        BY <2>3, <2>4, <2>5 DEF AllRanked
      <3>2. Apart'
        BY <1>1, <2>3, <2>5 DEF Apart
      <3>3. CASE UNCHANGED <<stage, offset, grown, total>>
        BY <1>1, <2>1, <2>3, <2>5, <3>1, <3>2, <3>3 DEF Behind, Exact
      <3>4. CASE Count
        BY <1>1, <2>1, <2>3, <2>5, <3>1, <3>2, <3>4 DEF Behind, Exact, Count
      <3>5. CASE PageFails
        BY <1>1, <2>1, <2>3, <2>5, <3>1, <3>2, <3>5 DEF Behind, Exact, PageFails
      <3>6. CASE Follow
        <4> DEFINE n == Len(answers)
                   last == answers[n].page
        <4>1. n \in DOMAIN answers
          BY <3>6 DEF Follow, Pages, TypeOK
        <4>2. n \in Nat /\ DOMAIN answers = 1..n
          BY <4>1, AnswerFacts
        <4>3. /\ last.limit = PageLimit /\ last.offset >= 0 /\ last.offset \in Int
              /\ PageLimit \in Nat
          BY <2>2, <4>1, AnswerFacts, RequestFacts DEF Pages, Quiet
        <4>4. offset' = last.offset + last.limit /\ grown' = grown
          BY <3>6 DEF Follow
        <4>5. stage' # "counted"
          BY <3>6 DEF Follow
        <4> HIDE DEF n
        <4>6. ASSUME NEW i \in DOMAIN answers
              PROVE  answers[i].page.offset + PageLimit <= last.offset + PageLimit
          <5>1. CASE i = n
            BY <4>3, <5>1
          <5>2. CASE i < n
            <6>1. answers[i].page.offset + PageLimit <= last.offset
              BY <2>3, <4>1, <5>2 DEF Apart
            <6>2. answers[i].page.offset \in Int
              BY AnswerFacts
            <6> HIDE DEF last
            <6> QED  BY <4>3, <6>1, <6>2
          <5> QED  BY <4>2, <5>1, <5>2
        <4> HIDE DEF last
        <4>7. ClampOffset(offset') = last.offset + PageLimit
          BY <4>3, <4>4, OffsetFacts
        <4>8. Behind'
          BY <1>1, <2>5, <4>6, <4>7 DEF Behind
        <4>9. Exact'
          BY <2>3, <4>4, <4>5 DEF Exact
        <4> QED  BY <3>1, <3>2, <4>8, <4>9
      <3>7. UNCHANGED <<stage, offset, grown, total>> \/ Count \/ PageFails \/ Follow \/ Select
        BY <1>6 DEF Next, ClientStep, CommitEntry, BeginEntry, Tick, Begin, Over, client, vars
      <3>8. ~Select
        BY <2>5, SelectFacts
      <3> QED  BY <3>3, <3>4, <3>5, <3>6, <3>7, <3>8
    <2>6. CASE Select
      <3> DEFINE n == Len(answers)
                 from == ClampOffset(offset)
      <3>1. PICK s \in Orders(Rows) :
               /\ n \in Nat /\ DOMAIN answers = 1..n /\ DOMAIN answers' = 1..(n + 1)
               /\ \A i \in 1..n : answers'[i] = answers[i]
               /\ answers'[n + 1].rows = Slice(s, PageLimit, from)
               /\ Proper(req) => answers'[n + 1].page.offset = from
        BY <2>6, SelectFacts
      <3>2. answers'[n + 1].page.offset = from
        BY <2>2, <3>1 DEF Quiet
      <3>3. from \in Nat
        BY OffsetFacts DEF TypeOK
      <3>4. \A i \in 1..n : answers[i].page.offset + PageLimit <= from
        BY <2>3, <2>6, <3>1 DEF Select, Behind
      <3>5. grown' = 0 /\ stage' = "answered"
        BY <2>3, <2>6, RowFacts DEF Select, Exact
      <3> HIDE DEF n, from
      <3>6. RankedPage(answers'[n + 1])
        BY <2>2, <3>1, <3>2, <3>3, SelectRanked DEF RankedPage
      <3>7. ASSUME NEW i \in DOMAIN answers'
            PROVE  RankedPage(answers'[i])
        <4>1. CASE i = n + 1
          BY <3>6, <4>1
        <4>2. CASE i \in 1..n
          BY <2>3, <3>1, <4>2 DEF AllRanked
        <4> QED  BY <3>1, <4>1, <4>2
      <3>8. AllRanked'
        BY <2>4, <3>7 DEF AllRanked
      <3>9. Apart'
        <4>1. SUFFICES ASSUME NEW i \in DOMAIN answers', NEW j \in DOMAIN answers', i < j
                       PROVE  answers'[i].page.offset + PageLimit <= answers'[j].page.offset
          BY <1>1 DEF Apart
        <4>2. CASE j = n + 1
          BY <3>1, <3>2, <3>4, <4>1, <4>2
        <4>3. CASE j \in 1..n
          BY <2>3, <3>1, <4>1, <4>3 DEF Apart
        <4> QED  BY <3>1, <4>2, <4>3
      <3> QED  BY <3>5, <3>8, <3>9 DEF Exact, Behind
    <2>7. answers' = answers \/ Select
      BY <1>6 DEF Next, ClientStep, CommitEntry, BeginEntry, Tick, Begin, Count, PageFails,
                  Follow, Over, client, vars
    <2> QED  BY <2>5, <2>6, <2>7
  <1>7. ~Begin => before' = before /\ stage # "idle"
    <2>1. stage' # "idle"
      BY DEF Quiet
    <2> QED  BY <2>1 DEF Next, ClientStep, CommitEntry, BeginEntry, Tick, Count, Select,
                         PageFails, Follow, Over, client, vars
  <1> QED  BY <1>5, <1>6, <1>7

-----------------------------------------------------------------------------
(* The properties *)

(* The three properties in one invariant, with what they rest on.          *)
ListingInv == TypeOK /\ Finite /\ Pages /\ Counted /\ NoShortPage /\ Reach /\ Ranked

LEMMA InitListingInv == Init => ListingInv
  <1> SUFFICES ASSUME Init PROVE ListingInv
    OBVIOUS
  <1>1. Counted /\ NoShortPage /\ Reach /\ Ranked
    BY DEF Init, Counted, NoShortPage, Reach, Ranked, Quiet
  <1> QED  BY <1>1, InitTypes DEF ListingInv

LEMMA StepListingInv == ListingInv /\ [Next]_vars => ListingInv'
  <1> SUFFICES ASSUME ListingInv, [Next]_vars PROVE ListingInv'
    OBVIOUS
  <1>1. CASE Next
    BY <1>1, StepTypes, StepPages, StepCounted, StepNoShortPage, StepReach, StepRanked
    DEF ListingInv
  <1>2. CASE UNCHANGED vars
    <2> USE <1>2 DEF vars, client
    <2>1. TypeOK' /\ Finite' /\ Pages'
      BY DEF ListingInv, TypeOK, Finite, Pages, PageLimit, Proper
    <2>2. Counted' /\ NoShortPage'
      BY DEF ListingInv, Counted, NoShortPage, Rows, Matching, Proper
    <2>3. Reach'
      BY DEF ListingInv, Reach, FirstRows, Returned, HasTie, Ahead, Rank, LastPage, Rows,
             Matching, Tied, SortsFirst, SortKey, Proper, FromTop
    <2>4. Ranked'
      <3>1. Rows' = Rows /\ PageLimit' = PageLimit
        BY DEF Rows, Matching, PageLimit
      <3>2. \A row : Rank(row)' = Rank(row)
        BY <3>1 DEF Rank, SortsFirst, SortKey
      <3>3. \A row : Upto(row)' = Upto(row)
        BY <3>1 DEF Upto, SortsFirst, SortKey
      <3>4. Quiet' <=> Quiet
        BY DEF Quiet, Proper, FromTop
      <3>5. \A i \in DOMAIN answers : RankedPage(answers[i]) => RankedPage(answers[i])'
        BY <3>1, <3>2, <3>3 DEF RankedPage
      <3> QED  BY <3>1, <3>4, <3>5 DEF ListingInv, Ranked
    <2> QED  BY <2>1, <2>2, <2>3, <2>4 DEF ListingInv
  <1> QED  BY <1>1, <1>2

LEMMA ListingInvHolds == Spec => []ListingInv
  BY InitListingInv, StepListingInv, PTL DEF Spec

(* A page holds no fewer rows than the pagination beside it promises,      *)
(* however many entries are committed between its COUNT and its SELECT.    *)
THEOREM NoShortPageCorrect == Spec => []NoShortPage
  <1>1. ListingInv => NoShortPage
    BY DEF ListingInv
  <1> QED  BY <1>1, ListingInvHolds, PTL

(* A walk from the top that ended missed a row of the beginning only when  *)
(* the row ties with another or entries arrived after the last COUNT.      *)
THEOREM MissedNeedsRaceCorrect == Spec => []MissedNeedsRace
  <1>1. ListingInv => MissedNeedsRace
    BY DEF ListingInv, Reach, MissedNeedsRace, FirstRows, HasTie, Ahead
  <1> QED  BY <1>1, ListingInvHolds, PTL

(* The pages of a walk during which nothing arrived are in the order asked *)
(* for; a row is missing or comes twice only if it ties with another one.  *)
THEOREM QuietWalkIsExactCorrect == Spec => []QuietWalkIsExact
  <1>1. ListingInv => QuietWalkIsExact
    <2> SUFFICES ASSUME ListingInv,
                        stage = "done", Proper(req), FromTop(req),
                        req.list = "audit" => entries = before
                 PROVE  /\ Returned \subseteq Rows
                        /\ \A row \in Rows \ Returned : HasTie(row)
                        /\ \A i, j \in DOMAIN answers :
                              \A k \in DOMAIN answers[i].rows, l \in DOMAIN answers[j].rows :
                                 LET row == answers[i].rows[k]
                                     other == answers[j].rows[l]
                                 IN  i < j \/ (i = j /\ k < l) =>
                                        /\ InOrder(row, other)
                                        /\ row = other => i < j /\ HasTie(row)
      BY DEF QuietWalkIsExact
    <2>1. TypeOK /\ Finite /\ Reach /\ Ranked
      BY DEF ListingInv
    <2>2. Quiet
      BY DEF Quiet
    <2>3. /\ grown = 0
          /\ \A i \in DOMAIN answers : RankedPage(answers[i])
          /\ \A i, j \in DOMAIN answers :
                i < j => answers[i].page.offset + PageLimit <= answers[j].page.offset
      BY <2>1, <2>2 DEF Ranked
    <2>4. \A row \in Rows \ Returned : HasTie(row)
      <3>1. FirstRows = Rows
        BY DEF FirstRows, Rows
      <3> QED  BY <2>1, <2>3, <3>1 DEF Reach, Ahead
    <2>5. Returned \subseteq Rows
      <3> SUFFICES ASSUME NEW i \in DOMAIN answers, NEW row \in ToSet(answers[i].rows)
                   PROVE  row \in Rows
        BY DEF Returned
      <3>1. PICK k \in DOMAIN answers[i].rows : answers[i].rows[k] = row
        BY DEF ToSet
      <3> QED  BY <2>3, <3>1 DEF RankedPage
    <2>6. ASSUME NEW i \in DOMAIN answers, NEW j \in DOMAIN answers,
                 NEW k \in DOMAIN answers[i].rows, NEW l \in DOMAIN answers[j].rows,
                 i < j \/ (i = j /\ k < l)
          PROVE  /\ InOrder(answers[i].rows[k], answers[j].rows[l])
                 /\ answers[i].rows[k] = answers[j].rows[l] =>
                       i < j /\ HasTie(answers[i].rows[k])
      <3> DEFINE row == answers[i].rows[k]
                 other == answers[j].rows[l]
                 top == answers[i].page.offset
                 next == answers[j].page.offset
      <3>1. /\ row \in Rows /\ Rank(row) <= top + k - 1
            /\ other \in Rows /\ next + l <= Upto(other)
        BY <2>3 DEF RankedPage
      <3>2. top \in Int /\ next \in Int /\ PageLimit \in Nat
        BY <2>1, AnswerFacts, RequestFacts
      <3>3. k \in 1..Len(answers[i].rows) /\ Len(answers[i].rows) \in Nat
        <4>1. answers[i].rows \in Seq(Entries \cup Catalog)
          BY <2>1, AnswerFacts
        <4> QED  BY <4>1
      <3>4. l \in 1..Len(answers[j].rows) /\ Len(answers[j].rows) \in Nat
        <4>1. answers[j].rows \in Seq(Entries \cup Catalog)
          BY <2>1, AnswerFacts
        <4> QED  BY <4>1
      <3>5. k <= PageLimit
        BY <2>3, <3>2, <3>3 DEF RankedPage
      <3>6. i < j => top + PageLimit <= next
        BY <2>3
      <3>7. i = j => top = next
        OBVIOUS
      <3>8. i = j /\ row = other => k = l
        BY <2>3 DEF RankedPage
      <3>9. i \in Int /\ j \in Int
        BY <2>1, AnswerFacts
      <3> HIDE DEF row, other, top, next
      <3>10. top + k \in Int /\ next + l \in Int /\ top + k < next + l
        BY <2>6, <3>2, <3>3, <3>4, <3>5, <3>6, <3>7
      <3>11. Rank(row) <= (top + k) - 1
        BY <3>1, <3>2, <3>3
      <3>12. ~SortsFirst(other, row) /\ (row = other => HasTie(row))
        BY <2>1, <3>1, <3>10, <3>11, PlacesSort
      <3>13. InOrder(row, other)
        BY <2>1, <3>1, <3>12, RowFacts
      <3>14. row = other => i < j
        BY <2>6, <3>3, <3>4, <3>8, <3>9
      <3> QED  BY <3>12, <3>13, <3>14 DEF row, other
    <2> QED  BY <2>4, <2>5, <2>6
  <1> QED  BY <1>1, ListingInvHolds, PTL
=============================================================================
