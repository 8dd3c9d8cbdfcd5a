------------------------------- MODULE Browse -------------------------------
(***************************************************************************)
(* What the control URLs compute: the answers of HandleContentDirectory-   *)
(* Control and HandleConnectionManagerControl (src/contentdirectory.cpp),  *)
(* with the order, the criteria and the paging of results.  The catalog    *)
(* they read is an argument; the search cache is module ContentDirectory.  *)
(***************************************************************************)
EXTENDS Integers, FiniteSets, SequencesExt

CONSTANT MaxPage   \* kMaxBrowseResponseItems

ASSUME PageAssumption == MaxPage \in Nat \ {0}

Missing == -1   \* an argument that is absent or empty
Bad     == -2   \* one that is no number, or a negative one

-----------------------------------------------------------------------------
(* Titles: sequences of letters [ch, upper] and runs of digits [num, width] *)
(* in the order characters have: a digit is before every letter.            *)
IsRun(t) == "num" \in DOMAIN t
SameToken(s, t) ==
  IF IsRun(s) /\ IsRun(t) THEN s.num = t.num
  ELSE ~IsRun(s) /\ ~IsRun(t) /\ s.ch = t.ch
TokenLess(s, t) ==
  \/ IsRun(s) /\ IsRun(t) /\ s.num < t.num
  \/ IsRun(s) /\ ~IsRun(t)
  \/ ~IsRun(s) /\ ~IsRun(t) /\ s.ch < t.ch

Chars(l) == FoldFunction(+, 0, [i \in DOMAIN l |-> IF IsRun(l[i]) THEN l[i].width ELSE 1])

(* NaturalLessWide: the first pair of tokens that differ decides, and else *)
(* the number of characters.                                               *)
NaturalLess(l, r) ==
  LET both == DOMAIN l \cap DOMAIN r
      differ == {i \in both : ~SameToken(l[i], r[i])}
  IN  IF differ = {} THEN Chars(l) < Chars(r)
      ELSE LET i == CHOOSE j \in differ : \A k \in differ : j <= k IN TokenLess(l[i], r[i])

(* SortItems' comparison of two items [title, class] *)
SortsBefore(a, b, byClass, descending) ==
  LET l == IF byClass THEN a.class ELSE a.title
      r == IF byClass THEN b.class ELSE b.title
  IN  IF l = r THEN NaturalLess(a.title, b.title)
      ELSE IF descending THEN ~NaturalLess(l, r) ELSE NaturalLess(l, r)

(* What std::sort asks of a comparison *)
StrictWeakOrder(S, Before(_, _)) ==
  /\ \A a \in S : ~Before(a, a)
  /\ \A a, b, c \in S : Before(a, b) /\ Before(b, c) => Before(a, c)
  /\ \A a, b, c \in S : /\ ~Before(a, b) /\ ~Before(b, a)
                        /\ ~Before(b, c) /\ ~Before(c, b)
                        => ~Before(a, c) /\ ~Before(c, a)

Letter(c, u) == [ch |-> c, upper |-> u]
Digits(n, w) == [num |-> n, width |-> w]

(* Two runs of digits are never side by side. *)
Title(A) == {t \in SeqOf(A, 3) : \A i \in 1 .. Len(t) - 1 : ~(IsRun(t[i]) /\ IsRun(t[i + 1]))}

(* The ascending order is one that std::sort may be given as long as no    *)
(* number has leading zeros.                                               *)
ASSUME TitleOrder ==
  StrictWeakOrder(Title({Letter(1, FALSE), Letter(1, TRUE), Digits(1, 1), Digits(2, 1)}), NaturalLess)

(* With them (a01, a1a, a1b) it is not; and of two titles that differ in   *)
(* case only each is before the other when the order is descending.        *)
ASSUME TitlesWithoutOrder ==
  LET a == Letter(1, FALSE)
      padded == {<<a, Digits(1, 2)>>, <<a, Digits(1, 1), a>>, <<a, Digits(1, 1), Letter(2, FALSE)>>}
      cases  == {[title |-> <<Letter(1, u)>>, class |-> <<>>] : u \in BOOLEAN}
  IN  /\ ~StrictWeakOrder(padded, NaturalLess)
      /\ ~StrictWeakOrder(cases, LAMBDA x, y : SortsBefore(x, y, FALSE, TRUE))

-----------------------------------------------------------------------------
(* Search criteria: the clauses that occur, in any order and however they  *)
(* are joined.  Each clause has a quoted value or none; the value taken    *)
(* goes from the first quote to the last, so two of them match nothing.    *)
Clause == {"title contains", "class derived from", "class equals", "other"}
Quoted(criteria) == {k \in criteria : k # "other"}

(* `holds` are the clauses true of the item. *)
MatchesSearchCriteria(holds, criteria) ==
  \/ criteria = {}
  \/ Cardinality(Quoted(criteria)) = 1 /\ Quoted(criteria) \subseteq holds

(* docs/Protocol-Reference.md: one condition is understood, conditions that *)
(* are joined match nothing.                                                *)
DocumentedMatch(holds, criteria) ==
  criteria = {} \/ (Cardinality(criteria) = 1 /\ criteria \subseteq holds \ {"other"})

(* They agree but for a condition joined with one that has no value, which  *)
(* the code takes for the condition alone.                                  *)
ASSUME CriteriaAgree ==
  \A holds, criteria \in SUBSET Clause :
    MatchesSearchCriteria(holds, criteria) /\ ~DocumentedMatch(holds, criteria)
      => "other" \in criteria /\ Cardinality(criteria) = 2

-----------------------------------------------------------------------------
(* Paging: the indexes of a list of n that a page holds *)
Lesser(a, b) == IF a < b THEN a ELSE b
ClampBrowseRequestedCount(count, available) ==
  Lesser(IF count = 0 THEN available ELSE Lesser(count, available), MaxPage)

Page(n, start, count) ==
  start + 1 .. start + ClampBrowseRequestedCount(count, IF start >= n THEN 0 ELSE n - start)

-----------------------------------------------------------------------------
(* Control calls.  An object is one of the catalog or one of these: *)
NoObject == {"missing", "bad", "gone"}
CallOf(actions, objects, flags, starts, counts, criteria) ==
  [action : actions, object : objects, flag : flags, start : starts, count : counts, criteria : criteria]

Simple == {"GetSystemUpdateID", "GetSearchCapabilities", "GetSortCapabilities"}
Object == NoObject \cup {"file", "folder"}
Number == {Missing, Bad, 0, 1, 2}
CDCall ==
  CallOf(Simple \cup {"malformed", "unknown"}, {"missing"}, {"missing"}, {Missing}, {Missing}, {"missing"})
    \cup CallOf({"Browse"}, Object, {"missing", "metadata", "children", "other"}, {0}, {0}, {"missing"})
    \cup CallOf({"Browse"}, {"folder"}, {"children"}, Number, Number, {"missing"})
    \cup CallOf({"Search"}, Object, {"missing"}, {Missing, Bad, 1}, {0, 2}, {"missing", "any"})
CMCall ==
  CallOf({"malformed", "unknown", "GetProtocolInfo", "GetCurrentConnectionIDs"},
       {"missing"}, {"missing"}, {Missing}, {Missing}, {"missing"})
    \cup CallOf({"GetCurrentConnectionInfo"}, {"missing"}, {"missing"}, {Missing, Bad, 0, 1}, {Missing}, {"missing"})

Absent(c, args) ==
  \E a \in args : IF a \in {"start", "count"} THEN c[a] = Missing ELSE c[a] = "missing"
Unusable(c) == c.object = "bad" \/ c.start = Bad \/ c.count = Bad

(* The error of a call, 0 if there is none; `ready`: the catalog has a root. *)
SearchFault(c) ==
  IF Absent(c, {"object", "start", "count", "criteria"}) \/ Unusable(c) THEN 402
  ELSE IF c.object = "gone" THEN 701 ELSE 0

BrowseFault(c) ==
  IF Absent(c, {"object", "flag"}) THEN 401
  ELSE IF Absent(c, {"start", "count"}) \/ Unusable(c) \/ c.flag = "other" THEN 402
  ELSE IF c.object = "gone" THEN 701
  ELSE IF c.flag = "children" /\ c.object = "file" THEN 706 ELSE 0

ContentDirectoryFault(c, ready) ==
  CASE c.action = "malformed" -> 400
    [] c.action = "unknown"   -> 401
    [] c.action \in Simple    -> 0
    [] ~ready                 -> 710
    [] c.action = "Search"    -> SearchFault(c)
    [] OTHER                  -> BrowseFault(c)

ConnectionManagerFault(c) ==
  CASE c.action = "malformed" -> 400
    [] c.action = "unknown"   -> 401
    [] c.action = "GetCurrentConnectionInfo" /\ c.start = Missing -> 402
    [] c.action = "GetCurrentConnectionInfo" /\ c.start # 0       -> 706
    [] OTHER -> 0

(* BrowseSearchResponse: the page of the n results, and how many there are.  *)
(* BrowseMetadata has one, the object itself.                                *)
Results(c, n) == IF c.action = "Browse" /\ c.flag = "metadata" THEN 1 ELSE n
Answered(c, n) == [fault |-> 0, page |-> Page(Results(c, n), c.start, c.count), matches |-> Results(c, n)]
Faulted(f) == [fault |-> f, page |-> {}, matches |-> 0]
=============================================================================
