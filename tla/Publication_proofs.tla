-------------------------- MODULE Publication_proofs --------------------------
(***************************************************************************)
(* Proofs about ReleaseCycle and Publication for any tasks, artifacts,     *)
(* rivals and number of runs, versions and publications.                   *)
(*                                                                         *)
(* Everything rests on one fact about the stored runs: they are only added *)
(* to, and so are the versions.  An entry of the manifest, which was made  *)
(* of the runs of its day, therefore keeps telling the truth about them.   *)
(***************************************************************************)
EXTENDS Publication, FiniteSetTheorems, SequenceTheorems, NaturalsInduction,
        WellFoundedInduction, TLAPS

-----------------------------------------------------------------------------
(* The operators that choose.                                              *)

\* A set of indices of a sequence has a largest one.
LEMMA TopExists ==
  ASSUME NEW n \in Nat, NEW S \in SUBSET (1 .. n), S # {}
  PROVE  \E m \in S : \A k \in S : k <= m
  <1> DEFINE R == OpToRel(<, Nat)
             Over == {m \in Nat : \A k \in S : k <= m}
  <1>1. n \in Over
    OBVIOUS
  <1>2. IsWellFoundedOn(R, Nat)
    BY NatLessThanWellFounded
  <1>3. PICK m \in Over : \A y \in Over : <<y, m>> \notin R
    <2> HIDE DEF R
    <2>1. Over \subseteq Nat /\ Over # {}
      BY <1>1
    <2> HIDE DEF Over
    <2> QED
      BY <1>2, <2>1, WFMin, Zenon
  <1>4. \A y \in Over : ~(y < m)
    BY <1>3 DEF OpToRel
  <1>5. PICK s \in S : TRUE
    OBVIOUS
  <1>6. m \in Nat /\ s <= m /\ s \in 1 .. n /\ m # 0
    BY <1>5
  <1>7. m - 1 \notin Over
    BY <1>4, <1>6
  <1>8. PICK k \in S : ~(k <= m - 1)
    BY <1>6, <1>7
  <1>9. k <= m /\ k \in 1 .. n
    BY <1>8
  <1>10. k = m
    BY <1>6, <1>8, <1>9
  <1> QED
    BY <1>8, <1>10

\* Max is that one.
LEMMA MaxIs ==
  ASSUME NEW n \in Nat, NEW S \in SUBSET (1 .. n), S # {}
  PROVE  Max(S) \in S /\ \A k \in S : k <= Max(S)
  <1>1. \E m \in S : \A k \in S : m >= k
    BY TopExists
  <1>2. Max(S) \in S /\ \A k \in S : Max(S) >= k
    BY <1>1 DEF Max
  <1> QED
    BY <1>2

\* Nothing else is.
LEMMA MaxUnique ==
  ASSUME NEW n \in Nat, NEW S \in SUBSET (1 .. n), NEW m \in S, \A k \in S : k <= m
  PROVE  Max(S) = m
  <1>1. Max(S) \in S /\ m <= Max(S)
    BY MaxIs
  <1>2. Max(S) <= m /\ Max(S) \in 1 .. n /\ m \in 1 .. n
    BY <1>1
  <1> QED
    BY <1>1, <1>2

\* The order of keys with three parts.
LEMMA BelowIs ==
  ASSUME NEW a, NEW b, NEW c, NEW x, NEW y, NEW z
  PROVE  Below(<<a, b, c>>, <<x, y, z>>) <=>
           a < x \/ (a = x /\ b < y) \/ (a = x /\ b = y /\ c < z)
  <1>1. 1 .. 3 = {1, 2, 3} /\ 1 .. 0 = {} /\ 1 .. 1 = {1} /\ 1 .. 2 = {1, 2}
    OBVIOUS
  <1>2. 1 - 1 = 0 /\ 2 - 1 = 1 /\ 3 - 1 = 2
    OBVIOUS
  <1> DEFINE k == <<a, b, c>>
             l == <<x, y, z>>
  <1>3. k[1] = a /\ k[2] = b /\ k[3] = c /\ l[1] = x /\ l[2] = y /\ l[3] = z
    OBVIOUS
  <1> HIDE DEF k, l
  <1>4. Below(k, l) <=> \E p \in {1, 2, 3} : k[p] < l[p] /\ \A q \in 1 .. p - 1 : k[q] = l[q]
    BY <1>1 DEF Below
  <1>5. Below(k, l) <=> \/ k[1] < l[1] /\ \A q \in 1 .. 0 : k[q] = l[q]
                        \/ k[2] < l[2] /\ \A q \in 1 .. 1 : k[q] = l[q]
                        \/ k[3] < l[3] /\ \A q \in 1 .. 2 : k[q] = l[q]
    BY <1>2, <1>4
  <1> QED
    BY <1>1, <1>3, <1>5 DEF k, l

-----------------------------------------------------------------------------
(* The stored runs and the versions.                                       *)

Bit == {0, 1}

Run == [task : Task, left : Outcomes, source : [exec : Bit, notes : Bit], harness : Bit, env : Bit]

State == [suite : SUBSET Task, source : [Task -> [exec : Bit, notes : Bit]], harness : Bit,
          env : Bit]

BaseInv ==
  /\ repo \in State /\ edits \in 0 .. EditMax
  /\ versions \in Seq(State) /\ Len(versions) <= VersionMax
  /\ runs \in Seq(Run)
  /\ fresh \in Nat /\ since \in Nat /\ since <= fresh /\ fresh <= Len(runs)

\* The flags and indices of keys are numbers, and the order is total on them.
LEMMA KeysCompared ==
  ASSUME NEW i \in DOMAIN runs, NEW j \in DOMAIN runs, BaseInv
  PROVE  Below(SortKey(i), SortKey(j)) <=>
           LET a == Flag(runs[i].left.harness \in CompletedHarness)
               b == Flag(runs[i].left.tokens)
               x == Flag(runs[j].left.harness \in CompletedHarness)
               y == Flag(runs[j].left.tokens)
           IN a < x \/ (a = x /\ b < y) \/ (a = x /\ b = y /\ i < j)
  BY BelowIs DEF SortKey

\* A set of runs has one that all others are below.
LEMMA BestExists ==
  ASSUME BaseInv, NEW S \in SUBSET DOMAIN runs, S # {}
  PROVE  \E i \in S : \A j \in S \ {i} : Below(SortKey(j), SortKey(i))
  <1> DEFINE f(i) == Flag(runs[i].left.harness \in CompletedHarness)
             g(i) == Flag(runs[i].left.tokens)
             A == IF \E i \in S : f(i) = 1 THEN {i \in S : f(i) = 1} ELSE S
             B == IF \E i \in A : g(i) = 1 THEN {i \in A : g(i) = 1} ELSE A
  <1>1. \A i : f(i) \in {0, 1} /\ g(i) \in {0, 1}
    BY DEF Flag
  <1>2. DOMAIN runs = 1 .. Len(runs) /\ Len(runs) \in Nat
    BY DEF BaseInv
  <1>3. \A i, j \in S : Below(SortKey(j), SortKey(i)) <=>
          f(j) < f(i) \/ (f(j) = f(i) /\ g(j) < g(i)) \/ (f(j) = f(i) /\ g(j) = g(i) /\ j < i)
    BY KeysCompared
  <1> HIDE DEF f, g
  <1>4. /\ A \subseteq S /\ A # {} /\ \A i \in A, j \in S : f(j) <= f(i)
        /\ \A i \in A, j \in S \ A : f(j) < f(i)
    BY <1>1
  <1> HIDE DEF A
  <1>5. /\ B \subseteq A /\ B # {} /\ \A i \in B, j \in A : g(j) <= g(i)
        /\ \A i \in B, j \in A \ B : g(j) < g(i)
    BY <1>1, <1>4
  <1> HIDE DEF B
  <1>6. PICK i \in B : \A j \in B : j <= i
    BY <1>2, <1>4, <1>5, TopExists
  <1>7. ASSUME NEW j \in S \ {i} PROVE Below(SortKey(j), SortKey(i))
    <2>1. i \in S /\ i \in A /\ i \in 1 .. Len(runs) /\ j \in 1 .. Len(runs)
      BY <1>2, <1>4, <1>5
    <2>2. CASE j \notin A
      BY <1>3, <1>4, <2>1, <2>2
    <2>3. CASE j \in A
      <3>1. f(j) <= f(i) /\ f(i) <= f(j) /\ f(i) \in {0, 1} /\ f(j) \in {0, 1}
        BY <1>1, <1>4, <2>1, <2>3
      <3>2. f(j) = f(i)
        BY <3>1
      <3>3. CASE j \notin B
        BY <1>3, <1>5, <2>1, <2>3, <3>2, <3>3
      <3>4. CASE j \in B
        <4>1. g(j) <= g(i) /\ g(i) <= g(j) /\ g(i) \in {0, 1} /\ g(j) \in {0, 1} /\ j <= i
          BY <1>1, <1>5, <1>6, <2>1, <2>3, <3>4
        <4>2. g(j) = g(i) /\ j < i
          BY <2>1, <4>1
        <4> QED
          BY <1>3, <2>1, <3>2, <4>2
      <3> QED
        BY <3>3, <3>4
    <2> QED
      BY <2>2, <2>3
  <1>8. i \in S
    BY <1>4, <1>5
  <1> QED
    BY <1>7, <1>8

\* The index takes such a run of those it sees.
LEMMA SelectedIs ==
  ASSUME BaseInv, NEW t, NEW seen, RunsOf(t) \cap seen # {}
  PROVE  /\ Selected(t, seen) \in RunsOf(t) \cap seen
         /\ \A j \in (RunsOf(t) \cap seen) \ {Selected(t, seen)} :
              Below(SortKey(j), SortKey(Selected(t, seen)))
  <1>1. RunsOf(t) \cap seen \in SUBSET DOMAIN runs
    BY DEF RunsOf
  <1>2. \E i \in RunsOf(t) \cap seen :
          \A j \in (RunsOf(t) \cap seen) \ {i} : Below(SortKey(j), SortKey(i))
    BY <1>1, BestExists
  <1> QED
    BY <1>2, Zenon DEF Selected

\* A completed run with tokens is not displaced by another kind of run.
LEMMA EvidenceSelected ==
  ASSUME BaseInv, NEW t, NEW seen, NEW j \in RunsOf(t) \cap seen,
         runs[j].left.harness \in CompletedHarness, runs[j].left.tokens
  PROVE  LET a == runs[Selected(t, seen)].left IN a.harness \in CompletedHarness /\ a.tokens
  <1> DEFINE i == Selected(t, seen)
  <1>1. i \in RunsOf(t) /\ (j # i => Below(SortKey(j), SortKey(i)))
    BY SelectedIs
  <1>2. i \in DOMAIN runs /\ j \in DOMAIN runs
    BY <1>1 DEF RunsOf
  <1> HIDE DEF i
  <1>3. CASE j # i
    <2>1. Flag(runs[j].left.harness \in CompletedHarness) = 1 /\ Flag(runs[j].left.tokens) = 1
      BY DEF Flag
    <2>2. /\ Flag(runs[i].left.harness \in CompletedHarness) \in {0, 1}
          /\ Flag(runs[i].left.tokens) \in {0, 1}
      BY DEF Flag
    <2>3. Flag(runs[i].left.harness \in CompletedHarness) = 1 /\ Flag(runs[i].left.tokens) = 1
      <3> DEFINE x == Flag(runs[i].left.harness \in CompletedHarness)
                 y == Flag(runs[i].left.tokens)
      <3>1. Below(SortKey(j), SortKey(i)) <=>
              LET c == Flag(runs[j].left.harness \in CompletedHarness)
                  d == Flag(runs[j].left.tokens)
              IN c < x \/ (c = x /\ d < y) \/ (c = x /\ d = y /\ j < i)
        BY <1>2, KeysCompared
      <3>2. 1 < x \/ (1 = x /\ 1 < y) \/ (1 = x /\ 1 = y /\ j < i)
        BY <1>1, <1>3, <2>1, <3>1
      <3>3. x \in {0, 1} /\ y \in {0, 1}
        BY <2>2
      <3> HIDE DEF x, y
      <3>4. x = 1 /\ y = 1
        BY <3>2, <3>3
      <3> QED
        BY <3>4 DEF x, y
    <2> QED
      BY <2>3 DEF Flag, i
  <1> QED
    BY <1>3 DEF i

-----------------------------------------------------------------------------
(* The entry of a version.                                                 *)

\* The row of a task for one of its runs.
RowFor(v, t, i, caveats) ==
  LET a == runs[i].left IN
    [run |-> i,
     completed |-> a.harness \in CompletedHarness,
     tokens |-> a.tokens,
     passed |-> IsPass(a),
     provider_invalid |-> ~IsPass(a) /\ ProviderInvalid(a),
     reusable |-> Counts(a),
     fingerprint |-> Fingerprint(v, t),
     interface |-> Interface(v, t),
     key |-> ResultKey(v, t, caveats)]

ValidIn(rows) == {t \in DOMAIN rows : Valid(rows[t])}
PassedIn(rows) == {t \in DOMAIN rows : rows[t].passed}

\* What some rows make of an entry.
EntryFrom(suite, rows, coverage) ==
  [rows |-> rows,
   caveats |-> [coverage EXCEPT !.invalid = Cardinality(DOMAIN rows \ ValidIn(rows))],
   passed |-> Cardinality(PassedIn(rows)),
   failed |-> Cardinality(ValidIn(rows)) - Cardinality(PassedIn(rows)),
   invalid |-> Cardinality(DOMAIN rows \ ValidIn(rows)),
   status |-> IF DOMAIN rows = suite /\ ValidIn(rows) = suite THEN "complete"
              ELSE IF DOMAIN rows # {} THEN "partial" ELSE "invalid"]

Coverage(partial) == [partial |-> partial, invalid |-> 0]

\* The rows stand for runs of their tasks.
RowsFor(v, rows, partial) ==
  \A t \in DOMAIN rows : \E i \in RunsOf(t) : rows[t] = RowFor(v, t, i, Coverage(partial))

\* An entry that was made of stored runs, then or now.
HasEntry(v, m) ==
  \E rows, partial :
    /\ m = EntryFrom(versions[v].suite, rows, Coverage(partial))
    /\ DOMAIN rows \subseteq versions[v].suite
    /\ RowsFor(v, rows, partial)

\* The entry that is made now is one.
LEMMA EntryMade ==
  ASSUME BaseInv, NEW v \in DOMAIN versions, NEW seen
  PROVE  HasEntry(v, Entry(v, seen))
  <1> DEFINE tasks == versions[v].suite
             covered == {t \in tasks : RunsOf(t) \cap seen # {}}
             partial == IF covered = tasks THEN 0 ELSE Cardinality(covered) + 1
             rows == [t \in covered |-> IndexedRow(v, t, seen, Coverage(partial))]
             valid == {t \in covered : Valid(rows[t])}
             passed == {t \in covered : rows[t].passed}
  <1>1. [NoCaveats EXCEPT !.partial = partial] = Coverage(partial)
    BY DEF NoCaveats, Coverage
  <1>2. Entry(v, seen) =
          [rows |-> rows,
           caveats |-> [Coverage(partial) EXCEPT !.invalid = Cardinality(covered \ valid)],
           passed |-> Cardinality(passed),
           failed |-> Cardinality(valid) - Cardinality(passed),
           invalid |-> Cardinality(covered \ valid),
           status |-> IF covered = tasks /\ valid = tasks THEN "complete"
                      ELSE IF covered # {} THEN "partial" ELSE "invalid"]
    BY <1>1, Zenon DEF Entry
  <1>3. DOMAIN rows = covered /\ covered \subseteq tasks
    OBVIOUS
  <1>4. valid = ValidIn(rows) /\ passed = PassedIn(rows)
    BY <1>3 DEF ValidIn, PassedIn
  <1>5. RowsFor(v, rows, partial)
    <2> SUFFICES ASSUME NEW t \in covered
                 PROVE  \E i \in RunsOf(t) : rows[t] = RowFor(v, t, i, Coverage(partial))
      BY <1>3 DEF RowsFor
    <2>1. rows[t] = IndexedRow(v, t, seen, Coverage(partial))
      OBVIOUS
    <2>2. Selected(t, seen) \in RunsOf(t)
      BY SelectedIs
    <2>3. IndexedRow(v, t, seen, Coverage(partial)) = RowFor(v, t, Selected(t, seen), Coverage(partial))
      BY DEF IndexedRow, RowFor
    <2> QED
      BY <2>1, <2>2, <2>3
  <1> HIDE DEF rows, valid, passed, partial, covered
  <1>6. Entry(v, seen) = EntryFrom(tasks, rows, Coverage(partial))
    BY <1>2, <1>3, <1>4, Zenon DEF EntryFrom
  <1> QED
    BY <1>3, <1>5, <1>6 DEF HasEntry

\* More runs do not change what it tells of the old ones.
LEMMA EntryKept ==
  ASSUME NEW v, NEW m, HasEntry(v, m), versions'[v] = versions[v],
         DOMAIN runs \subseteq DOMAIN runs', \A i \in DOMAIN runs : runs'[i] = runs[i]
  PROVE  HasEntry(v, m)'
  <1>1. PICK rows, partial :
          /\ m = EntryFrom(versions[v].suite, rows, Coverage(partial))
          /\ DOMAIN rows \subseteq versions[v].suite
          /\ RowsFor(v, rows, partial)
    BY DEF HasEntry
  <1>2. RowsFor(v, rows, partial)'
    <2> SUFFICES ASSUME NEW t \in DOMAIN rows
                 PROVE  \E i \in RunsOf(t)' : rows[t] = RowFor(v, t, i, Coverage(partial))'
      BY DEF RowsFor
    <2>1. PICK i \in RunsOf(t) : rows[t] = RowFor(v, t, i, Coverage(partial))
      BY <1>1 DEF RowsFor
    <2>2. i \in RunsOf(t)' /\ runs'[i] = runs[i]
      BY <2>1 DEF RunsOf
    <2>3. RowFor(v, t, i, Coverage(partial))' = RowFor(v, t, i, Coverage(partial))
      BY <2>2 DEF RowFor, Fingerprint, Interface, ResultKey, Coverage
    <2> QED
      BY <2>1, <2>2, <2>3
  <1> QED
    BY <1>1, <1>2 DEF HasEntry

\* What a reader of an entry may rely on.
LEMMA EntryFacts ==
  ASSUME BaseInv, NEW v \in DOMAIN versions, NEW m, HasEntry(v, m)
  PROVE  /\ m.status \in {"complete", "partial", "invalid"}
         /\ DOMAIN m.rows \subseteq versions[v].suite /\ IsFiniteSet(DOMAIN m.rows)
         /\ \A t \in DOMAIN m.rows :
              /\ m.rows[t].run \in RunsOf(t)
              /\ m.rows[t] = RowFor(v, t, m.rows[t].run, Coverage(m.caveats.partial))
         /\ m.status = "complete" =>
              /\ DOMAIN m.rows = versions[v].suite
              /\ \A t \in DOMAIN m.rows : Valid(m.rows[t])
              /\ m.caveats = Coverage(m.caveats.partial)
         /\ m.passed = Cardinality(PassedIn(m.rows))
         /\ m.passed \in Nat
         /\ m.passed + m.failed + m.invalid = Cardinality(DOMAIN m.rows)
  <1>1. PICK rows, partial :
          /\ m = EntryFrom(versions[v].suite, rows, Coverage(partial))
          /\ DOMAIN rows \subseteq versions[v].suite
          /\ RowsFor(v, rows, partial)
    BY DEF HasEntry
  <1> DEFINE suite == versions[v].suite
  <1>2. suite \subseteq Task
    <2>1. versions[v] \in State
      BY DEF BaseInv
    <2> QED
      BY <2>1 DEF State
  <1> HIDE DEF suite
  <1>3. /\ m.rows = rows
        /\ m.caveats = [Coverage(partial) EXCEPT !.invalid = Cardinality(DOMAIN rows \ ValidIn(rows))]
        /\ m.passed = Cardinality(PassedIn(rows))
        /\ m.failed = Cardinality(ValidIn(rows)) - Cardinality(PassedIn(rows))
        /\ m.invalid = Cardinality(DOMAIN rows \ ValidIn(rows))
        /\ m.status = IF DOMAIN rows = suite /\ ValidIn(rows) = suite THEN "complete"
                      ELSE IF DOMAIN rows # {} THEN "partial" ELSE "invalid"
    BY <1>1 DEF EntryFrom, suite
  <1>4. m.caveats.partial = partial
        /\ m.caveats = [partial |-> partial, invalid |-> Cardinality(DOMAIN rows \ ValidIn(rows))]
    <2> DEFINE n == Cardinality(DOMAIN rows \ ValidIn(rows))
    <2>1. m.caveats = [Coverage(partial) EXCEPT !.invalid = n]
      BY <1>3
    <2> HIDE DEF n
    <2>2. m.caveats = [partial |-> partial, invalid |-> n]
      BY <2>1 DEF Coverage
    <2> QED
      BY <2>2 DEF n
  <1>5. \A t \in DOMAIN rows : /\ rows[t].run \in RunsOf(t)
                               /\ rows[t] = RowFor(v, t, rows[t].run, Coverage(partial))
    <2> SUFFICES ASSUME NEW t \in DOMAIN rows
                 PROVE  /\ rows[t].run \in RunsOf(t)
                        /\ rows[t] = RowFor(v, t, rows[t].run, Coverage(partial))
      OBVIOUS
    <2>1. PICK i \in RunsOf(t) : rows[t] = RowFor(v, t, i, Coverage(partial))
      BY <1>1 DEF RowsFor
    <2>2. RowFor(v, t, i, Coverage(partial)).run = i
      BY DEF RowFor
    <2> QED
      BY <2>1, <2>2
  <1>6. IsFiniteSet(DOMAIN rows) /\ DOMAIN rows \subseteq suite
    BY <1>1, <1>2, ReleaseAssumption, FS_Subset DEF suite
  <1>7. ValidIn(rows) \subseteq DOMAIN rows /\ PassedIn(rows) \subseteq ValidIn(rows)
    BY DEF ValidIn, PassedIn, Valid
  <1>8. /\ IsFiniteSet(ValidIn(rows)) /\ IsFiniteSet(PassedIn(rows))
        /\ Cardinality(ValidIn(rows)) \in Nat /\ Cardinality(PassedIn(rows)) \in Nat
        /\ Cardinality(DOMAIN rows) \in Nat
    BY <1>6, <1>7, FS_Subset, FS_CardinalityType
  <1>9. /\ Cardinality(DOMAIN rows \ ValidIn(rows)) = Cardinality(DOMAIN rows) - Cardinality(ValidIn(rows))
    <2>1. DOMAIN rows \cap ValidIn(rows) = ValidIn(rows)
      BY <1>7
    <2> QED
      BY <1>6, <2>1, FS_Difference
  <1>10. m.status = "complete" =>
              /\ DOMAIN rows = suite
              /\ \A t \in DOMAIN rows : Valid(rows[t])
              /\ m.caveats = Coverage(partial)
    <2> SUFFICES ASSUME m.status = "complete"
                 PROVE  /\ DOMAIN rows = suite
                        /\ \A t \in DOMAIN rows : Valid(rows[t])
                        /\ m.caveats = Coverage(partial)
      OBVIOUS
    <2>1. DOMAIN rows = suite /\ ValidIn(rows) = suite
      BY <1>3
    <2>2. Cardinality(DOMAIN rows \ ValidIn(rows)) = 0
      BY <1>8, <1>9, <2>1
    <2> QED
      BY <1>4, <2>1, <2>2 DEF ValidIn, Coverage
  <1>11. m.passed + m.failed + m.invalid = Cardinality(DOMAIN rows)
    BY <1>3, <1>8, <1>9
  <1> QED
    BY <1>3, <1>4, <1>5, <1>6, <1>8, <1>10, <1>11 DEF suite

-----------------------------------------------------------------------------
(* The published table.                                                    *)

\* The rows of a task that the table should be made from.
Covered(t) == {i \in RunsOf(t) : since < i /\ i <= fresh}

BoardRow(t) == IF Covered(t) = {} THEN NoRow ELSE CollectedRow(Max(Covered(t)))

\* The latest of an old row and of later runs.
LEMMA LatestIs ==
  ASSUME BaseInv, NEW row, NEW C \in SUBSET DOMAIN runs,
         row.run \in Nat, \A i \in C : row.run < i
  PROVE  Latest({row} \cup {CollectedRow(i) : i \in C}) =
           IF C = {} THEN row ELSE CollectedRow(Max(C))
  <1> DEFINE rows == {row} \cup {CollectedRow(i) : i \in C}
             best == IF C = {} THEN row ELSE CollectedRow(Max(C))
  <1>1. \A i : CollectedRow(i).run = i
    BY DEF CollectedRow
  <1>2. DOMAIN runs = 1 .. Len(runs) /\ Len(runs) \in Nat
    BY DEF BaseInv
  <1>3. C # {} => Max(C) \in C /\ \A i \in C : i <= Max(C)
    BY <1>2, MaxIs
  <1>4. \A s \in rows : s.run \in Nat
    BY <1>1, <1>2
  <1>5. best \in rows /\ \A s \in rows : s.run <= best.run
    <2>1. CASE C = {}
      BY <2>1
    <2>2. CASE C # {}
      <3>1. best = CollectedRow(Max(C)) /\ best.run = Max(C) /\ best \in rows
        BY <1>1, <1>3, <2>2
      <3>2. row.run <= Max(C) /\ \A i \in C : CollectedRow(i).run <= Max(C)
        BY <1>1, <1>2, <1>3, <2>2
      <3> QED
        BY <3>1, <3>2
    <2> QED
      BY <2>1, <2>2
  <1>6. \A s \in rows : s.run = best.run => s = best
    <2> SUFFICES ASSUME NEW s \in rows, s.run = best.run PROVE s = best
      OBVIOUS
    <2>1. CASE C = {}
      BY <2>1
    <2>2. CASE C # {}
      <3>1. best = CollectedRow(Max(C)) /\ best.run = Max(C) /\ Max(C) \in C
        BY <1>1, <1>3, <2>2
      <3>2. s # row
        BY <1>2, <3>1
      <3>3. PICK i \in C : s = CollectedRow(i)
        BY <3>2
      <3>4. i = Max(C)
        BY <1>1, <3>1, <3>3
      <3> QED
        BY <3>1, <3>3, <3>4
    <2> QED
      BY <2>1, <2>2
  <1> HIDE DEF rows, best
  <1>7. /\ Latest(rows) \in rows
        /\ \A s \in rows : s.run <= Latest(rows).run
    BY <1>5, Zenon DEF Latest
  <1>8. Latest(rows).run = best.run
    <2>1. /\ best.run <= Latest(rows).run /\ Latest(rows).run <= best.run
          /\ best.run \in Nat /\ Latest(rows).run \in Nat
      BY <1>4, <1>5, <1>7
    <2> QED
      BY <2>1
  <1>9. Latest(rows) = best
    BY <1>6, <1>7, <1>8
  <1> QED
    BY <1>9 DEF rows, best

BoardInv == \A t \in Task : board[t] = BoardRow(t)

ManifestInv ==
  /\ DOMAIN manifest = 1 .. VersionMax
  /\ \A v \in 1 .. VersionMax :
       manifest[v] = NoEntry \/ (v \in DOMAIN versions /\ HasEntry(v, manifest[v]))

ReleaseInv == BaseInv /\ ManifestInv /\ BoardInv

\* A row of the table stays when only later runs come.
LEMMA BoardKept ==
  ASSUME BaseInv, BaseInv', BoardInv, UNCHANGED <<board, fresh, since>>,
         DOMAIN runs \subseteq DOMAIN runs', \A i \in DOMAIN runs : runs'[i] = runs[i]
  PROVE  BoardInv'
  <1> SUFFICES ASSUME NEW t \in Task PROVE board'[t] = BoardRow(t)'
    BY DEF BoardInv
  <1>1. /\ DOMAIN runs = 1 .. Len(runs) /\ Len(runs) \in Nat /\ fresh \in Nat
        /\ fresh <= Len(runs) /\ DOMAIN runs' = 1 .. Len(runs')
        /\ Len(runs') \in Nat
    BY DEF BaseInv
  <1>2. Covered(t)' = Covered(t)
    <2>1. \A i \in DOMAIN runs' : i <= fresh => i \in DOMAIN runs
      BY <1>1
    <2> QED
      BY <2>1 DEF Covered, RunsOf
  <1>3. CASE Covered(t) = {}
    BY <1>2, <1>3 DEF BoardInv, BoardRow, NoRow
  <1>4. CASE Covered(t) # {}
    <2>1. PICK m \in Covered(t) : m = Max(Covered(t))
      <3>1. Covered(t) \subseteq 1 .. Len(runs)
        BY <1>1 DEF Covered, RunsOf
      <3> QED
        BY <1>1, <1>4, <3>1, MaxIs
    <2>2. Max(Covered(t))' = m
      BY <1>2, <2>1
    <2>3. runs'[m] = runs[m]
      BY DEF Covered, RunsOf
    <2>4. CollectedRow(m)' = CollectedRow(m)
      BY <2>3 DEF CollectedRow
    <2>5. board[t] = CollectedRow(m)
      BY <1>4, <2>1 DEF BoardInv, BoardRow
    <2>6. BoardRow(t)' = CollectedRow(m)'
      BY <1>2, <1>4, <2>2 DEF BoardRow
    <2> QED
      BY <2>4, <2>5, <2>6
  <1> QED
    BY <1>3, <1>4

\* A workflow that fetches the table adds to it, another one starts a new table.
LEMMA PublishFacts == ASSUME ReleaseInv, Publish PROVE ReleaseInv'
  <1>1. UNCHANGED <<repo, edits, versions, runs, manifest>> /\ fresh' = Len(runs) /\ fresh < Len(runs)
    BY DEF Publish
  <1>2. PICK fetched \in BOOLEAN :
          /\ board' = [t \in Task |->
               LET old == IF fetched THEN {board[t]} ELSE {NoRow}
                   new == {CollectedRow(i) : i \in {j \in RunsOf(t) : j > fresh}}
               IN Latest(old \cup new)]
          /\ since' = IF fetched THEN since ELSE fresh
    BY Zenon DEF Publish
  <1>3. /\ DOMAIN runs = 1 .. Len(runs) /\ Len(runs) \in Nat /\ fresh \in Nat /\ since \in Nat
        /\ since <= fresh
    BY DEF ReleaseInv, BaseInv
  <1>4. BaseInv'
    BY <1>1, <1>2, <1>3 DEF ReleaseInv, BaseInv
  <1>5. ManifestInv'
    <2> SUFFICES ASSUME NEW v \in 1 .. VersionMax, HasEntry(v, manifest[v])
                 PROVE  HasEntry(v, manifest[v])'
      BY <1>1 DEF ReleaseInv, ManifestInv
    <2> DEFINE m == manifest[v]
    <2>1. m' = m
      BY <1>1
    <2> QED
      BY <1>1 DEF HasEntry, RowsFor, RunsOf, RowFor, Fingerprint, Interface, ResultKey
  <1>6. BoardInv'
    <2> SUFFICES ASSUME NEW t \in Task PROVE board'[t] = BoardRow(t)'
      BY DEF BoardInv
    <2> DEFINE C == {j \in RunsOf(t) : j > fresh}
               row == IF fetched THEN board[t] ELSE NoRow
    <2>1. C \in SUBSET DOMAIN runs
      BY DEF RunsOf
    <2>2. board'[t] = Latest({row} \cup {CollectedRow(i) : i \in C})
      <3>1. CASE fetched
        BY <1>2, <3>1
      <3>2. CASE ~fetched
        BY <1>2, <3>2
      <3> QED
        BY <3>1, <3>2
    <2>3. Covered(t) \subseteq 1 .. Len(runs) /\ \A i \in Covered(t) : i <= fresh
      BY <1>3 DEF Covered, RunsOf
    <2>4. row.run \in Nat /\ row.run <= fresh
      <3>1. CASE row = NoRow
        BY <1>3, <3>1 DEF NoRow
      <3>2. CASE fetched /\ Covered(t) # {} /\ row = CollectedRow(Max(Covered(t)))
        <4>1. Max(Covered(t)) \in Covered(t)
          BY <1>3, <2>3, <3>2, MaxIs
        <4> QED
          BY <1>3, <2>3, <3>2, <4>1 DEF CollectedRow
      <3> QED
        BY <3>1, <3>2 DEF ReleaseInv, BoardInv, BoardRow
    <2>5. board'[t] = IF C = {} THEN row ELSE CollectedRow(Max(C))
      <3>1. \A i \in C : row.run < i
        BY <1>3, <2>1, <2>4
      <3> HIDE DEF C, row
      <3> QED
        BY <2>1, <2>2, <2>4, <3>1, LatestIs DEF ReleaseInv
    <2>6. Covered(t)' = IF fetched THEN Covered(t) \cup C ELSE C
      <3>1. Covered(t)' = {i \in RunsOf(t) : since' < i /\ i <= Len(runs)}
        BY <1>1 DEF Covered, RunsOf
      <3>2. RunsOf(t) \subseteq 1 .. Len(runs)
        BY <1>3 DEF RunsOf
      <3>3. CASE fetched
        <4>1. \A i \in RunsOf(t) :
                (since < i /\ i <= Len(runs)) <=> (since < i /\ i <= fresh) \/ i > fresh
          BY <1>3, <3>2
        <4> QED
          BY <1>2, <3>1, <3>3, <4>1 DEF Covered
      <3>4. CASE ~fetched
        <4>1. \A i \in RunsOf(t) : (fresh < i /\ i <= Len(runs)) <=> i > fresh
          BY <1>3, <3>2
        <4> QED
          BY <1>2, <3>1, <3>4, <4>1
      <3> QED
        BY <3>3, <3>4
    <2>7. BoardRow(t)' = IF Covered(t)' = {} THEN NoRow ELSE CollectedRow(Max(Covered(t)'))
      BY <1>1 DEF BoardRow, CollectedRow
    <2>8. CASE C = {}
      <3>1. CASE fetched
        <4>1. Covered(t)' = Covered(t)
          BY <2>6, <2>8, <3>1
        <4>2. board'[t] = BoardRow(t)
          BY <2>5, <2>8, <3>1 DEF ReleaseInv, BoardInv
        <4> QED
          BY <2>7, <4>1, <4>2 DEF BoardRow
      <3>2. CASE ~fetched
        BY <2>5, <2>6, <2>7, <2>8, <3>2
      <3> QED
        BY <3>1, <3>2
    <2>9. CASE C # {}
      <3>1. Max(C) \in C /\ \A i \in C : i <= Max(C)
        BY <1>3, <2>1, <2>9, MaxIs
      <3>2. Max(Covered(t)') = Max(C)
        <4>1. Max(C) \in 1 .. Len(runs) /\ Max(C) > fresh
          BY <1>3, <2>1, <3>1
        <4>2. Covered(t)' \subseteq 1 .. Len(runs) /\ Max(C) \in Covered(t)'
          BY <1>3, <2>1, <2>3, <2>6, <3>1
        <4>3. \A i \in Covered(t)' : i <= Max(C)
          BY <1>3, <2>3, <2>6, <3>1, <4>1
        <4> HIDE DEF C
        <4> QED
          BY <1>3, <4>2, <4>3, MaxUnique
      <3> QED
        BY <2>5, <2>6, <2>7, <2>9, <3>2
    <2> QED
      BY <2>8, <2>9
  <1> QED
    BY <1>4, <1>5, <1>6 DEF ReleaseInv

-----------------------------------------------------------------------------
(* The invariant of ReleaseCycle.                                          *)

\* Runs and versions are only added to.
Grows ==
  /\ DOMAIN versions \subseteq DOMAIN versions'
  /\ \A v \in DOMAIN versions : versions'[v] = versions[v]
  /\ DOMAIN runs \subseteq DOMAIN runs'
  /\ \A i \in DOMAIN runs : runs'[i] = runs[i]

\* An entry that is not made again stays true.
LEMMA ManifestKept ==
  ASSUME ManifestInv, Grows, manifest' = manifest
  PROVE  ManifestInv'
  <1> SUFFICES ASSUME NEW v \in 1 .. VersionMax, manifest[v] # NoEntry
               PROVE  v \in DOMAIN versions' /\ HasEntry(v, manifest[v])'
    BY DEF ManifestInv, NoEntry
  <1>1. PICK m : m = manifest[v]
    OBVIOUS
  <1>2. v \in DOMAIN versions /\ HasEntry(v, m)
    BY <1>1 DEF ManifestInv
  <1>3. HasEntry(v, m)'
    BY <1>2, EntryKept DEF Grows
  <1>4. manifest'[v] = m
    BY <1>1
  <1> QED
    BY <1>2, <1>3, <1>4 DEF Grows, HasEntry

LEMMA InitFacts == Init => ReleaseInv
  <1> SUFFICES ASSUME Init PROVE ReleaseInv
    OBVIOUS
  <1>1. repo \in State
    BY DEF Init, State, Bit
  <1>2. BaseInv
    BY <1>1, ReleaseAssumption DEF Init, BaseInv
  <1>3. ManifestInv
    BY DEF Init, ManifestInv
  <1>4. BoardInv
    BY DEF Init, BoardInv, BoardRow, Covered, RunsOf
  <1> QED
    BY <1>2, <1>3, <1>4 DEF ReleaseInv

LEMMA EditFacts == ASSUME ReleaseInv, Edit PROVE ReleaseInv' /\ Grows
  <1>1. UNCHANGED <<versions, runs, manifest, board, fresh, since>>
    BY DEF Edit
  <1>2. Grows
    BY <1>1 DEF Grows
  <1>3. edits' \in 0 .. EditMax
    BY ReleaseAssumption DEF Edit, ReleaseInv, BaseInv
  <1>4. repo' \in State
    <2>1. repo \in State /\ \A b \in Bit : 1 - b \in Bit
      BY DEF ReleaseInv, BaseInv, Bit
    <2>2. ASSUME NEW t \in Task, repo' = [repo EXCEPT !.source[t].exec = 1 - @]
          PROVE  repo' \in State
      BY <2>1, <2>2 DEF State
    <2>3. ASSUME NEW t \in Task, repo' = [repo EXCEPT !.source[t].notes = 1 - @]
          PROVE  repo' \in State
      BY <2>1, <2>3 DEF State
    <2>4. ASSUME NEW t \in Task,
                 repo' = [repo EXCEPT !.suite = IF t \in @ THEN @ \ {t} ELSE @ \cup {t}]
          PROVE  repo' \in State
      BY <2>1, <2>4 DEF State
    <2>5. CASE repo' = [repo EXCEPT !.harness = 1 - @]
      BY <2>1, <2>5 DEF State
    <2>6. CASE repo' = [repo EXCEPT !.env = 1 - @]
      BY <2>1, <2>6 DEF State
    <2> QED
      BY <2>2, <2>3, <2>4, <2>5, <2>6, Zenon DEF Edit
  <1>5. BaseInv'
    BY <1>1, <1>3, <1>4 DEF ReleaseInv, BaseInv
  <1>6. ManifestInv'
    BY <1>1, <1>2, ManifestKept DEF ReleaseInv
  <1>7. BoardInv'
    BY <1>1, <1>5, BoardKept DEF ReleaseInv
  <1> QED
    BY <1>2, <1>5, <1>6, <1>7 DEF ReleaseInv

LEMMA FreezeFacts == ASSUME ReleaseInv, Freeze PROVE ReleaseInv' /\ Grows
  <1>1. UNCHANGED <<repo, edits, runs, manifest, board, fresh, since>>
    BY DEF Freeze
  <1>2. versions \in Seq(State) /\ repo \in State /\ versions' = Append(versions, repo)
        /\ Len(versions) < VersionMax /\ VersionMax \in Nat
    BY ReleaseAssumption DEF Freeze, ReleaseInv, BaseInv
  <1>3. /\ versions' \in Seq(State) /\ Len(versions') = Len(versions) + 1
        /\ \A v \in 1 .. Len(versions) : versions'[v] = versions[v]
    BY <1>2, AppendProperties
  <1>4. Grows
    BY <1>1, <1>2, <1>3 DEF Grows
  <1>5. BaseInv'
    BY <1>1, <1>2, <1>3 DEF ReleaseInv, BaseInv
  <1>6. ManifestInv'
    BY <1>1, <1>4, ManifestKept DEF ReleaseInv
  <1>7. BoardInv'
    BY <1>1, <1>5, BoardKept DEF ReleaseInv
  <1> QED
    BY <1>4, <1>5, <1>6, <1>7 DEF ReleaseInv

LEMMA RunTaskFacts == ASSUME ReleaseInv, NEW t \in Task, RunTask(t) PROVE ReleaseInv' /\ Grows
  <1>1. UNCHANGED <<repo, edits, versions, manifest, board, fresh, since>>
    BY DEF RunTask
  <1>2. PICK a \in Outcomes :
          runs' = Append(runs, [task |-> t, left |-> a, source |-> repo.source[t],
                                harness |-> repo.harness, env |-> repo.env])
    BY DEF RunTask
  <1> DEFINE new == [task |-> t, left |-> a, source |-> repo.source[t],
                     harness |-> repo.harness, env |-> repo.env]
  <1>3. new \in Run
    BY DEF ReleaseInv, BaseInv, State, Run
  <1>4. runs \in Seq(Run) /\ runs' = Append(runs, new)
    BY <1>2 DEF ReleaseInv, BaseInv
  <1> HIDE DEF new
  <1>5. /\ runs' \in Seq(Run) /\ Len(runs') = Len(runs) + 1
        /\ \A i \in 1 .. Len(runs) : runs'[i] = runs[i]
    BY <1>3, <1>4, AppendProperties
  <1>6. Grows
    BY <1>1, <1>4, <1>5 DEF Grows
  <1>7. BaseInv'
    BY <1>1, <1>4, <1>5 DEF ReleaseInv, BaseInv
  <1>8. ManifestInv'
    BY <1>1, <1>6, ManifestKept DEF ReleaseInv
  <1>9. BoardInv'
    BY <1>1, <1>6, <1>7, BoardKept DEF ReleaseInv, Grows
  <1> QED
    BY <1>6, <1>7, <1>8, <1>9 DEF ReleaseInv

LEMMA RecoverFacts ==
  ASSUME ReleaseInv, NEW v \in 1 .. VersionMax, NEW seen, Recover(v, seen)
  PROVE  ReleaseInv' /\ Grows
  <1>1. /\ UNCHANGED <<repo, edits, versions, runs, board, fresh, since>>
        /\ v \in DOMAIN versions /\ manifest' = [manifest EXCEPT ![v] = Entry(v, seen)]
    BY DEF Recover
  <1>2. Grows
    BY <1>1 DEF Grows
  <1>3. BaseInv'
    BY <1>1 DEF ReleaseInv, BaseInv
  <1>4. ManifestInv'
    <2>1. PICK m : m = Entry(v, seen)
      OBVIOUS
    <2>2. HasEntry(v, m)'
      BY <1>1, <1>2, <2>1, EntryMade, EntryKept DEF Grows, ReleaseInv
    <2>3. DOMAIN manifest' = 1 .. VersionMax /\ manifest'[v] = m
      BY <1>1, <2>1 DEF ReleaseInv, ManifestInv
    <2>4. ASSUME NEW w \in 1 .. VersionMax, w # v, manifest[w] # NoEntry
          PROVE  w \in DOMAIN versions' /\ HasEntry(w, manifest[w])'
      <3>1. PICK n : n = manifest[w]
        OBVIOUS
      <3>2. w \in DOMAIN versions /\ HasEntry(w, n)
        BY <2>4, <3>1 DEF ReleaseInv, ManifestInv
      <3>3. HasEntry(w, n)'
        BY <1>2, <3>2, EntryKept DEF Grows
      <3>4. manifest'[w] = n
        BY <1>1, <2>4, <3>1 DEF ReleaseInv, ManifestInv
      <3> QED
        BY <1>1, <3>2, <3>3, <3>4 DEF HasEntry
    <2>5. v \in DOMAIN versions' /\ HasEntry(v, manifest[v])'
      BY <1>1, <2>2, <2>3 DEF HasEntry
    <2>6. \A w \in 1 .. VersionMax : w # v => manifest'[w] = manifest[w]
      BY <1>1 DEF ReleaseInv, ManifestInv
    <2> SUFFICES ASSUME NEW w \in 1 .. VersionMax
                 PROVE  (manifest[w] = NoEntry)' \/ (w \in DOMAIN versions /\ HasEntry(w, manifest[w]))'
      BY <2>3 DEF ManifestInv
    <2>7. CASE w = v
      BY <2>5, <2>7
    <2>8. CASE w # v /\ manifest[w] = NoEntry
      BY <2>6, <2>8 DEF NoEntry
    <2>9. CASE w # v /\ manifest[w] # NoEntry
      BY <2>4, <2>9
    <2> QED
      BY <2>7, <2>8, <2>9
  <1>5. BoardInv'
    BY <1>1, <1>3, BoardKept DEF ReleaseInv
  <1> QED
    BY <1>2, <1>3, <1>4, <1>5 DEF ReleaseInv

\* A step keeps the invariant, and what was stored stays stored.
LEMMA ReleaseSteps == ASSUME ReleaseInv, [Next]_vars PROVE ReleaseInv' /\ Grows
  <1>1. CASE Publish
    <2>1. ReleaseInv'
      BY <1>1, PublishFacts
    <2> QED
      BY <1>1, <2>1 DEF Publish, Grows
  <1>2. CASE UNCHANGED vars
    <2>1. Grows
      BY <1>2 DEF vars, Grows
    <2>2. BaseInv'
      BY <1>2 DEF vars, ReleaseInv, BaseInv
    <2>3. ManifestInv'
      BY <1>2, <2>1, ManifestKept DEF vars, ReleaseInv
    <2>4. BoardInv'
      BY <1>2, <2>2, BoardKept DEF vars, ReleaseInv
    <2> QED
      BY <2>1, <2>2, <2>3, <2>4 DEF ReleaseInv
  <1> QED
    BY <1>1, <1>2, EditFacts, FreezeFacts, RunTaskFacts, RecoverFacts DEF Next

\* Whatever happens to the repository and in whatever order runs, indexing and
\* workflows follow, stored results stay what they were and every entry and the
\* table say what the stored runs say.
THEOREM StoredTruth == Spec => []ReleaseInv
  <1>1. Init => ReleaseInv
    BY InitFacts
  <1>2. ReleaseInv /\ [Next]_vars => ReleaseInv'
    BY ReleaseSteps
  <1> QED
    BY <1>1, <1>2, PTL DEF Spec

\* What Publication adds leaves the run of ReleaseCycle alone.
LEMMA PagesRefine == PageSpec => Spec
  <1>1. PageInit => Init
    BY DEF PageInit
  <1>2. [PageNext]_allVars => [Next]_vars
    BY DEF PageNext, Aggregate, Package, allVars
  <1> QED
    BY <1>1, <1>2, PTL DEF Spec, PageSpec

-----------------------------------------------------------------------------
(* What the index tells.                                                   *)

\* What is known of the entry of a version.
LEMMA IndexedFacts ==
  ASSUME ReleaseInv, NEW v \in Indexed
  PROVE  /\ v \in DOMAIN versions /\ versions[v] \in State
         /\ HasEntry(v, manifest[v])
         /\ \A t \in DOMAIN Rows(v) :
              /\ t \in versions[v].suite /\ t \in Task
              /\ Rows(v)[t].run \in RunsOf(t)
              /\ Rows(v)[t] = RowFor(v, t, Rows(v)[t].run, Coverage(manifest[v].caveats.partial))
  <1>1. v \in DOMAIN versions /\ manifest[v] # NoEntry
    BY DEF Indexed
  <1>2. versions \in Seq(State) /\ DOMAIN versions = 1 .. Len(versions)
        /\ Len(versions) \in Nat /\ Len(versions) <= VersionMax
    BY DEF ReleaseInv, BaseInv
  <1>3. HasEntry(v, manifest[v])
    BY <1>1, <1>2, ReleaseAssumption DEF ReleaseInv, ManifestInv
  <1>4. versions[v] \in State
    BY <1>1, <1>2
  <1> QED
    BY <1>1, <1>3, <1>4, EntryFacts DEF ReleaseInv, Rows, State

\* An artifact that the verifier passed is a valid row, unless the table alone
\* refuses it.
LEMMA PassIsValid ==
  ASSUME NEW a \in Artifact, IsPass(a) PROVE RowValid(a) <=> ~RefusedByTable(a)
  <1>1. /\ a.harness \in HarnessStatuses /\ a.row \in RowStatuses
        /\ a.verdict = "passed" /\ a.work \in BOOLEAN /\ a.tokens \in BOOLEAN
        /\ a.requests \in BOOLEAN /\ a.unrouted \in BOOLEAN
    BY DEF Artifact, IsPass
  <1>2. a.harness \notin {"completed_with_failures", "preflight_failed"}
    BY <1>1 DEF Artifact
  <1>3. CASE a.harness = "completed"
    <2>1. a.work /\ a.row # "none"
      BY <1>1, <1>3 DEF Artifact
    <2> QED
      BY <1>1, <1>2, <2>1 DEF RowValid, RefusedByTable, JudgedStatus, AllowedTerminal, RowStatuses
  <1>4. CASE a.harness = "harness_error"
    <2>1. a.row = "none"
      BY <1>4 DEF Artifact
    <2> QED
      BY <1>1, <1>2, <2>1 DEF RowValid, RefusedByTable, JudgedStatus, AllowedTerminal, IsPass
  <1> QED
    BY <1>1, <1>2, <1>3, <1>4 DEF HarnessStatuses

LEMMA TypesHold == ReleaseInv => TypeOK
  <1> SUFFICES ASSUME ReleaseInv PROVE TypeOK
    OBVIOUS
  <1>1. State \subseteq Repo
    BY DEF State, Repo, Source, Bit
  <1>2. /\ repo \in Repo /\ edits \in 0 .. EditMax
        /\ \A v \in DOMAIN versions : versions[v] \in Repo
        /\ since <= fresh /\ fresh <= Len(runs)
    BY <1>1 DEF ReleaseInv, BaseInv
  <1>3. \A i \in DOMAIN runs : runs[i] \in Run
    BY DEF ReleaseInv, BaseInv
  <1>4. \A i \in DOMAIN runs : runs[i].task \in Task /\ runs[i].left \in Outcomes
    BY <1>3 DEF Run
  <1>5. ASSUME NEW v \in Indexed
        PROVE  /\ manifest[v].status \in {"complete", "partial", "invalid"}
               /\ DOMAIN Rows(v) \subseteq versions[v].suite
               /\ \A t \in DOMAIN Rows(v) : Rows(v)[t].run \in RunsOf(t)
    BY IndexedFacts, EntryFacts DEF ReleaseInv, Rows
  <1>6. ASSUME NEW t \in Task PROVE board[t].run \in RunsOf(t) \cup {0}
    <2>1. board[t] = BoardRow(t)
      BY DEF ReleaseInv, BoardInv
    <2>2. CASE Covered(t) = {}
      BY <2>1, <2>2 DEF BoardRow, NoRow
    <2>3. CASE Covered(t) # {}
      <3>1. Covered(t) \subseteq 1 .. Len(runs) /\ Len(runs) \in Nat
        BY DEF Covered, RunsOf, ReleaseInv, BaseInv
      <3>2. Max(Covered(t)) \in Covered(t)
        BY <2>3, <3>1, MaxIs
      <3> QED
        BY <2>1, <2>3, <3>2 DEF BoardRow, CollectedRow, Covered
    <2> QED
      BY <2>2, <2>3
  <1> QED
    BY <1>2, <1>4, <1>5, <1>6 DEF TypeOK

LEMMA DecidedHolds == ReleaseInv => CompleteIsDecided
  <1> SUFFICES ASSUME ReleaseInv, NEW v \in Indexed
               PROVE  LET m == manifest[v] IN
                 /\ m.passed + m.failed + m.invalid = Cardinality(DOMAIN m.rows)
                 /\ m.status = "complete" =>
                      /\ DOMAIN m.rows = versions[v].suite
                      /\ \A t \in DOMAIN m.rows :
                           LET a == runs[m.rows[t].run].left IN
                             \/ IsPass(a)
                             \/ /\ a.tokens
                                /\ a.work \/ a.row # "request_failed" \/ a.verdict \in GenuineVerdicts
    BY Zenon DEF CompleteIsDecided
  <1> DEFINE m == manifest[v]
  <1>1. v \in DOMAIN versions /\ HasEntry(v, m) /\ BaseInv
    BY IndexedFacts DEF ReleaseInv
  <1> HIDE DEF m
  <1>2. /\ m.passed + m.failed + m.invalid = Cardinality(DOMAIN m.rows)
        /\ m.status = "complete" =>
             DOMAIN m.rows = versions[v].suite /\ \A t \in DOMAIN m.rows : Valid(m.rows[t])
        /\ \A t \in DOMAIN m.rows :
             m.rows[t] = RowFor(v, t, m.rows[t].run, Coverage(m.caveats.partial))
    BY <1>1, EntryFacts
  <1>3. ASSUME m.status = "complete", NEW t \in DOMAIN m.rows
        PROVE  LET a == runs[m.rows[t].run].left IN
                 \/ IsPass(a)
                 \/ /\ a.tokens
                    /\ a.work \/ a.row # "request_failed" \/ a.verdict \in GenuineVerdicts
    <2>1. PICK row : row = m.rows[t]
      OBVIOUS
    <2>2. Valid(row) /\ row = RowFor(v, t, row.run, Coverage(m.caveats.partial))
      BY <1>2, <1>3, <2>1
    <2> DEFINE a == runs[row.run].left
    <2>3. row.reusable = Counts(a) /\ row.passed = IsPass(a)
      BY <2>2 DEF RowFor
    <2>4. Counts(a) \/ IsPass(a)
      BY <2>2, <2>3 DEF Valid
    <2> QED
      BY <2>1, <2>4 DEF Counts, ProviderInvalid, HarnessResponseReason, HasGenuineWork
  <1> QED
    BY <1>2, <1>3 DEF m

LEMMA SolvedHolds == ReleaseInv => SolvedTwice
  <1> SUFFICES ASSUME ReleaseInv, NEW v \in Indexed, NEW t \in DOMAIN Rows(v), NEW row,
                      row = Rows(v)[t]
               PROVE  /\ row.run = board[t].run =>
                           board[t].passed =
                             (row.passed /\ ~RefusedByTable(runs[row.run].left))
                      /\ row.completed =>
                           (row.passed <=> Outcome(runs[row.run].left) = "passed")
    BY Zenon DEF SolvedTwice
  <1> DEFINE a == runs[row.run].left
  <1>1. /\ t \in Task /\ row.run \in RunsOf(t)
        /\ row = RowFor(v, t, row.run, Coverage(manifest[v].caveats.partial))
    BY IndexedFacts
  <1>2. row.passed = IsPass(a) /\ row.completed = (a.harness \in CompletedHarness)
    BY <1>1 DEF RowFor
  <1>3. a \in Artifact
    <2>1. row.run \in DOMAIN runs /\ runs \in Seq(Run)
      BY <1>1 DEF RunsOf, ReleaseInv, BaseInv
    <2>2. runs[row.run] \in Run
      BY <2>1
    <2> QED
      BY <2>2, ReleaseAssumption DEF Run
  <1>4. row.run = board[t].run => board[t].passed = (row.passed /\ ~RefusedByTable(a))
    <2> SUFFICES ASSUME row.run = board[t].run
                 PROVE  board[t].passed = (row.passed /\ ~RefusedByTable(a))
      OBVIOUS
    <2>1. board[t] = BoardRow(t) /\ row.run \in 1 .. Len(runs) /\ row.run # 0
      BY <1>1 DEF ReleaseInv, BoardInv, BaseInv, RunsOf
    <2>2. board[t] = CollectedRow(Max(Covered(t)))
      BY <2>1 DEF BoardRow, NoRow
    <2>3. board[t] = CollectedRow(row.run)
      BY <2>2 DEF CollectedRow
    <2>4. board[t].passed = (RowValid(a) /\ IsPass(a))
      BY <2>3 DEF CollectedRow
    <2>5. IsPass(a) => (RowValid(a) <=> ~RefusedByTable(a))
      BY <1>3, PassIsValid
    <2>6. IsPass(a) \in BOOLEAN /\ (RowValid(a) /\ IsPass(a)) \in BOOLEAN
      BY DEF IsPass
    <2> QED
      BY <1>2, <2>4, <2>5, <2>6
  <1>5. row.completed => (row.passed <=> Outcome(a) = "passed")
    BY <1>2 DEF Outcome, IsPass
  <1> QED
    BY <1>4, <1>5

\* What an entry counts was decided, and every index reads the same verdict off
\* the same artifact: IndexIsDecided.
LEMMA IndexHolds == ReleaseInv => IndexIsDecided
  BY TypesHold, DecidedHolds, SolvedHolds DEF IndexIsDecided

-----------------------------------------------------------------------------
(* What a plan reuses.                                                     *)

LEMMA ReuseHolds == ReleaseInv => ReuseIsCurrent
  <1> SUFFICES ASSUME ReleaseInv, NEW from \in Indexed, NEW to \in DOMAIN versions,
                      NEW allowEnv \in BOOLEAN, NEW t \in Reused(from, to, allowEnv),
                      MadeUnder(Rows(from)[t].run, from)
               PROVE  \/ MadeUnder(Rows(from)[t].run, to)
                      \/ allowEnv /\ runs[Rows(from)[t].run].env # versions[to].env
    BY DEF ReuseIsCurrent
  <1> DEFINE i == Rows(from)[t].run
  <1>1. /\ VersionsAgree(from, to, allowEnv)
        /\ Fingerprint(from, t) = Fingerprint(to, t) /\ t \in DOMAIN Rows(from)
    BY DEF Reused, Rows
  <1>2. i \in RunsOf(t)
    BY <1>1, IndexedFacts
  <1>3. runs[i].task = t
    BY <1>2 DEF RunsOf
  <1> QED
    BY <1>1, <1>3 DEF MadeUnder, VersionsAgree

LEMMA SettledHolds == ReleaseInv => SettledStaysSettled
  <1> SUFFICES ASSUME ReleaseInv, NEW v \in Indexed, manifest[v].status = "complete",
                      \A t \in DOMAIN Rows(v) : Rows(v)[t].reusable
               PROVE  Reused(v, v, FALSE) = versions[v].suite
    BY Zenon DEF SettledStaysSettled
  <1> DEFINE m == manifest[v]
  <1>1. m # NoEntry /\ v \in DOMAIN versions /\ HasEntry(v, m) /\ BaseInv
    BY IndexedFacts DEF Indexed, ReleaseInv
  <1>2. DOMAIN m.rows = versions[v].suite /\ m.caveats = Coverage(m.caveats.partial)
    BY <1>1, EntryFacts
  <1>3. ASSUME NEW t \in DOMAIN m.rows
        PROVE  ReusableResult(m.rows[t]) /\ StoredMatches(m.rows[t], v, v, t, m.caveats)
    <2>1. PICK row : row = m.rows[t]
      OBVIOUS
    <2>2. row = RowFor(v, t, row.run, m.caveats) /\ row.reusable
      BY <1>2, <2>1, IndexedFacts DEF Rows
    <2> DEFINE a == runs[row.run].left
    <2>3. /\ row.reusable = Counts(a) /\ row.tokens = a.tokens
          /\ row.completed = (a.harness \in CompletedHarness)
          /\ row.provider_invalid = (~IsPass(a) /\ ProviderInvalid(a))
          /\ row.fingerprint = Fingerprint(v, t) /\ row.interface = Interface(v, t)
          /\ row.key = ResultKey(v, t, m.caveats)
      <3>1. row = RowFor(v, t, row.run, m.caveats)
        BY <2>2
      <3>2. \A c, i : LET r == RowFor(v, t, i, c)
                          b == runs[i].left
                      IN /\ r.reusable = Counts(b) /\ r.tokens = b.tokens
                         /\ r.completed = (b.harness \in CompletedHarness)
                         /\ r.provider_invalid = (~IsPass(b) /\ ProviderInvalid(b))
                         /\ r.fingerprint = Fingerprint(v, t) /\ r.interface = Interface(v, t)
                         /\ r.key = ResultKey(v, t, c)
        BY DEF RowFor
      <3> QED
        BY <3>1, <3>2
    <2>4. ReusableResult(row)
      BY <2>2, <2>3 DEF ReusableResult, Counts
    <2>5. StoredMatches(row, v, v, t, m.caveats)
      BY <2>3 DEF StoredMatches
    <2> QED
      BY <2>1, <2>4, <2>5
  <1>4. VersionsAgree(v, v, FALSE)
    BY DEF VersionsAgree
  <1>5. Reused(v, v, FALSE) =
          {t \in versions[v].suite \cap versions[v].suite :
             /\ Interface(v, t) = Interface(v, t)
             /\ Fingerprint(v, t) = Fingerprint(v, t)
             /\ t \in DOMAIN m.rows
             /\ ReusableResult(m.rows[t])
             /\ StoredMatches(m.rows[t], v, v, t, m.caveats)}
    BY <1>1, <1>4 DEF Reused
  <1> HIDE DEF m
  <1> QED
    BY <1>2, <1>3, <1>5

\* A result stands elsewhere only in its own context, and what is settled is not
\* run again: PlanIsSound.
LEMMA PlanHolds == ReleaseInv => PlanIsSound
  BY ReuseHolds, SettledHolds DEF PlanIsSound

\* The published table is the aggregate of the runs it covers.
LEMMA BoardHolds == ReleaseInv => BoardIsAggregate
  BY Zenon DEF ReleaseInv, BoardInv, BoardRow, Covered, BoardIsAggregate

-----------------------------------------------------------------------------
(* What an index that is made again may drop.                              *)

\* The rows that are made now are of the selected runs.
LEMMA EntryRows ==
  ASSUME BaseInv, NEW v, NEW seen, NEW t \in DOMAIN Entry(v, seen).rows
  PROVE  LET row == Entry(v, seen).rows[t]
             a == runs[Selected(t, seen)].left
         IN row.completed = (a.harness \in CompletedHarness) /\ row.tokens = a.tokens
  <1> DEFINE tasks == versions[v].suite
             covered == {x \in tasks : RunsOf(x) \cap seen # {}}
             coverage == [NoCaveats EXCEPT !.partial =
                     IF covered = tasks THEN 0 ELSE Cardinality(covered) + 1]
             rows == [x \in covered |-> IndexedRow(v, x, seen, coverage)]
  <1>1. Entry(v, seen).rows = rows
    BY Zenon DEF Entry
  <1>2. t \in covered /\ rows[t] = IndexedRow(v, t, seen, coverage)
    BY <1>1
  <1> HIDE DEF coverage
  <1> QED
    BY <1>1, <1>2 DEF IndexedRow

\* A task that has a run among those seen gets a row.
LEMMA EntryCovers ==
  ASSUME NEW v, NEW seen, NEW t \in versions[v].suite, RunsOf(t) \cap seen # {}
  PROVE  t \in DOMAIN Entry(v, seen).rows
  <1> DEFINE tasks == versions[v].suite
             covered == {x \in tasks : RunsOf(x) \cap seen # {}}
             coverage == [NoCaveats EXCEPT !.partial =
                     IF covered = tasks THEN 0 ELSE Cardinality(covered) + 1]
             rows == [x \in covered |-> IndexedRow(v, x, seen, coverage)]
  <1>1. Entry(v, seen).rows = rows
    BY Zenon DEF Entry
  <1>2. t \in covered
    OBVIOUS
  <1> HIDE DEF coverage
  <1> QED
    BY <1>1, <1>2

\* The action of EvidenceNotDisplaced.
EvidenceKept ==
  \A v \in Indexed : \A t \in DOMAIN Rows(v) :
    Rows(v)[t].completed /\ Rows(v)[t].tokens =>
      \/ /\ t \in DOMAIN manifest'[v].rows
         /\ manifest'[v].rows[t].completed /\ manifest'[v].rows[t].tokens
      \/ \A seen \in SUBSET DOMAIN runs : Recover(v, seen) => Rows(v)[t].run \notin seen

LEMMA EvidenceSteps == ReleaseInv => EvidenceKept
  <1> SUFFICES ASSUME ReleaseInv, NEW v \in Indexed, NEW seen \in SUBSET DOMAIN runs,
                      Recover(v, seen), NEW t \in DOMAIN Rows(v), Rows(v)[t].completed,
                      Rows(v)[t].tokens, Rows(v)[t].run \in seen
               PROVE  /\ t \in DOMAIN manifest'[v].rows
                      /\ manifest'[v].rows[t].completed /\ manifest'[v].rows[t].tokens
    BY Zenon DEF EvidenceKept
  <1>1. manifest' = [manifest EXCEPT ![v] = Entry(v, seen)] /\ DOMAIN manifest = 1 .. VersionMax
    BY DEF Recover, ReleaseInv, ManifestInv
  <1>2. manifest'[v] = Entry(v, seen)
    <2>1. v \in DOMAIN versions /\ versions \in Seq(State) /\ Len(versions) <= VersionMax
          /\ VersionMax \in Nat
      BY ReleaseAssumption DEF Indexed, ReleaseInv, BaseInv
    <2>2. v \in DOMAIN manifest
      BY <1>1, <2>1
    <2> QED
      BY <1>1, <2>2
  <1>3. PICK row : row = Rows(v)[t]
    OBVIOUS
  <1>4. /\ row.run \in RunsOf(t) \cap seen /\ t \in versions[v].suite
        /\ row = RowFor(v, t, row.run, Coverage(manifest[v].caveats.partial))
    BY <1>3, IndexedFacts
  <1>5. runs[row.run].left.harness \in CompletedHarness /\ runs[row.run].left.tokens
    <2>1. /\ row.completed = (runs[row.run].left.harness \in CompletedHarness)
          /\ row.tokens = runs[row.run].left.tokens
      BY <1>4 DEF RowFor
    <2> QED
      BY <1>3, <2>1
  <1>6. LET a == runs[Selected(t, seen)].left IN a.harness \in CompletedHarness /\ a.tokens
    BY <1>4, <1>5, EvidenceSelected DEF ReleaseInv
  <1>7. t \in DOMAIN Entry(v, seen).rows
    BY <1>4, EntryCovers
  <1>8. PICK new : new = Entry(v, seen).rows[t]
    OBVIOUS
  <1>9. LET b == runs[Selected(t, seen)].left
        IN new.completed = (b.harness \in CompletedHarness) /\ new.tokens = b.tokens
    BY <1>7, <1>8, EntryRows, Zenon DEF ReleaseInv
  <1>10. new.completed /\ new.tokens
    BY <1>6, <1>9
  <1> QED
    BY <1>2, <1>7, <1>8, <1>10

-----------------------------------------------------------------------------
(* The pages.                                                              *)

Version == 1 .. VersionMax

File == [state : {"absent", "torn", "whole"}, rows : SUBSET SummaryRow]

FilesInv ==
  /\ summary \in [Version -> File] /\ leader \in [Version -> File]
  /\ site \in [rows : File, latest : Nat, listed : SUBSET Nat]

PagesInv ==
  /\ archive \in [Version -> SUBSET Nat]
  /\ ledger \in [Version -> [runs : SUBSET Nat, passed : Nat]]
  /\ pages \in [made : Nat, whole : BOOLEAN, cut : SUBSET Nat, unpacked : SUBSET Nat]

\* The leaderboard follows its summary, and a call that came to its end left
\* the site that belongs to the summaries.
AgreeInv ==
  /\ \A v \in Version \ pages.cut : leader[v] = summary[v]
  /\ site.latest # 0 /\ pages.whole =>
       /\ site.listed = {v \in DOMAIN summary : Readable(summary[v])}
       /\ site.latest \in site.listed
       /\ site.rows = summary[site.latest]

\* A package that is up to date holds what the index selected.
PackInv ==
  \A v \in Version \ pages.unpacked :
    /\ manifest[v] # NoEntry
    /\ archive[v] = SelectedRuns(v)
    /\ ledger[v] = [runs |-> archive[v], passed |-> manifest[v].passed]

\* The rows of a leaderboard are one for each source, and the model whose runs
\* come and go is complete in it only with a verdict for each task.
RowsEarned(v, rows) ==
  /\ rows \subseteq SummaryRow /\ IsFiniteSet(rows)
  /\ \A r, s \in rows : r.source = s.source => r = s
  /\ \A r \in rows : r.source = Own.source /\ r.status = "complete" =>
       \A t \in versions[v].suite : Decided(t)

LeaderInv ==
  \A v \in Version : Readable(leader[v]) =>
    v \in DOMAIN versions /\ RowsEarned(v, leader[v].rows)

PageInv == FilesInv /\ PagesInv /\ AgreeInv /\ PackInv /\ LeaderInv

\* The package counts the runs that solved their task, the index the tasks: each
\* task has one run, and each run one task.
LEMMA PackedCount ==
  ASSUME BaseInv, NEW v \in DOMAIN versions, NEW m, HasEntry(v, m)
  PROVE  Cardinality({i \in {m.rows[t].run : t \in DOMAIN m.rows} : IsPass(runs[i].left)})
           = m.passed
  <1> DEFINE S == PassedIn(m.rows)
             T == {i \in {m.rows[t].run : t \in DOMAIN m.rows} : IsPass(runs[i].left)}
             f == [t \in S |-> m.rows[t].run]
  <1>1. /\ m.passed = Cardinality(S) /\ IsFiniteSet(DOMAIN m.rows)
        /\ \A t \in DOMAIN m.rows :
             /\ m.rows[t].run \in RunsOf(t)
             /\ m.rows[t] = RowFor(v, t, m.rows[t].run, Coverage(m.caveats.partial))
    BY EntryFacts
  <1>2. S \subseteq DOMAIN m.rows /\ IsFiniteSet(S)
    BY <1>1, FS_Subset DEF PassedIn
  <1>3. \A t \in DOMAIN m.rows :
          /\ runs[m.rows[t].run].task = t
          /\ m.rows[t].passed = IsPass(runs[m.rows[t].run].left)
    <2>1. \A i, t : RowFor(v, t, i, Coverage(m.caveats.partial)).passed = IsPass(runs[i].left)
      BY DEF RowFor
    <2> QED
      BY <1>1, <2>1 DEF RunsOf
  <1>4. f \in [S -> T]
    BY <1>2, <1>3 DEF PassedIn
  <1>5. \A t, u \in S : f[t] = f[u] => t = u
    BY <1>2, <1>3
  <1>6. \A i \in T : \E t \in S : f[t] = i
    BY <1>3 DEF PassedIn
  <1> HIDE DEF S, T, f
  <1>7. f \in Bijection(S, T)
    BY <1>4, <1>5, <1>6 DEF Bijection, Injection, Surjection, IsInjective
  <1>8. Cardinality(T) = Cardinality(S)
    BY <1>2, <1>7, FS_Bijection DEF ExistsBijection
  <1> QED
    BY <1>1, <1>8 DEF T

\* The row that is made of an entry.
LEMMA OwnRowFacts ==
  ASSUME ReleaseInv, NEW v \in DOMAIN versions, manifest[v] # NoEntry
  PROVE  /\ OwnRow(v) \in SummaryRow /\ OwnRow(v).source = Own.source
         /\ OwnRow(v).status = "complete" => \A t \in versions[v].suite : Decided(t)
  <1> DEFINE m == manifest[v]
  <1>1. v \in Indexed /\ HasEntry(v, m)
    BY IndexedFacts DEF Indexed
  <1>2. /\ m.status \in {"complete", "partial", "invalid"} /\ m.passed \in Nat
        /\ IsFiniteSet(DOMAIN m.rows)
    BY <1>1, EntryFacts DEF ReleaseInv
  <1>3. /\ Cardinality(DOMAIN m.rows) \in Nat
        /\ Cardinality({t \in DOMAIN m.rows : m.rows[t].tokens}) \in Nat
    <2>1. {t \in DOMAIN m.rows : m.rows[t].tokens} \in SUBSET DOMAIN m.rows
      OBVIOUS
    <2> QED
      BY <1>2, <2>1, FS_Subset, FS_CardinalityType
  <1>4. ASSUME m.status = "complete", NEW t \in versions[v].suite PROVE Decided(t)
    <2>1. CompleteIsDecided /\ TypeOK
      BY DecidedHolds, TypesHold
    <2>2. /\ t \in DOMAIN m.rows
          /\ LET a == runs[m.rows[t].run].left IN
               \/ IsPass(a)
               \/ /\ a.tokens
                  /\ a.work \/ a.row # "request_failed" \/ a.verdict \in GenuineVerdicts
      BY <1>1, <1>4, <2>1 DEF CompleteIsDecided
    <2>3. m.rows[t].run \in RunsOf(t)
      BY <1>1, <2>2, IndexedFacts DEF Rows
    <2> QED
      BY <2>2, <2>3 DEF Decided
  <1>5. OwnRow(v) = [source |-> Own.source, public |-> Own.public, status |-> m.status,
                     passed |-> m.passed, tasks |-> Cardinality(DOMAIN m.rows),
                     tokens |-> Cardinality({t \in DOMAIN m.rows : m.rows[t].tokens})]
    BY DEF OwnRow
  <1> HIDE DEF m
  <1>6. OwnRow(v).source = Own.source /\ OwnRow(v).status = m.status
    BY <1>5
  <1>7. OwnRow(v) \in SummaryRow
    BY <1>2, <1>3, <1>5, PublicationAssumption DEF SummaryRow
  <1> QED
    BY <1>4, <1>6, <1>7

\* What is written is earned.
LEMMA SummaryEarned ==
  ASSUME ReleaseInv, NEW v \in DOMAIN versions
  PROVE  RowsEarned(v, SummaryOf(v))
  <1>1. PICK own : own = IF manifest[v] = NoEntry THEN {} ELSE {OwnRow(v)}
    OBVIOUS
  <1>2. SummaryOf(v) = Rivals \cup own
    BY <1>1 DEF SummaryOf
  <1>3. /\ own \subseteq SummaryRow /\ IsFiniteSet(own) /\ \A r, s \in own : r = s
        /\ \A r \in own : r.source = Own.source
        /\ \A r \in own : r.status = "complete" => \A t \in versions[v].suite : Decided(t)
    BY <1>1, OwnRowFacts, FS_EmptySet, FS_Singleton
  <1>4. IsFiniteSet(Rivals \cup own)
    BY <1>3, PublicationAssumption, FS_Union
  <1> QED
    BY <1>2, <1>3, <1>4, PublicationAssumption DEF RowsEarned

\* What was earned stays earned.
LEMMA EarnedKept ==
  ASSUME NEW v \in DOMAIN versions, NEW rows, RowsEarned(v, rows), Grows
  PROVE  RowsEarned(v, rows)'
  <1>1. versions'[v] = versions[v]
    BY DEF Grows
  <1>2. ASSUME NEW t, Decided(t) PROVE Decided(t)'
    BY <1>2 DEF Decided, RunsOf, Grows
  <1> QED
    BY <1>1, <1>2 DEF RowsEarned

LEMMA PageInitFacts == PageInit => PageInv
  <1> SUFFICES ASSUME PageInit PROVE PageInv
    OBVIOUS
  <1>1. NoFile \in File /\ ~Readable(NoFile)
    BY DEF NoFile, File, Readable
  <1>2. FilesInv
    BY <1>1 DEF PageInit, FilesInv, Version
  <1>3. PagesInv
    BY ReleaseAssumption DEF PageInit, PagesInv, Version
  <1>4. AgreeInv
    BY DEF PageInit, AgreeInv, Version
  <1>5. PackInv
    BY DEF PageInit, PackInv, Version
  <1>6. LeaderInv
    BY <1>1 DEF PageInit, LeaderInv, Version
  <1> QED
    BY <1>2, <1>3, <1>4, <1>5, <1>6 DEF PageInv

\* What is written of the leaderboard stays true while runs are added.
LEMMA LeaderKept ==
  ASSUME LeaderInv, Grows, UNCHANGED leader
  PROVE  LeaderInv'
  <1> SUFFICES ASSUME NEW v \in Version, Readable(leader[v])
               PROVE  v \in DOMAIN versions' /\ RowsEarned(v, leader[v].rows)'
    BY DEF LeaderInv, Readable, Version
  <1>1. PICK rows : rows = leader[v].rows
    OBVIOUS
  <1>2. v \in DOMAIN versions /\ RowsEarned(v, rows)
    BY <1>1 DEF LeaderInv
  <1>3. RowsEarned(v, rows)'
    BY <1>2, EarnedKept
  <1>4. leader'[v].rows = rows
    BY <1>1
  <1> QED
    BY <1>2, <1>3, <1>4 DEF Grows, RowsEarned

\* The repository, its runs and its indexes move on; what is indexed again is to
\* be packed again.
LEMMA ReleaseMoves ==
  ASSUME ReleaseInv, PageInv, Next, UNCHANGED <<summary, leader, site, archive, ledger>>,
         pages' = [pages EXCEPT !.unpacked = @ \cup Reindexed]
  PROVE  PageInv'
  <1>1. Grows
    BY ReleaseSteps
  <1>2. /\ pages'.made = pages.made /\ pages'.whole = pages.whole /\ pages'.cut = pages.cut
        /\ pages'.unpacked = pages.unpacked \cup Reindexed
        /\ pages' \in [made : Nat, whole : BOOLEAN, cut : SUBSET Nat, unpacked : SUBSET Nat]
    <2>1. Reindexed \subseteq Nat
      BY ReleaseAssumption DEF Reindexed
    <2> HIDE DEF Reindexed
    <2> QED
      BY <2>1 DEF PageInv, PagesInv
  <1>3. FilesInv'
    BY DEF PageInv, FilesInv, Version
  <1>4. PagesInv'
    BY <1>2 DEF PageInv, PagesInv, Version
  <1>5. AgreeInv'
    BY <1>2 DEF PageInv, AgreeInv, Version, Readable
  <1>6. PackInv'
    <2> SUFFICES ASSUME NEW v \in Version \ pages'.unpacked
                 PROVE  /\ (manifest[v] # NoEntry)'
                        /\ archive'[v] = SelectedRuns(v)'
                        /\ (ledger[v] = [runs |-> archive[v], passed |-> manifest[v].passed])'
      BY DEF PackInv, Version
    <2>1. v \notin pages.unpacked /\ manifest'[v] = manifest[v]
      BY <1>2 DEF Reindexed, Version
    <2>2. /\ manifest[v] # NoEntry
          /\ archive[v] = SelectedRuns(v)
          /\ ledger[v] = [runs |-> archive[v], passed |-> manifest[v].passed]
      BY <2>1 DEF PageInv, PackInv
    <2>3. SelectedRuns(v)' = SelectedRuns(v)
      BY <2>1 DEF SelectedRuns
    <2> QED
      BY <2>1, <2>2, <2>3 DEF NoEntry
  <1>7. LeaderInv'
    BY <1>1, LeaderKept DEF PageInv
  <1> QED
    BY <1>3, <1>4, <1>5, <1>6, <1>7 DEF PageInv

\* What an aggregation leaves, wherever it breaks off.
LEMMA AggregateIs ==
  ASSUME NEW v, Aggregate(v)
  PROVE  \E done \in 0 .. 4 :
           LET whole == Whole(SummaryOf(v))
               files == [summary EXCEPT ![v] = IF done > 0 THEN whole ELSE Torn]
           IN /\ summary' = files
              /\ leader' = [leader EXCEPT ![v] =
                             IF done > 1 THEN whole ELSE IF done = 1 THEN Torn ELSE @]
              /\ site' = [site EXCEPT
                            !.rows = IF done > 2 THEN whole ELSE IF done = 2 THEN Torn ELSE @,
                            !.latest = IF done = 4 THEN v ELSE @,
                            !.listed = IF done = 4 THEN Listed(v, files)
                                       ELSE IF done = 3 THEN {} ELSE @]
              /\ pages' = [pages EXCEPT !.made = @ + 1, !.whole = (done = 4),
                             !.cut = IF done < 2 THEN @ \cup {v} ELSE @ \ {v}]
  <1>1. PICK done \in 0 .. 4 :
       LET whole == Whole(SummaryOf(v))
           write(file, n) == IF done > n THEN whole ELSE IF done = n THEN Torn ELSE file
           files == [summary EXCEPT ![v] = write(@, 0)]
       IN /\ summary' = files
          /\ leader' = [leader EXCEPT ![v] = write(@, 1)]
          /\ site' = [site EXCEPT !.rows = write(@, 2),
                        !.latest = IF done = 4 THEN v ELSE @,
                        !.listed = IF done = 4 THEN Listed(v, files) ELSE IF done = 3 THEN {} ELSE @]
          /\ pages' = [pages EXCEPT !.made = @ + 1, !.whole = done = 4,
                         !.cut = IF done < 2 THEN @ \cup {v} ELSE @ \ {v}]
    BY Zenon DEF Aggregate
  <1>2. (IF done > 0 THEN Whole(SummaryOf(v)) ELSE IF done = 0 THEN Torn ELSE summary[v])
          = IF done > 0 THEN Whole(SummaryOf(v)) ELSE Torn
    OBVIOUS
  <1> QED
    BY <1>1, <1>2

\* Each file of an aggregation is written over by that of the same entry, and a
\* call that breaks off between the summary and the leaderboard is remembered.
LEMMA AggregateFacts ==
  ASSUME ReleaseInv, PageInv, NEW v \in Version, Aggregate(v)
  PROVE  PageInv'
  <1>1. v \in DOMAIN versions /\ UNCHANGED <<vars, archive, ledger>>
    BY DEF Aggregate
  <1>2. PICK done \in 0 .. 4 :
          LET whole == Whole(SummaryOf(v))
              files == [summary EXCEPT ![v] = IF done > 0 THEN whole ELSE Torn]
          IN /\ summary' = files
             /\ leader' = [leader EXCEPT ![v] =
                            IF done > 1 THEN whole ELSE IF done = 1 THEN Torn ELSE @]
             /\ site' = [site EXCEPT
                           !.rows = IF done > 2 THEN whole ELSE IF done = 2 THEN Torn ELSE @,
                           !.latest = IF done = 4 THEN v ELSE @,
                           !.listed = IF done = 4 THEN Listed(v, files)
                                      ELSE IF done = 3 THEN {} ELSE @]
             /\ pages' = [pages EXCEPT !.made = @ + 1, !.whole = (done = 4),
                            !.cut = IF done < 2 THEN @ \cup {v} ELSE @ \ {v}]
    BY AggregateIs
  <1>3. PICK rows : rows = SummaryOf(v)
    OBVIOUS
  <1>4. RowsEarned(v, rows) /\ rows \subseteq SummaryRow
    BY <1>1, <1>3, SummaryEarned DEF RowsEarned
  <1> DEFINE whole == Whole(rows)
             first == IF done > 0 THEN whole ELSE Torn
             second == IF done > 1 THEN whole ELSE IF done = 1 THEN Torn ELSE leader[v]
             files == [summary EXCEPT ![v] = first]
             third == IF done > 2 THEN whole ELSE IF done = 2 THEN Torn ELSE site.rows
             listed == IF done = 4 THEN Listed(v, files) ELSE IF done = 3 THEN {} ELSE site.listed
  <1>5. /\ whole \in File /\ Torn \in File /\ Readable(whole) /\ ~Readable(Torn)
        /\ whole.rows = rows
    BY <1>4 DEF Whole, Torn, File, Readable
  <1> HIDE DEF whole
  <1>6. /\ summary \in [Version -> File] /\ leader \in [Version -> File]
        /\ site \in [rows : File, latest : Nat, listed : SUBSET Nat]
        /\ pages \in [made : Nat, whole : BOOLEAN, cut : SUBSET Nat, unpacked : SUBSET Nat]
        /\ v \in Nat
    BY ReleaseAssumption DEF PageInv, FilesInv, PagesInv, Version
  <1>7. summary' = files /\ leader' = [leader EXCEPT ![v] = second]
    BY <1>2, <1>3 DEF whole
  <1>8. /\ summary' \in [Version -> File] /\ leader' \in [Version -> File]
        /\ \A w \in Version \ {v} : summary'[w] = summary[w] /\ leader'[w] = leader[w]
        /\ summary'[v] = first /\ leader'[v] = second
    BY <1>5, <1>6, <1>7
  <1>9. listed \in SUBSET Nat
    <2>1. DOMAIN files = Version /\ Version \subseteq Nat
      BY <1>6, ReleaseAssumption DEF Version
    <2> QED
      BY <1>6, <2>1 DEF Listed
  <1>10. third \in File
    BY <1>5, <1>6
  <1>11. site' = [site EXCEPT !.rows = third, !.latest = IF done = 4 THEN v ELSE @,
                    !.listed = listed]
    BY <1>2, <1>3 DEF whole
  <1> DEFINE cut == IF done < 2 THEN pages.cut \cup {v} ELSE pages.cut \ {v}
  <1>12. pages' = [pages EXCEPT !.made = @ + 1, !.whole = (done = 4), !.cut = cut]
    BY <1>2
  <1>13. cut \in SUBSET Nat /\ (done = 4) \in BOOLEAN
    BY <1>6
  <1> HIDE DEF first, second, files, third, listed, cut
  <1>14. /\ site' \in [rows : File, latest : Nat, listed : SUBSET Nat]
         /\ site'.rows = third /\ site'.listed = listed
         /\ site'.latest = IF done = 4 THEN v ELSE site.latest
    BY <1>6, <1>9, <1>10, <1>11
  <1>15. /\ pages' \in [made : Nat, whole : BOOLEAN, cut : SUBSET Nat, unpacked : SUBSET Nat]
         /\ pages'.whole = (done = 4) /\ pages'.cut = cut /\ pages'.unpacked = pages.unpacked
    <2> DEFINE made == pages.made + 1
               ended == done = 4
    <2>1. pages' = [pages EXCEPT !.made = made, !.whole = ended, !.cut = cut]
      BY <1>12
    <2>2. made \in Nat /\ ended \in BOOLEAN
      BY <1>6
    <2> HIDE DEF made, ended
    <2>3. /\ pages' \in [made : Nat, whole : BOOLEAN, cut : SUBSET Nat, unpacked : SUBSET Nat]
          /\ pages'.whole = ended /\ pages'.cut = cut /\ pages'.unpacked = pages.unpacked
      BY <1>6, <1>13, <2>1, <2>2
    <2> QED
      BY <2>3 DEF ended
  <1>16. FilesInv'
    BY <1>8, <1>14 DEF FilesInv, Version
  <1>17. PagesInv'
    BY <1>1, <1>15 DEF PageInv, PagesInv, Version
  <1>18. AgreeInv'
    <2>1. ASSUME NEW w \in Version \ cut PROVE leader'[w] = summary'[w]
      <3>1. CASE w = v
        BY <1>8, <2>1, <3>1 DEF cut, first, second
      <3>2. CASE w # v
        BY <1>8, <2>1, <3>2 DEF cut, PageInv, AgreeInv
      <3> QED
        BY <3>1, <3>2
    <2>2. ASSUME done = 4
          PROVE  /\ site'.listed = {w \in DOMAIN summary' : Readable(summary'[w])}
                 /\ site'.latest \in site'.listed
                 /\ site'.rows = summary'[site'.latest]
      <3>1. first = whole /\ third = whole /\ site'.latest = v
        BY <1>14, <2>2 DEF first, third
      <3>2. site'.listed = {w \in DOMAIN summary' : Readable(summary'[w])} \cup {v}
        BY <1>7, <1>14, <2>2 DEF listed, Listed
      <3>3. v \in DOMAIN summary' /\ Readable(summary'[v])
        BY <1>5, <1>8, <3>1
      <3> QED
        BY <1>8, <1>14, <3>1, <3>2, <3>3
    <2> QED
      BY <1>15, <2>1, <2>2 DEF AgreeInv, Version, Readable
  <1>19. PackInv'
    BY <1>1, <1>15 DEF PageInv, PackInv, Version, vars, SelectedRuns, NoEntry
  <1>20. LeaderInv'
    <2>1. Grows
      BY <1>1 DEF vars, Grows
    <2> SUFFICES ASSUME NEW w \in Version, Readable(leader'[w])
                 PROVE  w \in DOMAIN versions' /\ RowsEarned(w, leader[w].rows)'
      BY DEF LeaderInv, Version, Readable
    <2>2. PICK old : old = leader'[w].rows
      OBVIOUS
    <2>3. w \in DOMAIN versions /\ RowsEarned(w, old)
      <3>1. CASE w # v \/ done = 0
        <4>1. leader'[w] = leader[w]
          BY <1>8, <3>1 DEF second
        <4> QED
          BY <2>2, <4>1 DEF PageInv, LeaderInv
      <3>2. CASE w = v /\ done # 0
        <4>1. leader'[w] = whole
          BY <1>5, <1>8, <3>2 DEF second
        <4> QED
          BY <1>1, <1>4, <1>5, <2>2, <3>2, <4>1
      <3> QED
        BY <3>1, <3>2
    <2>4. RowsEarned(w, old)'
      BY <2>1, <2>3, EarnedKept
    <2> QED
      BY <2>1, <2>2, <2>3, <2>4 DEF Grows, RowsEarned
  <1> QED
    BY <1>16, <1>17, <1>18, <1>19, <1>20 DEF PageInv

\* A package is refused when a selected run is missing, so that what is packed
\* is what was selected.
LEMMA PackageFacts ==
  ASSUME ReleaseInv, PageInv, NEW v \in Version, Package(v)
  PROVE  PageInv'
  <1>1. /\ v \in DOMAIN versions /\ manifest[v] # NoEntry
        /\ UNCHANGED <<vars, summary, leader, site>>
    BY DEF Package
  <1>2. PICK dirs \in SUBSET DOMAIN runs, interrupted \in BOOLEAN :
       /\ Missing(v, dirs) = {}
       /\ LET packed == SelectedRuns(v) \cap dirs IN
            /\ archive' = [archive EXCEPT ![v] = packed]
            /\ ledger' = IF interrupted THEN ledger
                 ELSE [ledger EXCEPT ![v] =
                        [runs |-> packed,
                         passed |-> Cardinality({i \in packed : IsPass(runs[i].left)})]]
            /\ pages' = [pages EXCEPT !.made = @ + 1,
                           !.unpacked = IF interrupted THEN @ \cup {v} ELSE @ \ {v}]
    BY Zenon DEF Package
  <1>3. PICK packed : packed = SelectedRuns(v)
    OBVIOUS
  <1>4. SelectedRuns(v) \cap dirs = packed /\ packed \subseteq DOMAIN runs
    BY <1>2, <1>3 DEF Missing
  <1> DEFINE solved == Cardinality({i \in packed : IsPass(runs[i].left)})
             unpacked == IF interrupted THEN pages.unpacked \cup {v} ELSE pages.unpacked \ {v}
             line == [runs |-> packed, passed |-> solved]
  <1>5. /\ archive' = [archive EXCEPT ![v] = packed]
        /\ ledger' = IF interrupted THEN ledger ELSE [ledger EXCEPT ![v] = line]
        /\ pages' = [pages EXCEPT !.made = @ + 1, !.unpacked = unpacked]
    BY <1>2, <1>4
  <1>6. v \in Indexed /\ HasEntry(v, manifest[v])
    BY <1>1, IndexedFacts DEF Indexed
  <1>7. solved = manifest[v].passed /\ manifest[v].passed \in Nat
    <2>1. PICK m : m = manifest[v]
      OBVIOUS
    <2>2. packed = {m.rows[t].run : t \in DOMAIN m.rows}
      BY <1>3, <2>1 DEF SelectedRuns
    <2>3. HasEntry(v, m)
      BY <1>6, <2>1
    <2>4. solved = m.passed
      BY <1>1, <2>2, <2>3, PackedCount DEF ReleaseInv
    <2>5. m.passed \in Nat
      BY <1>1, <2>3, EntryFacts DEF ReleaseInv
    <2> QED
      BY <2>1, <2>4, <2>5
  <1> HIDE DEF solved
  <1>8. /\ archive \in [Version -> SUBSET Nat]
        /\ ledger \in [Version -> [runs : SUBSET Nat, passed : Nat]]
        /\ pages \in [made : Nat, whole : BOOLEAN, cut : SUBSET Nat, unpacked : SUBSET Nat]
        /\ v \in Nat /\ packed \in SUBSET Nat
    <2>1. DOMAIN runs \subseteq Nat
      BY DEF ReleaseInv, BaseInv
    <2> QED
      BY <1>4, <2>1, ReleaseAssumption DEF PageInv, PagesInv, Version
  <1>9. unpacked \in SUBSET Nat /\ line \in [runs : SUBSET Nat, passed : Nat]
    BY <1>7, <1>8
  <1> HIDE DEF unpacked, line
  <1>10. /\ pages' \in [made : Nat, whole : BOOLEAN, cut : SUBSET Nat, unpacked : SUBSET Nat]
         /\ pages'.whole = pages.whole /\ pages'.cut = pages.cut /\ pages'.unpacked = unpacked
    <2> DEFINE made == pages.made + 1
    <2>1. pages' = [pages EXCEPT !.made = made, !.unpacked = unpacked] /\ made \in Nat
      BY <1>5, <1>8
    <2> HIDE DEF made
    <2> QED
      BY <1>8, <1>9, <2>1
  <1>11. /\ archive' \in [Version -> SUBSET Nat]
         /\ ledger' \in [Version -> [runs : SUBSET Nat, passed : Nat]]
    BY <1>5, <1>8, <1>9
  <1>12. FilesInv'
    BY <1>1 DEF PageInv, FilesInv, Version
  <1>13. PagesInv'
    BY <1>10, <1>11 DEF PagesInv, Version
  <1>14. AgreeInv'
    BY <1>1, <1>10 DEF PageInv, AgreeInv, Version, Readable
  <1>15. PackInv'
    <2> SUFFICES ASSUME NEW w \in Version \ unpacked
                 PROVE  /\ (manifest[w] # NoEntry)'
                        /\ archive'[w] = SelectedRuns(w)'
                        /\ (ledger[w] = [runs |-> archive[w], passed |-> manifest[w].passed])'
      BY <1>10 DEF PackInv, Version
    <2>1. manifest' = manifest /\ SelectedRuns(w)' = SelectedRuns(w)
      BY <1>1 DEF vars, SelectedRuns
    <2>2. CASE w = v
      <3>1. ~interrupted
        BY <2>2 DEF unpacked
      <3>2. archive'[w] = packed /\ ledger'[w] = line
        BY <1>5, <1>8, <2>2, <3>1
      <3> QED
        BY <1>1, <1>3, <1>7, <2>1, <2>2, <3>2 DEF line, NoEntry
    <2>3. CASE w # v
      <3>1. archive'[w] = archive[w] /\ ledger'[w] = ledger[w] /\ w \notin pages.unpacked
        BY <1>5, <1>8, <2>3 DEF unpacked
      <3> QED
        BY <2>1, <3>1 DEF PageInv, PackInv, NoEntry
    <2> QED
      BY <2>2, <2>3
  <1>16. LeaderInv'
    <2>1. Grows
      BY <1>1 DEF vars, Grows
    <2> QED
      BY <1>1, <2>1, LeaderKept DEF PageInv
  <1> QED
    BY <1>12, <1>13, <1>14, <1>15, <1>16 DEF PageInv

LEMMA PageSteps == ReleaseInv /\ PageInv /\ [PageNext]_allVars => PageInv'
  <1> SUFFICES ASSUME ReleaseInv, PageInv, [PageNext]_allVars PROVE PageInv'
    OBVIOUS
  <1>1. CASE UNCHANGED allVars
    <2>1. UNCHANGED <<vars, pageVars>>
      BY <1>1 DEF allVars
    <2>2. Grows
      BY <2>1 DEF vars, Grows
    <2>3. LeaderInv'
      BY <2>1, <2>2, LeaderKept DEF PageInv, pageVars
    <2>4. FilesInv' /\ PagesInv'
      BY <2>1 DEF pageVars, PageInv, FilesInv, PagesInv, Version
    <2>5. AgreeInv'
      BY <2>1 DEF pageVars, PageInv, AgreeInv, Version, Readable
    <2>6. PackInv'
      BY <2>1 DEF pageVars, vars, PageInv, PackInv, Version, SelectedRuns, NoEntry
    <2> QED
      BY <2>3, <2>4, <2>5, <2>6 DEF PageInv
  <1>2. CASE /\ Next
             /\ pages' = [pages EXCEPT !.unpacked = @ \cup Reindexed]
             /\ UNCHANGED <<summary, leader, site, archive, ledger>>
    BY <1>2, ReleaseMoves
  <1>3. ASSUME NEW v \in 1 .. VersionMax, Aggregate(v) PROVE PageInv'
    BY <1>3, AggregateFacts DEF Version
  <1>4. ASSUME NEW v \in 1 .. VersionMax, Package(v) PROVE PageInv'
    BY <1>4, PackageFacts DEF Version
  <1> QED
    BY <1>1, <1>2, <1>3, <1>4, Zenon DEF PageNext

-----------------------------------------------------------------------------
(* The ranks of a leaderboard.                                             *)

LEMMA PassRateIs == ASSUME NEW r \in SummaryRow PROVE PassRate(r) \in Int
  <1> DEFINE x == 2000 * r.passed + r.tasks
             y == 2 * r.tasks
  <1>1. r.passed \in Nat /\ r.tasks \in Nat
    BY DEF SummaryRow
  <1>2. x \in Int
    BY <1>1
  <1>3. CASE r.tasks = 0
    BY <1>3 DEF PassRate
  <1>4. CASE r.tasks # 0
    <2>1. y \in Nat /\ y > 0
      BY <1>1, <1>4
    <2>2. PassRate(r) = x \div y
      BY <1>4 DEF PassRate
    <2> HIDE DEF x, y
    <2> QED
      BY <1>2, <2>1, <2>2
  <1> QED
    BY <1>3, <1>4

LEMMA BeforeIs ==
  ASSUME NEW r \in SummaryRow, NEW s \in SummaryRow
  PROVE  Before(r, s) <=>
           \/ PassRate(r) > PassRate(s)
           \/ /\ PassRate(r) = PassRate(s)
              /\ \/ r.tokens < s.tokens
                 \/ r.tokens = s.tokens /\ r.public < s.public
                 \/ r.tokens = s.tokens /\ r.public = s.public /\ r.source < s.source
  BY BelowIs DEF Before

\* No row is before itself, and the order is transitive.
LEMMA BeforeOrders ==
  ASSUME NEW r \in SummaryRow, NEW s \in SummaryRow, NEW x \in SummaryRow
  PROVE  ~Before(r, r) /\ (Before(x, r) /\ Before(r, s) => Before(x, s))
  <1>1. PassRate(r) \in Int /\ PassRate(s) \in Int /\ PassRate(x) \in Int
    BY PassRateIs
  <1>2. /\ r.tokens \in Nat /\ s.tokens \in Nat /\ x.tokens \in Nat
        /\ r.public \in Nat /\ s.public \in Nat /\ x.public \in Nat
        /\ r.source \in Nat /\ s.source \in Nat /\ x.source \in Nat
    BY DEF SummaryRow
  <1>3. ~Before(r, r)
    BY <1>1, <1>2, BeforeIs
  <1>4. Before(x, r) /\ Before(r, s) => Before(x, s)
    BY <1>1, <1>2, BeforeIs
  <1> QED
    BY <1>3, <1>4

\* The place of a row is one of the places there are, and a row before another
\* has the smaller one.
LEMMA PlaceIs ==
  ASSUME NEW rows \in SUBSET SummaryRow, IsFiniteSet(rows), NEW r \in rows, NEW s \in rows
  PROVE  /\ Place(rows, r) \in 1 .. Cardinality(rows)
         /\ Before(r, s) => Place(rows, r) < Place(rows, s)
  <1> DEFINE R == {x \in rows : Before(x, r)}
             S == {x \in rows : Before(x, s)}
  <1>1. /\ IsFiniteSet(R) /\ Cardinality(R) \in Nat /\ Cardinality(rows) \in Nat
        /\ IsFiniteSet(S) /\ Cardinality(S) \in Nat
    <2>1. R \in SUBSET rows /\ S \in SUBSET rows
      OBVIOUS
    <2> QED
      BY <2>1, FS_Subset, FS_CardinalityType
  <1>2. r \notin R
    BY BeforeOrders
  <1>3. Cardinality(R \cup {r}) = Cardinality(R) + 1 /\ IsFiniteSet(R \cup {r})
    BY <1>1, <1>2, FS_AddElement
  <1>4. Cardinality(R) + 1 <= Cardinality(rows)
    <2>1. R \cup {r} \in SUBSET rows
      OBVIOUS
    <2> QED
      BY <1>3, <2>1, FS_Subset
  <1>5. ASSUME Before(r, s) PROVE Cardinality(R) + 1 <= Cardinality(S)
    <2>1. R \cup {r} \in SUBSET S
      BY <1>5, BeforeOrders
    <2> QED
      BY <1>1, <1>3, <2>1, FS_Subset
  <1>6. Place(rows, r) = 1 + Cardinality(R) /\ Place(rows, s) = 1 + Cardinality(S)
    BY DEF Place
  <1> HIDE DEF R, S
  <1> QED
    BY <1>1, <1>4, <1>5, <1>6

\* A row with a public id of its own has the rank of its own place.
LEMMA RankIs ==
  ASSUME NEW rows \in SUBSET SummaryRow, IsFiniteSet(rows), NEW r \in rows,
         \A s \in rows \ {r} : s.public # r.public
  PROVE  Rank(rows, r) = IF r.status = "complete" THEN Place(Complete(rows), r) ELSE 0
  <1> DEFINE C == Complete(rows)
             namesakes == {s \in C : s.public = r.public}
  <1>1. Rank(rows, r) = IF namesakes = {} THEN 0 ELSE Max({Place(C, s) : s \in namesakes})
    BY Zenon DEF Rank
  <1>2. CASE r.status # "complete"
    <2>1. namesakes = {}
      BY <1>2 DEF Complete
    <2> QED
      BY <1>1, <1>2, <2>1
  <1>3. CASE r.status = "complete"
    <2>1. r \in C /\ namesakes = {r}
      BY <1>3 DEF Complete
    <2>2. C \in SUBSET SummaryRow /\ IsFiniteSet(C) /\ Cardinality(C) \in Nat
      <3>1. C \in SUBSET rows
        BY DEF Complete
      <3> QED
        BY <3>1, FS_Subset, FS_CardinalityType
    <2>3. Place(C, r) \in 1 .. Cardinality(C)
      BY <2>1, <2>2, PlaceIs
    <2>4. {Place(C, s) : s \in namesakes} = {Place(C, r)}
      BY <2>1
    <2> HIDE DEF C
    <2>5. Max({Place(C, r)}) = Place(C, r)
      <3>1. {Place(C, r)} \in SUBSET (1 .. Cardinality(C))
        BY <2>3
      <3> QED
        BY <2>2, <2>3, <3>1, MaxUnique
    <2> QED
      BY <1>1, <1>3, <2>1, <2>4, <2>5 DEF C
  <1> QED
    BY <1>2, <1>3

LEMMA RanksHold == BaseInv /\ LeaderInv => RanksAreEarned
  <1> SUFFICES ASSUME BaseInv, LeaderInv, NEW v \in DOMAIN versions, Readable(leader[v])
               PROVE  LET rows == leader[v].rows
                          alone == {r \in rows : \A s \in rows \ {r} : s.public # r.public}
                      IN /\ \A r \in alone : Rank(rows, r) \in
                              IF r.status = "complete" THEN 1 .. Cardinality(Complete(rows)) ELSE {0}
                         /\ \A r, s \in Complete(alone) : Before(r, s) => Rank(rows, r) < Rank(rows, s)
                         /\ \A r \in alone : r.source = Own.source /\ Rank(rows, r) # 0 =>
                              \A t \in versions[v].suite : Decided(t)
    BY Zenon DEF RanksAreEarned
  <1> DEFINE rows == leader[v].rows
             alone == {r \in rows : \A s \in rows \ {r} : s.public # r.public}
             C == Complete(rows)
  <1>1. RowsEarned(v, rows)
    <2>1. v \in Version
      BY ReleaseAssumption DEF BaseInv, Version
    <2> QED
      BY <2>1 DEF LeaderInv
  <1> HIDE DEF rows
  <1>2. rows \in SUBSET SummaryRow /\ IsFiniteSet(rows)
    BY <1>1 DEF RowsEarned
  <1>3. C \in SUBSET SummaryRow /\ IsFiniteSet(C) /\ C \subseteq rows
    <2>1. C \in SUBSET rows
      BY DEF Complete
    <2> QED
      BY <1>2, <2>1, FS_Subset
  <1>4. \A r \in alone : Rank(rows, r) = IF r.status = "complete" THEN Place(C, r) ELSE 0
    BY <1>2, RankIs
  <1>5. \A r \in Complete(alone) : r \in C /\ r \in alone /\ r.status = "complete"
    BY DEF Complete
  <1>6. ASSUME NEW r \in alone
        PROVE  Rank(rows, r) \in
                 IF r.status = "complete" THEN 1 .. Cardinality(C) ELSE {0}
    <2>1. CASE r.status = "complete"
      <3>1. r \in C
        BY <2>1 DEF Complete
      <3>2. Place(C, r) \in 1 .. Cardinality(C)
        BY <1>3, <3>1, PlaceIs
      <3> HIDE DEF C
      <3> QED
        BY <1>4, <2>1, <3>2
    <2>2. CASE r.status # "complete"
      BY <1>4, <2>2
    <2> QED
      BY <2>1, <2>2
  <1>7. ASSUME NEW r \in Complete(alone), NEW s \in Complete(alone), Before(r, s)
        PROVE  Rank(rows, r) < Rank(rows, s)
    <2>1. Place(C, r) < Place(C, s)
      BY <1>3, <1>5, <1>7, PlaceIs
    <2>2. Rank(rows, r) = Place(C, r) /\ Rank(rows, s) = Place(C, s)
      BY <1>4, <1>5
    <2> QED
      BY <2>1, <2>2
  <1>8. ASSUME NEW r \in alone, r.source = Own.source, Rank(rows, r) # 0,
               NEW t \in versions[v].suite
        PROVE  Decided(t)
    <2>1. r.status = "complete" /\ r \in rows
      BY <1>4, <1>8
    <2> QED
      BY <1>1, <1>8, <2>1 DEF RowsEarned
  <1> QED
    BY <1>6, <1>7, <1>8, Zenon DEF rows

LEMMA PublishedHolds == ReleaseInv /\ PageInv => PublishedAgrees
  <1> SUFFICES ASSUME ReleaseInv, PageInv PROVE PublishedAgrees
    OBVIOUS
  <1>1. DOMAIN versions \subseteq Version
    BY ReleaseAssumption DEF ReleaseInv, BaseInv, Version
  <1>2. PagesAgree
    BY <1>1 DEF PageInv, AgreeInv, PagesAgree
  <1>3. ArchiveIsWhole
    BY <1>1 DEF PageInv, PackInv, ArchiveIsWhole
  <1> QED
    BY <1>2, <1>3, BoardHolds DEF PublishedAgrees

-----------------------------------------------------------------------------
(* The theorems.                                                           *)

\* Whatever happens to the repository and to the runs, an entry counts what its
\* runs decided, and the manifest, the board and the summary of failures agree
\* on whether a run solved its task, but for the solved rows that RefusedByTable
\* names, which the board alone calls invalid.
THEOREM IndexIsTrue == Spec => []IndexIsDecided
  BY StoredTruth, IndexHolds, PTL

\* A result stands for another version only if nothing that its run depends on
\* changed, and what is settled is not run again.
THEOREM PlansAreSound == Spec => []PlanIsSound
  BY StoredTruth, PlanHolds, PTL

\* An index that is made again never drops the result of a completed run with
\* tokens, which it still sees, for one that was broken off or used none.
THEOREM EvidenceStays == Spec => EvidenceNotDisplaced
  <1>1. ReleaseInv /\ [Next]_vars => [EvidenceKept]_vars
    BY EvidenceSteps
  <1>2. [][EvidenceKept]_vars => EvidenceNotDisplaced
    BY DEF EvidenceNotDisplaced, EvidenceKept
  <1> QED
    BY <1>1, <1>2, StoredTruth, PTL DEF Spec

\* Wherever the calls that publish a version are interrupted, and whatever is
\* run and indexed between them, its pages are true to each other.
THEOREM PagesHold == PageSpec => [](ReleaseInv /\ PageInv)
  <1>1. PageInit => PageInv
    BY PageInitFacts
  <1>2. ReleaseInv /\ PageInv /\ [PageNext]_allVars => PageInv'
    BY PageSteps
  <1> QED
    BY <1>1, <1>2, PagesRefine, StoredTruth, PTL DEF PageSpec

\* On every leaderboard that was ever written the complete rows, and no others,
\* are ranked, in the order of their results, and the rank of a model whose runs
\* come and go rests on a verdict for each task.
THEOREM RanksStayEarned == PageSpec => []RanksAreEarned
  <1>1. ReleaseInv /\ PageInv => RanksAreEarned
    BY RanksHold DEF ReleaseInv, PageInv
  <1> QED
    BY <1>1, PagesHold, PTL

\* The table is the aggregate of the runs it covers, the leaderboard is that of
\* the summary, and the package holds what the index selected.
THEOREM PagesStayTrue == PageSpec => []PublishedAgrees
  BY PagesHold, PublishedHolds, PTL
===============================================================================
