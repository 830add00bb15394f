--------------------------- MODULE LifecycleProofs ---------------------------
(***************************************************************************)
(* Module Lifecycle, proved for every set of databases to start from and   *)
(* any number of starts: a database the indexer works on is complete, no   *)
(* upgrade loses a fact, and no script stops over an object that is        *)
(* already there or already gone.                                          *)
(*                                                                         *)
(* The argument follows the scripts statement by statement.                *)
(*   1. What each kind of statement does to the objects and to what they   *)
(*      hold, in terms of Has and At.                                      *)
(*   2. What a database of each version has and holds, between scripts     *)
(*      (Objects, FactsOf) and before each statement of each migration     *)
(*      (ObjectsIn, FactsIn, Fit), and that each statement leads from one  *)
(*      to the next (the lemmas ..._Step), and does not fail there (the    *)
(*      lemmas ..._Fits).                                                  *)
(*   3. The same for up.sql and down.sql.                                  *)
(*   4. The invariant Inv, built of those, its proof, and what follows.    *)
(***************************************************************************)
EXTENDS Lifecycle, TLAPS

\* Objects are pairs, and what they hold is a fact in an object.
Database(d) ==
    /\ \A o \in d.objects : \E t, c : o = <<t, c>>
    /\ \A h \in d.held : \E f, t, c : h = <<f, <<t, c>> >>
    /\ d.version \in Nat

\* The table of the schema version.
Vars == "vars"

\* Object <<t, c>> is there, and holds f.
Has(d, t, c) == <<t, c>> \in d.objects
At(d, f, t, c) == <<f, <<t, c>> >> \in d.held

\* What a statement copies: a fact, from an object to an object.
Copies(cs) == \A c \in cs : \E f, v, j, u, k : c = <<f, <<v, j>>, <<u, k>> >>

-----------------------------------------------------------------------------
(***************************************************************************)
(* What each kind of statement does                                        *)
(***************************************************************************)

\* Table t of d is table n of e, with all that belongs to it.
TableRenamed(d, e, t, n) ==
    /\ Database(e)
    /\ e.version = d.version
    /\ Has(d, t, Whole) /\ ~Has(d, n, Whole)
    /\ \A u, k : Has(e, u, k) <=> (u # t /\ Has(d, u, k)) \/ (u = n /\ Has(d, t, k))
    /\ \A f, u, k :
          At(e, f, u, k) <=> (u # t /\ At(d, f, u, k)) \/ (u = n /\ At(d, f, t, k))

\* Column c of t is column n.
ColumnRenamed(d, e, t, c, n) ==
    /\ Database(e)
    /\ e.version = d.version
    /\ Has(d, t, c) /\ ~Has(d, t, n) /\ c # Whole
    /\ \A u, k :
          Has(e, u, k)
             <=> (~(u = t /\ k = c) /\ Has(d, u, k)) \/ (u = t /\ k = n /\ Has(d, t, c))
    /\ \A f, u, k :
          At(e, f, u, k)
             <=> \/ ~(u = t /\ k = c) /\ At(d, f, u, k)
                 \/ u = t /\ k = n /\ At(d, f, t, c)

\* Table t is new, empty, with the columns and constraints cs.
Created(d, e, t, cs) ==
    /\ Database(e)
    /\ e.version = d.version
    /\ \A u, k : (u = t /\ k \in cs \cup {Whole}) => ~Has(d, u, k)
    /\ \A u, k : Has(e, u, k) <=> Has(d, u, k) \/ (u = t /\ k \in cs \cup {Whole})
    /\ \A f, u, k : At(e, f, u, k) <=> At(d, f, u, k)

\* Table t is new and holds what was copied.
CreatedAs(d, e, t, cs, copies) ==
    /\ Database(e)
    /\ e.version = d.version
    /\ \A f, v, j, u, k : <<f, <<v, j>>, <<u, k>> >> \in copies => Has(d, v, j)
    /\ \A u, k : (u = t /\ k \in cs \cup {Whole}) => ~Has(d, u, k)
    /\ \A u, k : Has(e, u, k) <=> Has(d, u, k) \/ (u = t /\ k \in cs \cup {Whole})
    /\ \A f, u, k :
          At(e, f, u, k)
             <=> \/ At(d, f, u, k)
                 \/ /\ Joined(f)
                    /\ \E v, j : <<f, <<v, j>>, <<u, k>> >> \in copies /\ At(d, f, v, j)

\* What was copied between tables is held in both places.
CopiedRows(d, e, copies, rows) ==
    /\ Database(e)
    /\ e.version = d.version
    /\ \A f, v, j, u, k : <<f, <<v, j>>, <<u, k>> >> \in copies
                             => Has(d, v, j) /\ Has(d, u, k)
    /\ \A f, u, k : <<f, <<u, k>> >> \in rows => At(d, f, u, k)
    /\ \A u, k : Has(e, u, k) <=> Has(d, u, k)
    /\ \A f, u, k :
          At(e, f, u, k)
             <=> \/ At(d, f, u, k)
                 \/ /\ Joined(f)
                    /\ \E v, j : <<f, <<v, j>>, <<u, k>> >> \in copies /\ At(d, f, v, j)

\* Table t is gone with all it held.
TableDropped(d, e, t) ==
    /\ Database(e)
    /\ e.version = d.version
    /\ Has(d, t, Whole)
    /\ \A u, k : Has(e, u, k) <=> Has(d, u, k) /\ u # t
    /\ \A f, u, k : At(e, f, u, k) <=> At(d, f, u, k) /\ u # t

\* Column c of t is gone with all it held.
ColumnDropped(d, e, t, c) ==
    /\ Database(e)
    /\ e.version = d.version
    /\ Has(d, t, c) /\ c # Whole
    /\ \A u, k : Has(e, u, k) <=> Has(d, u, k) /\ ~(u = t /\ k = c)
    /\ \A f, u, k : At(e, f, u, k) <=> At(d, f, u, k) /\ ~(u = t /\ k = c)

\* Table t is gone, if it was there; the version with vars.
DroppedIfExists(d, e, t) ==
    /\ Database(e)
    /\ e.version = IF t = Vars THEN 0 ELSE d.version
    /\ \A u, k : Has(e, u, k) <=> Has(d, u, k) /\ u # t
    /\ \A f, u, k : At(e, f, u, k) <=> At(d, f, u, k) /\ u # t

\* Column or constraint c of t is new.
Added(d, e, t, c) ==
    /\ Database(e)
    /\ e.version = d.version
    /\ Has(d, t, Whole) /\ ~Has(d, t, c)
    /\ \A u, k : Has(e, u, k) <=> Has(d, u, k) \/ (u = t /\ k = c)
    /\ \A f, u, k : At(e, f, u, k) <=> At(d, f, u, k)

\* Table t is changed in a way no property tells apart.
Altered(d, e, t) ==
    /\ Database(e)
    /\ e.version = d.version
    /\ Has(d, t, Whole)
    /\ \A u, k : Has(e, u, k) <=> Has(d, u, k)
    /\ \A f, u, k : At(e, f, u, k) <=> At(d, f, u, k)

\* The version is v.
VersionSet(d, e, v) ==
    /\ Database(e)
    /\ e.version = v
    /\ Has(d, Vars, Whole)
    /\ \A u, k : Has(e, u, k) <=> Has(d, u, k)
    /\ \A f, u, k : At(e, f, u, k) <=> At(d, f, u, k)

\* What a statement leaves of schema_version: dropping vars takes it along.
LEMMA VersionAfter ==
  ASSUME NEW d, NEW s
  PROVE  Execute(d, s).version = IF <<Vars, Whole>> \in s.drops THEN 0
                                 ELSE IF s.version # 0 THEN s.version ELSE d.version
  BY DEF Execute, NoVersion, Table, Vars

\* The version stays a number.
LEMMA VersionType ==
  ASSUME NEW d, NEW s, d.version \in Nat, s.version \in Nat
  PROVE  Execute(d, s).version \in Nat
<1> DEFINE v == Execute(d, s).version
<1>1. v = IF <<Vars, Whole>> \in s.drops THEN 0
          ELSE IF s.version # 0 THEN s.version ELSE d.version
  BY VersionAfter
<1> HIDE DEF v
<1>2. v \in Nat
  BY <1>1
<1> QED BY <1>2 DEF v

\* The objects after a statement, one by one.
LEMMA ObjectsAfter ==
  ASSUME NEW d, NEW s, NEW o
  PROVE  o \in Execute(d, s).objects
            <=> \E p : (p \in d.objects \/ p \in s.makes) /\ ~Gone(p, s) /\ o = NewName(p, s)
  BY DEF Execute

\* ... and what they hold.
LEMMA HeldAfter ==
  ASSUME NEW d, NEW s, NEW g
  PROVE  g \in Execute(d, s).held
            <=> \E h : /\ h \in d.held \/ h \in Copied(d, s)
                       /\ ~Gone(h[2], s) /\ g = <<h[1], NewName(h[2], s)>>
  BY DEF Execute

\* Copied in terms of At: a fact arrives with a copy from where it is held.
LEMMA CopiedFrom ==
  ASSUME NEW d, NEW s, Copies(s.copies)
  PROVE  /\ \A f, u, k : <<f, <<u, k>> >> \in Copied(d, s)
               <=> /\ Joined(f)
                   /\ \E v, j : <<f, <<v, j>>, <<u, k>> >> \in s.copies /\ At(d, f, v, j)
         /\ \A h \in Copied(d, s) : \E f, u, k : h = <<f, <<u, k>> >>
<1>1. ASSUME NEW h \in Copied(d, s)
      PROVE  \E f, u, k, v, j : /\ h = <<f, <<u, k>> >>
                                /\ <<f, <<v, j>>, <<u, k>> >> \in s.copies
                                /\ At(d, f, v, j) /\ Joined(f)
  <2>1. PICK c \in s.copies :
           h = <<c[1], c[3]>> /\ <<c[1], c[2]>> \in d.held /\ Joined(c[1])
    BY DEF Copied
  <2>2. PICK f, v, j, u, k : c = <<f, <<v, j>>, <<u, k>> >>
    BY DEF Copies
  <2>3. c[1] = f /\ c[2] = <<v, j>> /\ c[3] = <<u, k>>
    BY <2>2
  <2> QED BY <2>1, <2>2, <2>3 DEF At
<1>2. ASSUME NEW f, NEW u, NEW k, NEW v, NEW j,
             <<f, <<v, j>>, <<u, k>> >> \in s.copies, At(d, f, v, j), Joined(f)
      PROVE  <<f, <<u, k>> >> \in Copied(d, s)
  <2> DEFINE c == <<f, <<v, j>>, <<u, k>> >>
  <2>1. c[1] = f /\ c[2] = <<v, j>> /\ c[3] = <<u, k>>
    OBVIOUS
  <2>2. c \in s.copies
    BY <1>2
  <2> HIDE DEF c
  <2> QED BY <2>1, <2>2, <1>2 DEF Copied, At
<1>3. \A h \in Copied(d, s) : \E f, u, k : h = <<f, <<u, k>> >>
  <2> TAKE h \in Copied(d, s)
  <2>1. PICK f, u, k, v, j : /\ h = <<f, <<u, k>> >>
                             /\ <<f, <<v, j>>, <<u, k>> >> \in s.copies
                             /\ At(d, f, v, j)
    BY <1>1
  <2> QED BY <2>1
<1>4. ASSUME NEW f, NEW u, NEW k, <<f, <<u, k>> >> \in Copied(d, s)
      PROVE  /\ Joined(f)
             /\ \E v, j : <<f, <<v, j>>, <<u, k>> >> \in s.copies /\ At(d, f, v, j)
  <2>1. PICK g, w, l, v, j : /\ <<f, <<u, k>> >> = <<g, <<w, l>> >>
                             /\ <<g, <<v, j>>, <<w, l>> >> \in s.copies
                             /\ At(d, g, v, j) /\ Joined(g)
    BY <1>1, <1>4
  <2>2. f = g /\ u = w /\ k = l
    BY <2>1
  <2> QED BY <2>1, <2>2
<1> QED BY <1>2, <1>3, <1>4

\* A statement that is accepted found what it needs,
LEMMA NeedsMet ==
  ASSUME NEW d, NEW s, ~Fails(d, s)
  PROVE  \A o \in s.needs : o \in d.objects
  BY DEF Fails

\* ... made nothing that was already there,
LEMMA NothingMadeTwice ==
  ASSUME NEW d, NEW s, ~Fails(d, s)
  PROVE  \A o \in s.makes : o \notin d.objects
  BY DEF Fails

\* ... and renamed to a name that was free.
LEMMA NameIsFree ==
  ASSUME NEW d, NEW s, ~Fails(d, s), s.rename # <<>>
  PROVE  s.rename[2] \notin d.objects
  BY DEF Fails

\* The effect of a statement that renames nothing.
LEMMA PlainEffect ==
  ASSUME NEW d, Database(d), NEW s, s.rename = <<>>,
         \A o \in s.makes : \E t, c : o = <<t, c>>,
         \A h \in Copied(d, s) : \E f, t, c : h = <<f, <<t, c>> >>,
         s.version \in Nat
  PROVE  /\ Database(Execute(d, s))
         /\ \A u, k :
               Has(Execute(d, s), u, k)
                  <=> (Has(d, u, k) \/ <<u, k>> \in s.makes) /\ ~Gone(<<u, k>>, s)
         /\ \A f, u, k :
               At(Execute(d, s), f, u, k)
                  <=> (At(d, f, u, k) \/ <<f, <<u, k>> >> \in Copied(d, s))
                      /\ ~Gone(<<u, k>>, s)
<1> DEFINE e == Execute(d, s)
<1>1. \A o : NewName(o, s) = o
  BY DEF NewName
<1>2. \A o : o \in e.objects <=> (o \in d.objects \/ o \in s.makes) /\ ~Gone(o, s)
  BY <1>1, ObjectsAfter
<1>4. \A h : h \in d.held \/ h \in Copied(d, s) => h = <<h[1], h[2]>>
  BY DEF Database
<1>5. \A h : h \in e.held <=> (h \in d.held \/ h \in Copied(d, s)) /\ ~Gone(h[2], s)
  <2> HIDE DEF e
  <2>1. \A g : g \in e.held
            <=> \E h : /\ h \in d.held \/ h \in Copied(d, s)
                       /\ ~Gone(h[2], s) /\ g = <<h[1], h[2]>>
    BY <1>1, HeldAfter DEF e
  <2> QED BY <1>4, <2>1
<1>6. Database(e)
  <2>1. e.version \in Nat
    BY VersionType DEF Database
  <2> HIDE DEF e
  <2> QED BY <2>1, <1>2, <1>5 DEF Database
<1> HIDE DEF e
<1>7. \A u, k :
               Has(e, u, k) <=> (Has(d, u, k) \/ <<u, k>> \in s.makes) /\ ~Gone(<<u, k>>, s)
  BY <1>2 DEF Has
<1>8. \A f, u, k :
               At(e, f, u, k) <=> (At(d, f, u, k) \/ <<f, <<u, k>> >> \in Copied(d, s))
                                  /\ ~Gone(<<u, k>>, s)
  <2> TAKE f, u, k
  <2> DEFINE h == <<f, <<u, k>> >>
  <2>1. h[2] = <<u, k>>
    OBVIOUS
  <2> QED BY <2>1, <1>5 DEF At
<1> QED BY <1>6, <1>7, <1>8 DEF e

\* ALTER TABLE ... RENAME TO moves a table with all that belongs to it.
LEMMA RenameTableEffect ==
  ASSUME NEW d, Database(d), NEW t, NEW n, NEW s, NEW e,
         s = Rename(Table(t), Table(n)), ~Fails(d, s), e = Execute(d, s)
  PROVE  TableRenamed(d, e, t, n)
<1>1. s.makes = {} /\ s.drops = {} /\ s.copies = {} /\ s.version = 0 /\ s.needs = {<<t, Whole>>}
  BY DEF Rename, Statement, NoVersion, Table
<1>2. s.rename = << <<t, Whole>>, <<n, Whole>> >>
  BY DEF Rename, Statement, Table
<1>3. \A v, j : /\ (v = t) => NewName(<<v, j>>, s) = <<n, j>>
                /\ ~(v = t) => NewName(<<v, j>>, s) = <<v, j>>
  <2> TAKE v, j
  <2>1. s.rename # <<>> /\ s.rename[1] = <<t, Whole>> /\ s.rename[2] = <<n, Whole>>
    BY <1>2
  <2>2. BelongsTo(<<v, j>>, <<t, Whole>>) <=> v = t
    BY DEF BelongsTo
  <2>3. NewName(<<v, j>>, s) =
           IF BelongsTo(<<v, j>>, <<t, Whole>>)
           THEN <<s.rename[2][1],
                  IF s.rename[1][2] = Whole THEN <<v, j>>[2] ELSE s.rename[2][2]>>
           ELSE <<v, j>>
    BY <2>1 DEF NewName
  <2> QED BY <2>1, <2>2, <2>3
<1>4. \A o : ~Gone(o, s) /\ o \notin s.makes
  BY <1>1 DEF Gone
<1>5. \A h : h \notin Copied(d, s)
  BY <1>1 DEF Copied
<1>6. e.version = d.version
  BY <1>1, VersionAfter
<1>7. Has(d, t, Whole) /\ ~Has(d, n, Whole)
  <2>1. s.rename # <<>> /\ s.rename[2] = <<n, Whole>>
    BY <1>2
  <2> QED BY <1>1, <2>1, NeedsMet, NameIsFree DEF Has
<1>8. \A o : o \in e.objects <=> \E p \in d.objects : o = NewName(p, s)
  BY <1>4, ObjectsAfter
<1>9. \A g : g \in e.held <=> \E h \in d.held : g = <<h[1], NewName(h[2], s)>>
  BY <1>4, <1>5, HeldAfter
<1>10. \A f, v, j : <<f, <<v, j>> >>[1] = f /\ <<f, <<v, j>> >>[2] = <<v, j>>
  OBVIOUS
<1>11. Database(e)
  <2>1. ASSUME NEW o \in e.objects PROVE \E v, j : o = <<v, j>>
    <3>1. PICK p \in d.objects : o = NewName(p, s)
      BY <1>8
    <3>2. PICK v, j : p = <<v, j>>
      BY DEF Database
    <3> QED BY <3>1, <3>2, <1>3
  <2>2. ASSUME NEW g \in e.held PROVE \E f, v, j : g = <<f, <<v, j>> >>
    <3>1. PICK h \in d.held : g = <<h[1], NewName(h[2], s)>>
      BY <1>9
    <3>2. PICK f, v, j : h = <<f, <<v, j>> >>
      BY DEF Database
    <3>3. g = <<f, NewName(<<v, j>>, s)>>
      BY <3>1, <3>2, <1>10
    <3>4. CASE v = t
      BY <3>3, <3>4, <1>3
    <3>5. CASE ~(v = t)
      BY <3>3, <3>5, <1>3
    <3> QED BY <3>4, <3>5
  <2> QED BY <2>1, <2>2, <1>6 DEF Database
<1>12. ASSUME NEW u, NEW k
       PROVE  Has(e, u, k) <=> (u # t /\ Has(d, u, k)) \/ (u = n /\ Has(d, t, k))
  <2>1. ASSUME Has(e, u, k) PROVE (u # t /\ Has(d, u, k)) \/ (u = n /\ Has(d, t, k))
    <3>1. PICK p \in d.objects : <<u, k>> = NewName(p, s)
      BY <2>1, <1>8 DEF Has
    <3>2. PICK v, j : p = <<v, j>>
      BY DEF Database
    <3>3. Has(d, v, j) /\ <<u, k>> = NewName(<<v, j>>, s)
      BY <3>1, <3>2 DEF Has
    <3>4. CASE v = t
      BY <3>3, <3>4, <1>3
    <3>5. CASE ~(v = t)
      BY <3>3, <3>5, <1>3
    <3> QED BY <3>4, <3>5
  <2>2. ASSUME NEW v, NEW j, Has(d, v, j), NewName(<<v, j>>, s) = <<u, k>> PROVE Has(e, u, k)
    BY <2>2, <1>8 DEF Has
  <2> QED BY <2>1, <2>2, <1>3
<1>13. ASSUME NEW f, NEW u, NEW k
       PROVE  At(e, f, u, k) <=> (u # t /\ At(d, f, u, k)) \/ (u = n /\ At(d, f, t, k))
  <2>1. ASSUME At(e, f, u, k) PROVE (u # t /\ At(d, f, u, k)) \/ (u = n /\ At(d, f, t, k))
    <3>1. PICK h \in d.held : <<f, <<u, k>> >> = <<h[1], NewName(h[2], s)>>
      BY <2>1, <1>9 DEF At
    <3>2. PICK g, v, j : h = <<g, <<v, j>> >>
      BY DEF Database
    <3>3. f = g /\ <<u, k>> = NewName(<<v, j>>, s)
      BY <3>1, <3>2, <1>10
    <3>4. At(d, f, v, j)
      BY <3>2, <3>3 DEF At
    <3>5. CASE v = t
      BY <3>3, <3>4, <3>5, <1>3
    <3>6. CASE ~(v = t)
      BY <3>3, <3>4, <3>6, <1>3
    <3> QED BY <3>5, <3>6
  <2>2. ASSUME NEW v, NEW j, At(d, f, v, j), NewName(<<v, j>>, s) = <<u, k>>
        PROVE  At(e, f, u, k)
    <3>1. <<f, <<u, k>> >> = << <<f, <<v, j>> >>[1], NewName(<<f, <<v, j>> >>[2], s)>>
      BY <2>2, <1>10
    <3> QED BY <3>1, <2>2, <1>9 DEF At
  <2> QED BY <2>1, <2>2, <1>3
<1> QED BY <1>6, <1>7, <1>11, <1>12, <1>13 DEF TableRenamed

\* ALTER TABLE ... RENAME COLUMN
LEMMA RenameColumnEffect ==
  ASSUME NEW d, Database(d), NEW t, NEW c, NEW n, NEW s, NEW e, c # Whole,
         s = Rename(<<t, c>>, <<t, n>>), ~Fails(d, s), e = Execute(d, s)
  PROVE  ColumnRenamed(d, e, t, c, n)
<1>1. s.makes = {} /\ s.drops = {} /\ s.copies = {} /\ s.version = 0 /\ s.needs = {<<t, c>>}
  BY DEF Rename, Statement, NoVersion, Table
<1>2. s.rename = << <<t, c>>, <<t, n>> >>
  BY DEF Rename, Statement, Table
<1>3. \A v, j : /\ (v = t /\ j = c) => NewName(<<v, j>>, s) = <<t, n>>
                /\ ~(v = t /\ j = c) => NewName(<<v, j>>, s) = <<v, j>>
  <2> TAKE v, j
  <2>1. s.rename # <<>> /\ s.rename[1] = <<t, c>> /\ s.rename[2] = <<t, n>>
    BY <1>2
  <2>2. BelongsTo(<<v, j>>, <<t, c>>) <=> v = t /\ j = c
    BY DEF BelongsTo
  <2>3. NewName(<<v, j>>, s) =
           IF BelongsTo(<<v, j>>, <<t, c>>)
           THEN <<s.rename[2][1],
                  IF s.rename[1][2] = Whole THEN <<v, j>>[2] ELSE s.rename[2][2]>>
           ELSE <<v, j>>
    BY <2>1 DEF NewName
  <2> QED BY <2>1, <2>2, <2>3
<1>4. \A o : ~Gone(o, s) /\ o \notin s.makes
  BY <1>1 DEF Gone
<1>5. \A h : h \notin Copied(d, s)
  BY <1>1 DEF Copied
<1>6. e.version = d.version
  BY <1>1, VersionAfter
<1>7. Has(d, t, c) /\ ~Has(d, t, n)
  <2>1. s.rename # <<>> /\ s.rename[2] = <<t, n>>
    BY <1>2
  <2> QED BY <1>1, <2>1, NeedsMet, NameIsFree DEF Has
<1>8. \A o : o \in e.objects <=> \E p \in d.objects : o = NewName(p, s)
  BY <1>4, ObjectsAfter
<1>9. \A g : g \in e.held <=> \E h \in d.held : g = <<h[1], NewName(h[2], s)>>
  BY <1>4, <1>5, HeldAfter
<1>10. \A f, v, j : <<f, <<v, j>> >>[1] = f /\ <<f, <<v, j>> >>[2] = <<v, j>>
  OBVIOUS
<1>11. Database(e)
  <2>1. ASSUME NEW o \in e.objects PROVE \E v, j : o = <<v, j>>
    <3>1. PICK p \in d.objects : o = NewName(p, s)
      BY <1>8
    <3>2. PICK v, j : p = <<v, j>>
      BY DEF Database
    <3> QED BY <3>1, <3>2, <1>3
  <2>2. ASSUME NEW g \in e.held PROVE \E f, v, j : g = <<f, <<v, j>> >>
    <3>1. PICK h \in d.held : g = <<h[1], NewName(h[2], s)>>
      BY <1>9
    <3>2. PICK f, v, j : h = <<f, <<v, j>> >>
      BY DEF Database
    <3>3. g = <<f, NewName(<<v, j>>, s)>>
      BY <3>1, <3>2, <1>10
    <3>4. CASE v = t /\ j = c
      BY <3>3, <3>4, <1>3
    <3>5. CASE ~(v = t /\ j = c)
      BY <3>3, <3>5, <1>3
    <3> QED BY <3>4, <3>5
  <2> QED BY <2>1, <2>2, <1>6 DEF Database
<1>12. ASSUME NEW u, NEW k
       PROVE  Has(e, u, k)
                <=> (~(u = t /\ k = c) /\ Has(d, u, k)) \/ (u = t /\ k = n /\ Has(d, t, c))
  <2>1. ASSUME Has(e, u, k)
        PROVE  (~(u = t /\ k = c) /\ Has(d, u, k)) \/ (u = t /\ k = n /\ Has(d, t, c))
    <3>1. PICK p \in d.objects : <<u, k>> = NewName(p, s)
      BY <2>1, <1>8 DEF Has
    <3>2. PICK v, j : p = <<v, j>>
      BY DEF Database
    <3>3. Has(d, v, j) /\ <<u, k>> = NewName(<<v, j>>, s)
      BY <3>1, <3>2 DEF Has
    <3>4. CASE v = t /\ j = c
      BY <3>3, <3>4, <1>3
    <3>5. CASE ~(v = t /\ j = c)
      BY <3>3, <3>5, <1>3
    <3> QED BY <3>4, <3>5
  <2>2. ASSUME NEW v, NEW j, Has(d, v, j), NewName(<<v, j>>, s) = <<u, k>> PROVE Has(e, u, k)
    BY <2>2, <1>8 DEF Has
  <2> QED BY <2>1, <2>2, <1>3
<1>13. ASSUME NEW f, NEW u, NEW k
       PROVE  At(e, f, u, k)
                <=> (~(u = t /\ k = c) /\ At(d, f, u, k)) \/ (u = t /\ k = n /\ At(d, f, t, c))
  <2>1. ASSUME At(e, f, u, k)
        PROVE  (~(u = t /\ k = c) /\ At(d, f, u, k)) \/ (u = t /\ k = n /\ At(d, f, t, c))
    <3>1. PICK h \in d.held : <<f, <<u, k>> >> = <<h[1], NewName(h[2], s)>>
      BY <2>1, <1>9 DEF At
    <3>2. PICK g, v, j : h = <<g, <<v, j>> >>
      BY DEF Database
    <3>3. f = g /\ <<u, k>> = NewName(<<v, j>>, s)
      BY <3>1, <3>2, <1>10
    <3>4. At(d, f, v, j)
      BY <3>2, <3>3 DEF At
    <3>5. CASE v = t /\ j = c
      BY <3>3, <3>4, <3>5, <1>3
    <3>6. CASE ~(v = t /\ j = c)
      BY <3>3, <3>4, <3>6, <1>3
    <3> QED BY <3>5, <3>6
  <2>2. ASSUME NEW v, NEW j, At(d, f, v, j), NewName(<<v, j>>, s) = <<u, k>>
        PROVE  At(e, f, u, k)
    <3>1. <<f, <<u, k>> >> = << <<f, <<v, j>> >>[1], NewName(<<f, <<v, j>> >>[2], s)>>
      BY <2>2, <1>10
    <3> QED BY <3>1, <2>2, <1>9 DEF At
  <2> QED BY <2>1, <2>2, <1>3
<1> QED BY <1>6, <1>7, <1>11, <1>12, <1>13 DEF ColumnRenamed
-----------------------------------------------------------------------------
\* CREATE TABLE and CREATE TYPE
LEMMA CreateEffect ==
  ASSUME NEW d, Database(d), NEW t, NEW cs, NEW s, NEW e,
         s = Create(t, cs), ~Fails(d, s), e = Execute(d, s)
  PROVE  Created(d, e, t, cs)
<1>1. s.rename = <<>> /\ s.drops = {} /\ s.copies = {} /\ s.version = 0
  BY DEF Create, Statement, NoVersion, Table, Vars
<1>2. s.makes = {<<t, c>> : c \in cs \cup {Whole}}
  BY DEF Create, Statement, Table, Columns
<1>3. /\ \A u, k : <<u, k>> \in s.makes <=> (u = t /\ k \in cs \cup {Whole})
      /\ \A o \in s.makes : \E u, k : o = <<u, k>>
  BY <1>2
<1>4. \A u, k : (u = t /\ k \in cs \cup {Whole}) => ~Has(d, u, k)
  BY <1>3, NothingMadeTwice DEF Has
<1>5. \A o : ~Gone(o, s)
  BY <1>1 DEF Gone
<1>7. \A h : h \notin Copied(d, s)
  BY <1>1 DEF Copied
<1>9. e.version = d.version /\ s.version \in Nat
  BY <1>1, VersionAfter
<1>10. /\ Database(e)
       /\ \A u, k : Has(e, u, k)
            <=> (Has(d, u, k) \/ <<u, k>> \in s.makes) /\ ~Gone(<<u, k>>, s)
       /\ \A f, u, k :
             At(e, f, u, k)
                <=> (At(d, f, u, k) \/ <<f, <<u, k>> >> \in Copied(d, s)) /\ ~Gone(<<u, k>>, s)
  BY <1>1, <1>3, <1>7, <1>9, PlainEffect
<1> QED BY <1>4, <1>3, <1>5, <1>7, <1>9, <1>10 DEF Created

\* CREATE TABLE AS SELECT
LEMMA CreateAsEffect ==
  ASSUME NEW d, Database(d), NEW t, NEW cs, NEW copies, NEW s, NEW e, Copies(copies),
         s = CreateAs(t, cs, copies), ~Fails(d, s), e = Execute(d, s)
  PROVE  CreatedAs(d, e, t, cs, copies)
<1>1. s.rename = <<>> /\ s.drops = {} /\ s.needs = {c[2] : c \in copies} /\ s.version = 0
  BY DEF CreateAs, Statement, NoVersion, Table, Vars
<1>2. s.makes = {<<t, c>> : c \in cs \cup {Whole}}
  BY DEF CreateAs, Statement, Table, Columns
<1>3. /\ \A u, k : <<u, k>> \in s.makes <=> (u = t /\ k \in cs \cup {Whole})
      /\ \A o \in s.makes : \E u, k : o = <<u, k>>
  BY <1>2
<1>4. \A u, k : (u = t /\ k \in cs \cup {Whole}) => ~Has(d, u, k)
  BY <1>3, NothingMadeTwice DEF Has
<1>5. \A o : ~Gone(o, s)
  BY <1>1 DEF Gone
<1>6. s.copies = copies
  BY DEF CreateAs, Statement
<1>7. \A f, u, k : <<f, <<u, k>> >> \in Copied(d, s)
         <=> /\ Joined(f)
             /\ \E v, j : <<f, <<v, j>>, <<u, k>> >> \in copies /\ At(d, f, v, j)
  BY <1>6, CopiedFrom
<1>8. \A h \in Copied(d, s) : \E f, u, k : h = <<f, <<u, k>> >>
  BY <1>6, CopiedFrom
<1>9. e.version = d.version /\ s.version \in Nat
  BY <1>1, VersionAfter
<1>10. /\ Database(e)
       /\ \A u, k : Has(e, u, k)
            <=> (Has(d, u, k) \/ <<u, k>> \in s.makes) /\ ~Gone(<<u, k>>, s)
       /\ \A f, u, k :
             At(e, f, u, k)
                <=> (At(d, f, u, k) \/ <<f, <<u, k>> >> \in Copied(d, s)) /\ ~Gone(<<u, k>>, s)
  BY <1>1, <1>3, <1>7, <1>8, <1>9, PlainEffect
<1>11. \A f, v, j, u, k : <<f, <<v, j>>, <<u, k>> >> \in copies => Has(d, v, j)
  <2> TAKE f, v, j, u, k
  <2> DEFINE c == <<f, <<v, j>>, <<u, k>> >>
  <2>1. c[2] = <<v, j>>
    OBVIOUS
  <2> HIDE DEF c
  <2>2. c \in copies => Has(d, v, j)
    BY <2>1, <1>1, NeedsMet DEF Has
  <2> QED BY <2>2 DEF c
<1> QED BY <1>4, <1>3, <1>5, <1>7, <1>8, <1>9, <1>10, <1>11 DEF CreatedAs

\* INSERT INTO ... SELECT and UPDATE ... FROM, which may ask for rows
LEMMA CopyEffect ==
  ASSUME NEW d, Database(d), NEW copies, NEW rows, NEW s, NEW e, Copies(copies),
         s = Copy(copies, rows), ~Fails(d, s), e = Execute(d, s)
  PROVE  CopiedRows(d, e, copies, rows)
<1>1. s.rename = <<>> /\ s.drops = {} /\ s.makes = {}
      /\ s.needs = {c[2] : c \in copies} \cup {c[3] : c \in copies} /\ s.version = 0
  BY DEF Copy, Statement, NoVersion, Table, Vars
<1>3. \A o : o \notin s.makes
  BY <1>1
<1>5. \A o : ~Gone(o, s)
  BY <1>1 DEF Gone
<1>6. s.copies = copies
  BY DEF Copy, Statement
<1>7. \A f, u, k : <<f, <<u, k>> >> \in Copied(d, s)
         <=> /\ Joined(f)
             /\ \E v, j : <<f, <<v, j>>, <<u, k>> >> \in copies /\ At(d, f, v, j)
  BY <1>6, CopiedFrom
<1>8. \A h \in Copied(d, s) : \E f, u, k : h = <<f, <<u, k>> >>
  BY <1>6, CopiedFrom
<1>9. e.version = d.version /\ s.version \in Nat
  BY <1>1, VersionAfter
<1>10. /\ Database(e)
       /\ \A u, k : Has(e, u, k)
            <=> (Has(d, u, k) \/ <<u, k>> \in s.makes) /\ ~Gone(<<u, k>>, s)
       /\ \A f, u, k :
             At(e, f, u, k)
                <=> (At(d, f, u, k) \/ <<f, <<u, k>> >> \in Copied(d, s)) /\ ~Gone(<<u, k>>, s)
  BY <1>1, <1>3, <1>7, <1>8, <1>9, PlainEffect
<1>11. \A f, v, j, u, k : <<f, <<v, j>>, <<u, k>> >> \in copies
                            => Has(d, v, j) /\ Has(d, u, k)
  <2> TAKE f, v, j, u, k
  <2> DEFINE c == <<f, <<v, j>>, <<u, k>> >>
  <2>1. c[2] = <<v, j>> /\ c[3] = <<u, k>>
    OBVIOUS
  <2> HIDE DEF c
  <2>2. c \in copies => Has(d, v, j) /\ Has(d, u, k)
    BY <2>1, <1>1, NeedsMet DEF Has
  <2> QED BY <2>2 DEF c
<1>12. \A f, u, k : <<f, <<u, k>> >> \in rows => At(d, f, u, k)
  <2>1. s.rows = rows
    BY DEF Copy, Statement
  <2> QED BY <2>1 DEF Fails, At
<1>13. \A f, u, k :
          At(e, f, u, k)
             <=> \/ At(d, f, u, k)
                 \/ /\ Joined(f)
                    /\ \E v, j : <<f, <<v, j>>, <<u, k>> >> \in copies /\ At(d, f, v, j)
  BY <1>5, <1>7, <1>10
<1>14. \A u, k : Has(e, u, k) <=> Has(d, u, k)
  BY <1>3, <1>5, <1>10
<1> QED BY <1>9, <1>10, <1>11, <1>12, <1>13, <1>14 DEF CopiedRows

\* DROP TABLE
LEMMA DropTableEffect ==
  ASSUME NEW d, Database(d), NEW t, NEW s, NEW e, t # Vars,
         s = Drop(Table(t)), ~Fails(d, s), e = Execute(d, s)
  PROVE  TableDropped(d, e, t)
<1>1. /\ s.rename = <<>> /\ s.makes = {} /\ s.drops = {<<t, Whole>>}
      /\ s.needs = {<<t, Whole>>} /\ s.copies = {}
      /\ s.version = 0
  BY DEF Drop, Statement, NoVersion, Table, Vars
<1>3. \A o : o \notin s.makes
  BY <1>1
<1>5. \A u, k : Gone(<<u, k>>, s) <=> u = t
  BY <1>1 DEF Gone, BelongsTo
<1>7. \A h : h \notin Copied(d, s)
  BY <1>1 DEF Copied
<1>9. e.version = d.version /\ s.version \in Nat
  BY <1>1, VersionAfter
<1>10. /\ Database(e)
       /\ \A u, k : Has(e, u, k)
            <=> (Has(d, u, k) \/ <<u, k>> \in s.makes) /\ ~Gone(<<u, k>>, s)
       /\ \A f, u, k :
             At(e, f, u, k)
                <=> (At(d, f, u, k) \/ <<f, <<u, k>> >> \in Copied(d, s)) /\ ~Gone(<<u, k>>, s)
  BY <1>1, <1>3, <1>7, <1>9, PlainEffect
<1>11. Has(d, t, Whole)
  BY <1>1, NeedsMet DEF Has
<1> QED BY <1>3, <1>5, <1>7, <1>9, <1>10, <1>11 DEF TableDropped

\* DROP COLUMN
LEMMA DropColumnEffect ==
  ASSUME NEW d, Database(d), NEW t, NEW c, NEW s, NEW e, c # Whole,
         s = Drop(<<t, c>>), ~Fails(d, s), e = Execute(d, s)
  PROVE  ColumnDropped(d, e, t, c)
<1>1. /\ s.rename = <<>> /\ s.makes = {} /\ s.drops = {<<t, c>>}
      /\ s.needs = {<<t, c>>} /\ s.copies = {}
      /\ s.version = 0
  BY DEF Drop, Statement, NoVersion, Table, Vars
<1>3. \A o : o \notin s.makes
  BY <1>1
<1>5. \A u, k : Gone(<<u, k>>, s) <=> (u = t /\ k = c)
  BY <1>1 DEF Gone, BelongsTo
<1>7. \A h : h \notin Copied(d, s)
  BY <1>1 DEF Copied
<1>9. e.version = d.version /\ s.version \in Nat
  BY <1>1, VersionAfter
<1>10. /\ Database(e)
       /\ \A u, k : Has(e, u, k)
            <=> (Has(d, u, k) \/ <<u, k>> \in s.makes) /\ ~Gone(<<u, k>>, s)
       /\ \A f, u, k :
             At(e, f, u, k)
                <=> (At(d, f, u, k) \/ <<f, <<u, k>> >> \in Copied(d, s)) /\ ~Gone(<<u, k>>, s)
  BY <1>1, <1>3, <1>7, <1>9, PlainEffect
<1>11. Has(d, t, c)
  BY <1>1, NeedsMet DEF Has
<1> QED BY <1>3, <1>5, <1>7, <1>9, <1>10, <1>11 DEF ColumnDropped

\* DROP ... IF EXISTS
LEMMA DropIfExistsEffect ==
  ASSUME NEW d, Database(d), NEW t, NEW s, NEW e,
         s = DropIfExists(Table(t)), ~Fails(d, s), e = Execute(d, s)
  PROVE  DroppedIfExists(d, e, t)
<1>1. /\ s.rename = <<>> /\ s.makes = {} /\ s.drops = {<<t, Whole>>}
      /\ s.copies = {} /\ s.version = 0
  BY DEF DropIfExists, Statement, NoVersion, Table, Vars
<1>3. \A o : o \notin s.makes
  BY <1>1
<1>5. \A u, k : Gone(<<u, k>>, s) <=> u = t
  BY <1>1 DEF Gone, BelongsTo
<1>7. \A h : h \notin Copied(d, s)
  BY <1>1 DEF Copied
<1>9. e.version = (IF t = Vars THEN 0 ELSE d.version) /\ s.version \in Nat
  BY <1>1, VersionAfter
<1>10. /\ Database(e)
       /\ \A u, k : Has(e, u, k)
            <=> (Has(d, u, k) \/ <<u, k>> \in s.makes) /\ ~Gone(<<u, k>>, s)
       /\ \A f, u, k :
             At(e, f, u, k)
                <=> (At(d, f, u, k) \/ <<f, <<u, k>> >> \in Copied(d, s)) /\ ~Gone(<<u, k>>, s)
  BY <1>1, <1>3, <1>7, <1>9, PlainEffect
<1> QED BY <1>3, <1>5, <1>7, <1>9, <1>10 DEF DroppedIfExists

\* ADD COLUMN, ADD PRIMARY KEY, ADD UNIQUE and ADD ATTRIBUTE
LEMMA AddEffect ==
  ASSUME NEW d, Database(d), NEW t, NEW c, NEW s, NEW e,
         s = Add(t, c), ~Fails(d, s), e = Execute(d, s)
  PROVE  Added(d, e, t, c)
<1>1. /\ s.rename = <<>> /\ s.drops = {} /\ s.needs = {<<t, Whole>>}
      /\ s.copies = {} /\ s.version = 0
  BY DEF Add, Statement, NoVersion, Table, Vars
<1>2. s.makes = {<<t, c>>}
  BY DEF Add, Statement, Table, Columns
<1>3. /\ \A u, k : <<u, k>> \in s.makes <=> (u = t /\ k = c)
      /\ \A o \in s.makes : \E u, k : o = <<u, k>>
  BY <1>2
<1>4. \A u, k : (u = t /\ k = c) => ~Has(d, u, k)
  BY <1>3, NothingMadeTwice DEF Has
<1>5. \A o : ~Gone(o, s)
  BY <1>1 DEF Gone
<1>7. \A h : h \notin Copied(d, s)
  BY <1>1 DEF Copied
<1>9. e.version = d.version /\ s.version \in Nat
  BY <1>1, VersionAfter
<1>10. /\ Database(e)
       /\ \A u, k : Has(e, u, k)
            <=> (Has(d, u, k) \/ <<u, k>> \in s.makes) /\ ~Gone(<<u, k>>, s)
       /\ \A f, u, k :
             At(e, f, u, k)
                <=> (At(d, f, u, k) \/ <<f, <<u, k>> >> \in Copied(d, s)) /\ ~Gone(<<u, k>>, s)
  BY <1>1, <1>3, <1>7, <1>9, PlainEffect
<1>11. Has(d, t, Whole)
  BY <1>1, NeedsMet DEF Has
<1> QED BY <1>4, <1>3, <1>5, <1>7, <1>9, <1>10, <1>11 DEF Added

\* ALTER TABLE
LEMMA AlterEffect ==
  ASSUME NEW d, Database(d), NEW t, NEW s, NEW e,
         s = Alter(t), ~Fails(d, s), e = Execute(d, s)
  PROVE  Altered(d, e, t)
<1>1. /\ s.rename = <<>> /\ s.drops = {} /\ s.makes = {}
      /\ s.needs = {<<t, Whole>>} /\ s.copies = {}
      /\ s.version = 0
  BY DEF Alter, Statement, NoVersion, Table, Vars
<1>3. \A o : o \notin s.makes
  BY <1>1
<1>5. \A o : ~Gone(o, s)
  BY <1>1 DEF Gone
<1>7. \A h : h \notin Copied(d, s)
  BY <1>1 DEF Copied
<1>9. e.version = d.version /\ s.version \in Nat
  BY <1>1, VersionAfter
<1>10. /\ Database(e)
       /\ \A u, k : Has(e, u, k)
            <=> (Has(d, u, k) \/ <<u, k>> \in s.makes) /\ ~Gone(<<u, k>>, s)
       /\ \A f, u, k :
             At(e, f, u, k)
                <=> (At(d, f, u, k) \/ <<f, <<u, k>> >> \in Copied(d, s)) /\ ~Gone(<<u, k>>, s)
  BY <1>1, <1>3, <1>7, <1>9, PlainEffect
<1>11. Has(d, t, Whole)
  BY <1>1, NeedsMet DEF Has
<1> QED BY <1>3, <1>5, <1>7, <1>9, <1>10, <1>11 DEF Altered

\* UPDATE vars SET schema_version
LEMMA SetVersionEffect ==
  ASSUME NEW d, Database(d), NEW v \in Nat \ {0}, NEW s, NEW e,
         s = SetVersion(v), ~Fails(d, s), e = Execute(d, s)
  PROVE  VersionSet(d, e, v)
<1>1. /\ s.rename = <<>> /\ s.drops = {} /\ s.makes = {}
      /\ s.needs = {<<Vars, Whole>>} /\ s.copies = {}
      /\ s.version = v
  BY DEF SetVersion, Statement, NoVersion, Table, Vars
<1>3. \A o : o \notin s.makes
  BY <1>1
<1>5. \A o : ~Gone(o, s)
  BY <1>1 DEF Gone
<1>7. \A h : h \notin Copied(d, s)
  BY <1>1 DEF Copied
<1>9. e.version = v /\ s.version \in Nat
  BY <1>1, VersionAfter
<1>10. /\ Database(e)
       /\ \A u, k : Has(e, u, k)
            <=> (Has(d, u, k) \/ <<u, k>> \in s.makes) /\ ~Gone(<<u, k>>, s)
       /\ \A f, u, k :
             At(e, f, u, k)
                <=> (At(d, f, u, k) \/ <<f, <<u, k>> >> \in Copied(d, s)) /\ ~Gone(<<u, k>>, s)
  BY <1>1, <1>3, <1>7, <1>9, PlainEffect
<1>11. Has(d, Vars, Whole)
  BY <1>1, NeedsMet DEF Has
<1> QED BY <1>3, <1>5, <1>7, <1>9, <1>10, <1>11 DEF VersionSet
-----------------------------------------------------------------------------
(***************************************************************************)
(* What holds between the statements of a script                           *)
(***************************************************************************)

\* Table t has every one of cs; nothing of table t is there.
HasAll(d, t, cs) == \A c \in cs : Has(d, t, c)
Lacks(d, t) == \A c : ~Has(d, t, c)

\* The composite types of version 20.
TxTypes(d) ==
    /\ HasAll(d, "transactions_inputs",
              {Whole, "type", "previous_outpoint_script", "previous_outpoint_amount"})
    /\ HasAll(d, "transactions_outputs", {Whole, "type"})

\* The columns of transactions that v22_to_v23 writes.
TxColumns == {Whole, "subnetwork_id", "version", "inputs", "outputs", "block_hash"}

\* What a version guarantees, however the scripts before it were interrupted.
\* Only v10_to_v20 makes outputs_spent, after the composite types, and v20_to_v21
\* drops it first: a version 20 that has it has them.
Objects(d) ==
    /\ d.version >= 1 => /\ Has(d, "transactions_acceptances", Whole)
                         /\ Has(d, "addresses_transactions", Whole)
    /\ d.version >= 2 => HasAll(d, "block_parent", {Whole, "pkey"})
    /\ d.version >= 7 => Has(d, "transactions_acceptances", "unique")
    /\ d.version >= 8 => /\ Has(d, "scripts_transactions", Whole)
                         /\ \/ Has(d, "scripts_transactions", "pkey")
                            \/ Has(d, "scripts_transactions", "pkey_without_time")
    /\ d.version >= 21 => TxTypes(d)
    /\ d.version >= 22 => /\ HasAll(d, "transactions_inputs", {"compute_budget", "covenant_id"})
                          /\ HasAll(d, "transactions_outputs",
                                    {"covenant_authorizing_input", "covenant_id"})
    /\ d.version >= 23 => /\ HasAll(d, "transactions", TxColumns \cup {"pkey"})
                          /\ HasAll(d, "blocks", {Whole, "pkey", "transaction_ids"})
    /\ Has(d, "transactions", "outputs_spent") => TxTypes(d)

\* ... and what was made before statement k of Migration(v).
ObjectsIn(v, k, d) ==
    /\ v = 1 /\ k > 1 => Has(d, "block_parent", Whole)
    /\ v = 1 /\ k > 3 => Has(d, "block_parent", "pkey")
    /\ v = 6 /\ k > 2 => Has(d, "transactions_acceptances", "unique")
    /\ v = 7 /\ k > 1 => HasAll(d, "scripts_transactions", {Whole, "pkey_without_time"})
    /\ v = 10 /\ k \in 6..10 => Lacks(d, "transactions")
    /\ v = 10 /\ k > 8 =>
          HasAll(d, "transactions_inputs",
                 {Whole, "type", "previous_outpoint_script", "previous_outpoint_amount"})
    /\ v = 10 /\ k > 9 => HasAll(d, "transactions_outputs", {Whole, "type"})
    /\ v = 20 /\ k > 1 => TxTypes(d)
    /\ v = 21 /\ k > 1 => Has(d, "transactions_inputs", "compute_budget")
    /\ v = 21 /\ k > 2 => Has(d, "transactions_inputs", "covenant_id")
    /\ v = 21 /\ k > 3 => Has(d, "transactions_outputs", "covenant_authorizing_input")
    /\ v = 21 /\ k > 4 => Has(d, "transactions_outputs", "covenant_id")
    /\ v = 22 /\ k \in 3..4 => HasAll(d, "transactions_new", TxColumns)
    /\ v = 22 /\ k > 4 => HasAll(d, "transactions", TxColumns)
    /\ v = 22 /\ k > 5 => Has(d, "transactions", "pkey")
    /\ v = 22 /\ k \in 8..9 => HasAll(d, "blocks_new", {Whole, "transaction_ids"})
    /\ v = 22 /\ k > 9 => HasAll(d, "blocks", {Whole, "transaction_ids"})
    /\ v = 22 /\ k > 10 => Has(d, "blocks", "pkey")

\* The rows of a transaction before version 20, in it, and from version 21 on.
TxOld(d) ==
    /\ At(d, "transaction", "transactions", Whole)
    /\ At(d, "subnetwork", "transactions", "subnetwork_id")
    /\ At(d, "inputs", "transactions_inputs", Whole)
    /\ At(d, "outputs", "transactions_outputs", Whole)

TxRows(d) ==
    /\ At(d, "subnetwork", "transactions", "subnetwork_id")
    /\ At(d, "inputs", "transactions", "inputs")
    /\ At(d, "outputs", "transactions", "outputs")

TxAll(d, t) ==
    /\ At(d, "transaction", t, Whole)
    /\ At(d, "subnetwork", t, "subnetwork_id")
    /\ At(d, "subnetwork_names", t, "subnetwork_id")
    /\ At(d, "inputs", t, "inputs")
    /\ At(d, "outputs", t, "outputs")

\* Version 20 is set by the first statement of v10_to_v20: the rows are in the
\* old tables, the new ones, or half way through v20_to_v21.
TxKept(d) ==
    /\ \/ At(d, "transaction", "transactions", Whole)
       \/ At(d, "transaction", "transactions_old", Whole)
    /\ \/ At(d, "subnetwork", "transactions", "subnetwork_id")
       \/ At(d, "subnetwork", "transactions_old", "subnetwork_id")
       \/ At(d, "subnetwork", "transactions", "subnetwork_id_new")
    /\ \/ At(d, "inputs", "transactions_inputs", Whole)
       \/ At(d, "inputs", "transactions_inputs_old", Whole)
       \/ At(d, "inputs", "transactions", "inputs")
    /\ \/ At(d, "outputs", "transactions_outputs", Whole)
       \/ At(d, "outputs", "transactions_outputs_old", Whole)
       \/ At(d, "outputs", "transactions", "outputs")
    /\ \/ At(d, "subnetwork_names", "subnetworks", Whole)
       \/ At(d, "subnetwork_names", "transactions", "subnetwork_id_new")
       \/ At(d, "subnetwork_names", "transactions", "subnetwork_id")
    /\ Has(d, "transactions", "outputs_spent")
          => /\ At(d, "subnetwork_names", "subnetworks", Whole)
             /\ At(d, "transaction", "transactions", Whole) => TxRows(d)

\* Where each fact is at a version, however the scripts before were interrupted.
FactsOf(d) ==
    /\ d.version \in Migrated \cup {SCHEMA_VERSION}
    /\ At(d, "acceptance", "transactions_acceptances", Whole)
    /\ At(d, "address", "addresses_transactions", Whole)
    /\ d.version = 1 => \/ At(d, "parents", "block_parent", Whole)
                        \/ At(d, "parents", "blocks", "parents")
    /\ d.version = 1 /\ ~Has(d, "block_parent", Whole)
          => At(d, "parents", "blocks", "parents")
    /\ d.version >= 2 => At(d, "parents", "block_parent", Whole)
    /\ d.version <= 10 => /\ TxOld(d) /\ At(d, "subnetwork_names", "subnetworks", Whole)
                          /\ ~Has(d, "transactions", "outputs_spent")
    /\ d.version = 20 => TxKept(d)
    /\ d.version >= 21 => /\ Has(d, "transactions", Whole) => TxAll(d, "transactions")
                          /\ TxAll(d, "transactions") \/ TxAll(d, "transactions_new")
    /\ Has(d, "blocks", Whole) => At(d, "block", "blocks", Whole)
    /\ At(d, "block", "blocks", Whole) \/ At(d, "block", "blocks_new", Whole)
    /\ Has(d, "blocks_transactions", Whole)
          => At(d, "block_transactions", "blocks_transactions", Whole)
    /\ Joined("block_transactions")
          => /\ \/ At(d, "block_transactions", "blocks_transactions", Whole)
                \/ At(d, "block_transactions", "blocks", "transaction_ids")
             /\ d.version >= 23
                   => At(d, "block_transactions", "blocks", "transaction_ids")

\* ... and where it is before statement k of Migration(v).
FactsIn(v, k, d) ==
    /\ v = 1 /\ k > 1 => Has(d, "block_parent", Whole)
    /\ v = 1 /\ k = 2 => At(d, "parents", "blocks", "parents")
    /\ v = 1 /\ k > 2 => At(d, "parents", "block_parent", Whole)
    /\ v = 10 => At(d, "subnetwork_names", "subnetworks", Whole)
    /\ v = 10 /\ k \in 2..5 => /\ At(d, "transaction", "transactions", Whole)
                               /\ At(d, "subnetwork", "transactions", "subnetwork_id")
                               /\ ~Has(d, "transactions", "outputs_spent")
    /\ v = 10 /\ k \in 2..6 => At(d, "inputs", "transactions_inputs", Whole)
    /\ v = 10 /\ k \in 2..7 => At(d, "outputs", "transactions_outputs", Whole)
    /\ v = 10 /\ k \in 6..10 => Lacks(d, "transactions")
    /\ v = 10 /\ k \in 6..11 => /\ At(d, "transaction", "transactions_old", Whole)
                                /\ At(d, "subnetwork", "transactions_old", "subnetwork_id")
                                /\ ~At(d, "transaction", "transactions", Whole)
    /\ v = 10 /\ k \in 7..11 => At(d, "inputs", "transactions_inputs_old", Whole)
    /\ v = 10 /\ k \in 8..11 => At(d, "outputs", "transactions_outputs_old", Whole)
    /\ v = 10 /\ k > 11 => At(d, "transaction", "transactions", Whole) /\ TxRows(d)
    /\ v = 20 /\ k \in 2..6 => (At(d, "transaction", "transactions", Whole) => TxRows(d))
    /\ v = 20 /\ k > 1 => ~Has(d, "transactions", "outputs_spent")
    /\ v = 20 /\ k \in 2..10 => At(d, "subnetwork_names", "subnetworks", Whole)
    /\ v = 20 /\ k \in 5..7 => At(d, "subnetwork_names", "subnetwork_compressed", Whole)
    /\ v = 20 /\ k > 6 => /\ At(d, "transaction", "transactions", Whole)
                          /\ At(d, "inputs", "transactions", "inputs")
                          /\ At(d, "outputs", "transactions", "outputs")
    /\ v = 20 /\ k \in 7..9 => /\ At(d, "subnetwork", "transactions", "subnetwork_id_new")
                               /\ At(d, "subnetwork_names", "transactions", "subnetwork_id_new")
    /\ v = 20 /\ k > 9 => /\ At(d, "subnetwork", "transactions", "subnetwork_id")
                          /\ At(d, "subnetwork_names", "transactions", "subnetwork_id")
    /\ v = 22 /\ k \in 2..11 => Has(d, "blocks_transactions", Whole)
    /\ v = 22 /\ k \in 3..4 => TxAll(d, "transactions_new")
    /\ v = 22 /\ k > 4 => TxAll(d, "transactions")
    /\ v = 22 /\ k \in 8..9 => /\ At(d, "block", "blocks_new", Whole)
                               /\ Joined("block_transactions")
                                     => At(d, "block_transactions", "blocks_new",
                                           "transaction_ids")
    /\ v = 22 /\ k > 9 => /\ At(d, "block", "blocks", Whole)
                          /\ Joined("block_transactions")
                                => At(d, "block_transactions", "blocks",
                                      "transaction_ids")

\* Schema versions have gaps; scripts are counted without them.  Point p is the
\* place before statement k of a script, counted through all of them.
Point(v, k) == 20 * (IF v <= 10 THEN v ELSE v - 9) + k

\* At point p, with no script interrupted so far, no statement from p on will be
\* refused: what it needs is there and what it makes is not.
Fit(p, d) ==
    /\ Has(d, Vars, Whole)
    /\ Has(d, "transactions_acceptances", Whole)
    /\ Has(d, "addresses_transactions", Whole)
    /\ p <= 21 => Lacks(d, "block_parent")
    /\ p > 21 => Has(d, "block_parent", Whole)
    /\ p <= 23 => ~Has(d, "block_parent", "pkey")
    /\ p <= 24 => Has(d, "blocks", "parents")
    /\ p <= 81 => Has(d, "chain_blocks", Whole)
    /\ p <= 82 => Has(d, "blocks", "difficulty")
    /\ p <= 101 => ~Has(d, "transactions_inputs", "block_time")
    /\ p <= 102 => ~Has(d, "transactions_outputs", "block_time")
    /\ p <= 121 => Has(d, "transactions_acceptances", "pkey")
    /\ p <= 122 => ~Has(d, "transactions_acceptances", "unique")
    /\ p <= 141 => Lacks(d, "scripts_transactions")
    /\ p <= 162 => ~Has(d, "transactions_inputs", "previous_outpoint_script")
    /\ p <= 163 => ~Has(d, "transactions_inputs", "previous_outpoint_amount")
    /\ p <= 202 => ~Has(d, "utxos", Whole)
    /\ p <= 205 => /\ ~Has(d, "transactions_old", Whole)
                   /\ Has(d, "transactions", Whole) /\ Has(d, "transactions", "subnetwork_id")
                   /\ At(d, "transaction", "transactions", Whole)
    /\ p <= 206 => /\ ~Has(d, "transactions_inputs_old", Whole)
                   /\ Has(d, "transactions_inputs", Whole)
    /\ p <= 207 => /\ ~Has(d, "transactions_outputs_old", Whole)
                   /\ Has(d, "transactions_outputs", Whole)
    /\ p \in 203..222 => Has(d, "utxos", Whole)
    /\ p \in 206..210 => Lacks(d, "transactions")
    /\ p \in 206..211 => At(d, "transaction", "transactions_old", Whole)
    /\ p \in 206..212 => /\ Has(d, "transactions_old", Whole)
                         /\ Has(d, "transactions_old", "subnetwork_id")
    /\ p \in 206..215 => ~Has(d, "transactions", "pkey")
    /\ p \in 206..223 => ~Has(d, "transactions", "version")
    /\ p \in 206..225 => ~Has(d, "transactions", "subnetwork_id_new")
    /\ p \in 207..208 => Lacks(d, "transactions_inputs")
    /\ p \in 207..213 => Has(d, "transactions_inputs_old", Whole)
    /\ p \in 207..241 => ~Has(d, "transactions_inputs", "compute_budget")
    /\ p \in 207..242 => ~Has(d, "transactions_inputs", "covenant_id")
    /\ p \in 208..209 => Lacks(d, "transactions_outputs")
    /\ p \in 208..214 => Has(d, "transactions_outputs_old", Whole)
    /\ p \in 208..243 => ~Has(d, "transactions_outputs", "covenant_authorizing_input")
    /\ p \in 208..244 => ~Has(d, "transactions_outputs", "covenant_id")
    /\ p > 208 => Has(d, "transactions_inputs", Whole) /\ Has(d, "transactions_inputs", "type")
    /\ p > 209 => /\ Has(d, "transactions_outputs", Whole)
                  /\ Has(d, "transactions_outputs", "type")
    /\ p \in 211..221 => Has(d, "transactions", "outputs_spent")
    /\ p \in 211..228 => Has(d, "transactions", "subnetwork_id")
    /\ p \in 211..263 => /\ Has(d, "transactions", Whole)
                         /\ Has(d, "transactions", "inputs")
                         /\ Has(d, "transactions", "outputs")
    /\ p \in 212..226 => At(d, "transaction", "transactions", Whole)
    /\ p <= 224 => ~Has(d, "subnetwork_compressed", Whole)
    /\ p \in 225..227 => Has(d, "subnetwork_compressed", Whole)
    /\ p \in 226..229 => Has(d, "transactions", "subnetwork_id_new")
    /\ p = 229 => ~Has(d, "transactions", "subnetwork_id")
    /\ p <= 230 => Has(d, "subnetworks", Whole)
    /\ p \in 230..263 => Has(d, "transactions", "subnetwork_id")
    /\ p <= 261 => ~Has(d, "blocks_transactions_dedup", Whole)
    /\ p <= 262 => Lacks(d, "transactions_new")
    /\ p \in 262..266 => Has(d, "blocks_transactions_dedup", Whole)
    /\ p \in 263..264
         => Has(d, "transactions_new", Whole) /\ ~Has(d, "transactions_new", "pkey")
    /\ p = 264 => Lacks(d, "transactions")
    /\ p = 265 => ~Has(d, "transactions", "pkey")
    /\ p > 264 => Has(d, "transactions", Whole)
    /\ p <= 267 => Lacks(d, "blocks_new")
    /\ p <= 268 => Has(d, "blocks", Whole)
    /\ p \in 268..269 => Has(d, "blocks_new", Whole) /\ ~Has(d, "blocks_new", "pkey")
    /\ p = 269 => Lacks(d, "blocks")
    /\ p = 270 => ~Has(d, "blocks", "pkey")
    /\ p > 269 => Has(d, "blocks", Whole)
    /\ p <= 271 => Has(d, "blocks_transactions", Whole)

\* The number of statements of Migration(v).
Size(v) == Len(Migration(v))

\* schema_version before statement k of Migration(v).
VersionAt(v, k) ==
    IF v = 10 THEN IF k = 1 THEN 10 ELSE 20
    ELSE IF k > Size(v) THEN NextVersion(v) ELSE v

\* A statement of a migration takes database d to e: the version is the one of
\* the next statement, and nothing is lost that holds before it.
StepTo(v, k, d, e) ==
    /\ Database(e)
    /\ e.version = VersionAt(v, k + 1)
    /\ Has(d, Vars, Whole) => Has(e, Vars, Whole)
    /\ Objects(d) /\ ObjectsIn(v, k, d) => Objects(e) /\ ObjectsIn(v, k + 1, e)
    /\ FactsOf(d) /\ FactsIn(v, k, d) => FactsOf(e) /\ FactsIn(v, k + 1, e)
    /\ Fit(Point(v, k), d) => Fit(Point(v, k + 1), e)

\* The columns the scripts add are columns, not tables.
LEMMA NotWhole ==
  /\ "pkey" # Whole /\ "version" # Whole /\ "subnetwork_id_new" # Whole
  /\ "compute_budget" # Whole /\ "covenant_id" # Whole
  /\ "covenant_authorizing_input" # Whole
  BY DEF Whole

\* A CREATE TABLE AS gives an object only what it copies into it.
LEMMA NothingElseCopied ==
  ASSUME NEW d, NEW e, NEW t, NEW cs, NEW copies, CreatedAs(d, e, t, cs, copies),
         NEW f, NEW u, NEW k, \A v, j : <<f, <<v, j>>, <<u, k>> >> \notin copies
  PROVE  At(e, f, u, k) => At(d, f, u, k)
<1>1. \A g, v, c :
         At(e, g, v, c)
            <=> \/ At(d, g, v, c)
                \/ /\ Joined(g)
                   /\ \E w, j : <<g, <<w, j>>, <<v, c>> >> \in copies /\ At(d, g, w, j)
  BY DEF CreatedAs
<1> QED BY <1>1

\* The script of each version, and its length.
LEMMA MigrationOf ==
  /\ Migration(1) = v1_to_v2
  /\ Migration(2) = v2_to_v3
  /\ Migration(3) = v3_to_v4
  /\ Migration(4) = v4_to_v5
  /\ Migration(5) = v5_to_v6
  /\ Migration(6) = v6_to_v7
  /\ Migration(7) = v7_to_v8
  /\ Migration(8) = v8_to_v9
  /\ Migration(9) = v9_to_v10
  /\ Migration(10) = v10_to_v20
  /\ Migration(20) = v20_to_v21
  /\ Migration(21) = v21_to_v22
  /\ Migration(22) = v22_to_v23
  BY DEF Migration, Migrations

\* The number of statements of each script.
LEMMA Sizes ==
  /\ Size(1) = 5
  /\ Size(2) = 1
  /\ Size(3) = 3
  /\ Size(4) = 3
  /\ Size(5) = 3
  /\ Size(6) = 3
  /\ Size(7) = 2
  /\ Size(8) = 4
  /\ Size(9) = 1
  /\ Size(10) = 15
  /\ Size(20) = 11
  /\ Size(21) = 5
  /\ Size(22) = 12
<1>1. Len(v1_to_v2) = 5
  BY DEF v1_to_v2
<1>2. Len(v2_to_v3) = 1
  BY DEF v2_to_v3
<1>3. Len(v3_to_v4) = 3
  BY DEF v3_to_v4
<1>4. Len(v4_to_v5) = 3
  BY DEF v4_to_v5
<1>5. Len(v5_to_v6) = 3
  BY DEF v5_to_v6
<1>6. Len(v6_to_v7) = 3
  BY DEF v6_to_v7
<1>7. Len(v7_to_v8) = 2
  BY DEF v7_to_v8
<1>8. Len(v8_to_v9) = 4
  BY DEF v8_to_v9
<1>9. Len(v9_to_v10) = 1
  BY DEF v9_to_v10
<1>10. Len(v10_to_v20) = 15
  BY DEF v10_to_v20
<1>11. Len(v20_to_v21) = 11
  BY DEF v20_to_v21
<1>12. Len(v21_to_v22) = 5
  BY DEF v21_to_v22
<1>13. Len(v22_to_v23) = 12
  BY DEF v22_to_v23
<1> QED BY MigrationOf, <1>1, <1>2, <1>3, <1>4, <1>5, <1>6, <1>7, <1>8, <1>9, <1>10, <1>11,
           <1>12, <1>13 DEF Size

\* v1_to_v2, statement by statement: each leads to what is promised before the next.
LEMMA v1_to_v2_Step ==
  ASSUME NEW d, Database(d), NEW k \in 1..5, d.version = VersionAt(1, k),
         ~Fails(d, v1_to_v2[k]), NEW e, e = Execute(d, v1_to_v2[k])
  PROVE  StepTo(1, k, d, e)
<1>0. \A j \in Nat : VersionAt(1, j) = IF j > 5 THEN 2 ELSE 1
  BY Sizes DEF VersionAt, NextVersion
<1>1. CASE k = 1
  <2>1. Created(d, e, "block_parent", {})
    BY <1>1, CreateEffect DEF v1_to_v2
  <2>2. /\ d.version = 1 /\ e.version = 1
        /\ Database(e)
        /\ Has(d, Vars, Whole) => Has(e, Vars, Whole)
    BY <1>0, <1>1, <2>1 DEF Created, Vars
  <2>3. Objects(d) /\ ObjectsIn(1, 1, d) => Objects(e) /\ ObjectsIn(1, 2, e)
    BY <2>1, <2>2 DEF Created, HasAll, Lacks, TxTypes, TxColumns, Objects, ObjectsIn
  <2>4. FactsOf(d) /\ FactsIn(1, 1, d) => FactsOf(e) /\ FactsIn(1, 2, e)
    BY <2>1, <2>2
       DEF Created, Lacks, TxOld, TxRows, TxAll, TxKept, FactsOf, FactsIn, Migrated,
           SCHEMA_VERSION
  <2>5. Fit(21, d) => Fit(22, e)
    BY <2>1, NotWhole DEF Created, Vars, Lacks, Fit
  <2> QED BY <1>0, <1>1, <2>2, <2>3, <2>4, <2>5 DEF StepTo, Point
<1>2. CASE k = 2
  <2> DEFINE copies == {<<"parents", <<"blocks", "parents">>, Table("block_parent")>>}
  <2>1. <<"parents", <<"blocks", "parents">>, <<"block_parent", Whole>> >> \in copies
    BY DEF Table
  <2>2. Copies(copies)
    BY DEF Copies, Table
  <2>3. v1_to_v2[k] = Copy(copies, {})
    BY <1>2 DEF v1_to_v2
  <2> HIDE DEF copies
  <2>4. CopiedRows(d, e, copies, {})
    BY <2>2, <2>3, CopyEffect
  <2>5. /\ Has(d, "blocks", "parents")
        /\ Has(d, "block_parent", Whole)
    BY <2>1, <2>4 DEF CopiedRows
  <2>6. \A u, c : Has(e, u, c) <=> Has(d, u, c)
    BY <2>4 DEF CopiedRows
  <2>7. /\ \A f, u, c : At(d, f, u, c) => At(e, f, u, c)
        /\ At(d, "parents", "blocks", "parents") => At(e, "parents", "block_parent", Whole)
    BY <2>1, <2>4 DEF CopiedRows, Joined
  <2>8. Database(e) /\ e.version = d.version
    BY <2>4 DEF CopiedRows
  <2>9. /\ d.version = 1 /\ e.version = 1
        /\ Database(e)
        /\ Has(d, Vars, Whole) => Has(e, Vars, Whole)
    BY <1>0, <1>2, <2>5, <2>6, <2>7, <2>8 DEF Vars
  <2>10. Objects(d) /\ ObjectsIn(1, 2, d) => Objects(e) /\ ObjectsIn(1, 3, e)
    BY <2>5, <2>6, <2>7, <2>8, <2>9
       DEF HasAll, Lacks, TxTypes, TxColumns, Objects, ObjectsIn
  <2>11. FactsOf(d) /\ FactsIn(1, 2, d) => FactsOf(e) /\ FactsIn(1, 3, e)
    BY <2>5, <2>6, <2>7, <2>8, <2>9
       DEF Lacks, TxOld, TxRows, TxAll, TxKept, FactsOf, FactsIn, Migrated, SCHEMA_VERSION
  <2>12. Fit(22, d) => Fit(23, e)
    BY <2>5, <2>6, <2>7, <2>8 DEF Vars, Lacks, Fit
  <2> QED BY <1>0, <1>2, <2>9, <2>10, <2>11, <2>12 DEF StepTo, Point
<1>3. CASE k = 3
  <2>1. Added(d, e, "block_parent", "pkey")
    BY <1>3, AddEffect DEF v1_to_v2
  <2>2. /\ d.version = 1 /\ e.version = 1
        /\ Database(e)
        /\ Has(d, Vars, Whole) => Has(e, Vars, Whole)
    BY <1>0, <1>3, <2>1 DEF Added, Vars
  <2>3. Objects(d) /\ ObjectsIn(1, 3, d) => Objects(e) /\ ObjectsIn(1, 4, e)
    BY <2>1, <2>2 DEF Added, HasAll, Lacks, TxTypes, TxColumns, Objects, ObjectsIn
  <2>4. FactsOf(d) /\ FactsIn(1, 3, d) => FactsOf(e) /\ FactsIn(1, 4, e)
    BY <2>1, <2>2
       DEF Added, Lacks, TxOld, TxRows, TxAll, TxKept, FactsOf, FactsIn, Migrated,
           SCHEMA_VERSION
  <2>5. Fit(23, d) => Fit(24, e)
    BY <2>1 DEF Added, Vars, Lacks, Fit
  <2> QED BY <1>0, <1>3, <2>2, <2>3, <2>4, <2>5 DEF StepTo, Point
<1>4. CASE k = 4
  <2>1. ColumnDropped(d, e, "blocks", "parents")
    BY <1>4, DropColumnEffect DEF v1_to_v2, Whole
  <2>2. /\ d.version = 1 /\ e.version = 1
        /\ Database(e)
        /\ Has(d, Vars, Whole) => Has(e, Vars, Whole)
    BY <1>0, <1>4, <2>1 DEF ColumnDropped, Vars
  <2>3. Objects(d) /\ ObjectsIn(1, 4, d) => Objects(e) /\ ObjectsIn(1, 5, e)
    BY <2>1, <2>2 DEF ColumnDropped, HasAll, Lacks, TxTypes, TxColumns, Objects, ObjectsIn
  <2>4. FactsOf(d) /\ FactsIn(1, 4, d) => FactsOf(e) /\ FactsIn(1, 5, e)
    BY <2>1, <2>2
       DEF ColumnDropped, Lacks, TxOld, TxRows, TxAll, TxKept, FactsOf, FactsIn, Migrated,
           SCHEMA_VERSION
  <2>5. Fit(24, d) => Fit(25, e)
    BY <2>1 DEF ColumnDropped, Vars, Lacks, Fit
  <2> QED BY <1>0, <1>4, <2>2, <2>3, <2>4, <2>5 DEF StepTo, Point
<1>5. CASE k = 5
  <2>1. VersionSet(d, e, 2)
    BY <1>5, SetVersionEffect DEF v1_to_v2
  <2>2. /\ d.version = 1 /\ e.version = 2
        /\ Database(e)
        /\ Has(d, Vars, Whole) => Has(e, Vars, Whole)
    BY <1>0, <1>5, <2>1 DEF VersionSet, Vars
  <2>3. Objects(d) /\ ObjectsIn(1, 5, d) => Objects(e) /\ ObjectsIn(1, 6, e)
    BY <2>1, <2>2 DEF VersionSet, HasAll, Lacks, TxTypes, TxColumns, Objects, ObjectsIn
  <2>4. FactsOf(d) /\ FactsIn(1, 5, d) => FactsOf(e) /\ FactsIn(1, 6, e)
    BY <2>1, <2>2
       DEF VersionSet, Lacks, TxOld, TxRows, TxAll, TxKept, FactsOf, FactsIn, Migrated,
           SCHEMA_VERSION
  <2>5. Fit(25, d) => Fit(26, e)
    BY <2>1 DEF VersionSet, Vars, Lacks, Fit
  <2> QED BY <1>0, <1>5, <2>2, <2>3, <2>4, <2>5 DEF StepTo, Point
<1> QED BY <1>1, <1>2, <1>3, <1>4, <1>5

\* v2_to_v3, statement by statement: each leads to what is promised before the next.
LEMMA v2_to_v3_Step ==
  ASSUME NEW d, Database(d), NEW k \in 1..1, d.version = VersionAt(2, k),
         ~Fails(d, v2_to_v3[k]), NEW e, e = Execute(d, v2_to_v3[k])
  PROVE  StepTo(2, k, d, e)
<1>0. \A j \in Nat : VersionAt(2, j) = IF j > 1 THEN 3 ELSE 2
  BY Sizes DEF VersionAt, NextVersion
<1>1. CASE k = 1
  <2>1. VersionSet(d, e, 3)
    BY <1>1, SetVersionEffect DEF v2_to_v3
  <2>2. /\ d.version = 2 /\ e.version = 3
        /\ Database(e)
        /\ Has(d, Vars, Whole) => Has(e, Vars, Whole)
    BY <1>0, <1>1, <2>1 DEF VersionSet, Vars
  <2>3. Objects(d) /\ ObjectsIn(2, 1, d) => Objects(e) /\ ObjectsIn(2, 2, e)
    BY <2>1, <2>2 DEF VersionSet, HasAll, Lacks, TxTypes, TxColumns, Objects, ObjectsIn
  <2>4. FactsOf(d) /\ FactsIn(2, 1, d) => FactsOf(e) /\ FactsIn(2, 2, e)
    BY <2>1, <2>2
       DEF VersionSet, Lacks, TxOld, TxRows, TxAll, TxKept, FactsOf, FactsIn, Migrated,
           SCHEMA_VERSION
  <2>5. Fit(41, d) => Fit(42, e)
    BY <2>1 DEF VersionSet, Vars, Lacks, Fit
  <2> QED BY <1>0, <1>1, <2>2, <2>3, <2>4, <2>5 DEF StepTo, Point
<1> QED BY <1>1

\* v3_to_v4, statement by statement: each leads to what is promised before the next.
LEMMA v3_to_v4_Step ==
  ASSUME NEW d, Database(d), NEW k \in 1..3, d.version = VersionAt(3, k),
         ~Fails(d, v3_to_v4[k]), NEW e, e = Execute(d, v3_to_v4[k])
  PROVE  StepTo(3, k, d, e)
<1>0. \A j \in Nat : VersionAt(3, j) = IF j > 3 THEN 4 ELSE 3
  BY Sizes DEF VersionAt, NextVersion
<1>1. CASE k = 1
  <2>1. Altered(d, e, "subnetworks")
    BY <1>1, AlterEffect DEF v3_to_v4
  <2>2. /\ d.version = 3 /\ e.version = 3
        /\ Database(e)
        /\ Has(d, Vars, Whole) => Has(e, Vars, Whole)
    BY <1>0, <1>1, <2>1 DEF Altered, Vars
  <2>3. Objects(d) /\ ObjectsIn(3, 1, d) => Objects(e) /\ ObjectsIn(3, 2, e)
    BY <2>1, <2>2 DEF Altered, HasAll, Lacks, TxTypes, TxColumns, Objects, ObjectsIn
  <2>4. FactsOf(d) /\ FactsIn(3, 1, d) => FactsOf(e) /\ FactsIn(3, 2, e)
    BY <2>1, <2>2
       DEF Altered, Lacks, TxOld, TxRows, TxAll, TxKept, FactsOf, FactsIn, Migrated,
           SCHEMA_VERSION
  <2>5. Fit(61, d) => Fit(62, e)
    BY <2>1 DEF Altered, Vars, Lacks, Fit
  <2> QED BY <1>0, <1>1, <2>2, <2>3, <2>4, <2>5 DEF StepTo, Point
<1>2. CASE k = 2
  <2>1. Altered(d, e, "transactions")
    BY <1>2, AlterEffect DEF v3_to_v4
  <2>2. /\ d.version = 3 /\ e.version = 3
        /\ Database(e)
        /\ Has(d, Vars, Whole) => Has(e, Vars, Whole)
    BY <1>0, <1>2, <2>1 DEF Altered, Vars
  <2>3. Objects(d) /\ ObjectsIn(3, 2, d) => Objects(e) /\ ObjectsIn(3, 3, e)
    BY <2>1, <2>2 DEF Altered, HasAll, Lacks, TxTypes, TxColumns, Objects, ObjectsIn
  <2>4. FactsOf(d) /\ FactsIn(3, 2, d) => FactsOf(e) /\ FactsIn(3, 3, e)
    BY <2>1, <2>2
       DEF Altered, Lacks, TxOld, TxRows, TxAll, TxKept, FactsOf, FactsIn, Migrated,
           SCHEMA_VERSION
  <2>5. Fit(62, d) => Fit(63, e)
    BY <2>1 DEF Altered, Vars, Lacks, Fit
  <2> QED BY <1>0, <1>2, <2>2, <2>3, <2>4, <2>5 DEF StepTo, Point
<1>3. CASE k = 3
  <2>1. VersionSet(d, e, 4)
    BY <1>3, SetVersionEffect DEF v3_to_v4
  <2>2. /\ d.version = 3 /\ e.version = 4
        /\ Database(e)
        /\ Has(d, Vars, Whole) => Has(e, Vars, Whole)
    BY <1>0, <1>3, <2>1 DEF VersionSet, Vars
  <2>3. Objects(d) /\ ObjectsIn(3, 3, d) => Objects(e) /\ ObjectsIn(3, 4, e)
    BY <2>1, <2>2 DEF VersionSet, HasAll, Lacks, TxTypes, TxColumns, Objects, ObjectsIn
  <2>4. FactsOf(d) /\ FactsIn(3, 3, d) => FactsOf(e) /\ FactsIn(3, 4, e)
    BY <2>1, <2>2
       DEF VersionSet, Lacks, TxOld, TxRows, TxAll, TxKept, FactsOf, FactsIn, Migrated,
           SCHEMA_VERSION
  <2>5. Fit(63, d) => Fit(64, e)
    BY <2>1 DEF VersionSet, Vars, Lacks, Fit
  <2> QED BY <1>0, <1>3, <2>2, <2>3, <2>4, <2>5 DEF StepTo, Point
<1> QED BY <1>1, <1>2, <1>3

\* v4_to_v5, statement by statement: each leads to what is promised before the next.
LEMMA v4_to_v5_Step ==
  ASSUME NEW d, Database(d), NEW k \in 1..3, d.version = VersionAt(4, k),
         ~Fails(d, v4_to_v5[k]), NEW e, e = Execute(d, v4_to_v5[k])
  PROVE  StepTo(4, k, d, e)
<1>0. \A j \in Nat : VersionAt(4, j) = IF j > 3 THEN 5 ELSE 4
  BY Sizes DEF VersionAt, NextVersion
<1>1. CASE k = 1
  <2>1. TableDropped(d, e, "chain_blocks")
    BY <1>1, DropTableEffect DEF v4_to_v5, Vars
  <2>2. /\ d.version = 4 /\ e.version = 4
        /\ Database(e)
        /\ Has(d, Vars, Whole) => Has(e, Vars, Whole)
    BY <1>0, <1>1, <2>1 DEF TableDropped, Vars
  <2>3. Objects(d) /\ ObjectsIn(4, 1, d) => Objects(e) /\ ObjectsIn(4, 2, e)
    BY <2>1, <2>2 DEF TableDropped, HasAll, Lacks, TxTypes, TxColumns, Objects, ObjectsIn
  <2>4. FactsOf(d) /\ FactsIn(4, 1, d) => FactsOf(e) /\ FactsIn(4, 2, e)
    BY <2>1, <2>2
       DEF TableDropped, Lacks, TxOld, TxRows, TxAll, TxKept, FactsOf, FactsIn, Migrated,
           SCHEMA_VERSION
  <2>5. Fit(81, d) => Fit(82, e)
    BY <2>1 DEF TableDropped, Vars, Lacks, Fit
  <2> QED BY <1>0, <1>1, <2>2, <2>3, <2>4, <2>5 DEF StepTo, Point
<1>2. CASE k = 2
  <2>1. ColumnDropped(d, e, "blocks", "difficulty")
    BY <1>2, DropColumnEffect DEF v4_to_v5, Whole
  <2>2. /\ d.version = 4 /\ e.version = 4
        /\ Database(e)
        /\ Has(d, Vars, Whole) => Has(e, Vars, Whole)
    BY <1>0, <1>2, <2>1 DEF ColumnDropped, Vars
  <2>3. Objects(d) /\ ObjectsIn(4, 2, d) => Objects(e) /\ ObjectsIn(4, 3, e)
    BY <2>1, <2>2 DEF ColumnDropped, HasAll, Lacks, TxTypes, TxColumns, Objects, ObjectsIn
  <2>4. FactsOf(d) /\ FactsIn(4, 2, d) => FactsOf(e) /\ FactsIn(4, 3, e)
    BY <2>1, <2>2
       DEF ColumnDropped, Lacks, TxOld, TxRows, TxAll, TxKept, FactsOf, FactsIn, Migrated,
           SCHEMA_VERSION
  <2>5. Fit(82, d) => Fit(83, e)
    BY <2>1 DEF ColumnDropped, Vars, Lacks, Fit
  <2> QED BY <1>0, <1>2, <2>2, <2>3, <2>4, <2>5 DEF StepTo, Point
<1>3. CASE k = 3
  <2>1. VersionSet(d, e, 5)
    BY <1>3, SetVersionEffect DEF v4_to_v5
  <2>2. /\ d.version = 4 /\ e.version = 5
        /\ Database(e)
        /\ Has(d, Vars, Whole) => Has(e, Vars, Whole)
    BY <1>0, <1>3, <2>1 DEF VersionSet, Vars
  <2>3. Objects(d) /\ ObjectsIn(4, 3, d) => Objects(e) /\ ObjectsIn(4, 4, e)
    BY <2>1, <2>2 DEF VersionSet, HasAll, Lacks, TxTypes, TxColumns, Objects, ObjectsIn
  <2>4. FactsOf(d) /\ FactsIn(4, 3, d) => FactsOf(e) /\ FactsIn(4, 4, e)
    BY <2>1, <2>2
       DEF VersionSet, Lacks, TxOld, TxRows, TxAll, TxKept, FactsOf, FactsIn, Migrated,
           SCHEMA_VERSION
  <2>5. Fit(83, d) => Fit(84, e)
    BY <2>1 DEF VersionSet, Vars, Lacks, Fit
  <2> QED BY <1>0, <1>3, <2>2, <2>3, <2>4, <2>5 DEF StepTo, Point
<1> QED BY <1>1, <1>2, <1>3

\* v5_to_v6, statement by statement: each leads to what is promised before the next.
LEMMA v5_to_v6_Step ==
  ASSUME NEW d, Database(d), NEW k \in 1..3, d.version = VersionAt(5, k),
         ~Fails(d, v5_to_v6[k]), NEW e, e = Execute(d, v5_to_v6[k])
  PROVE  StepTo(5, k, d, e)
<1>0. \A j \in Nat : VersionAt(5, j) = IF j > 3 THEN 6 ELSE 5
  BY Sizes DEF VersionAt, NextVersion
<1>1. CASE k = 1
  <2>1. Added(d, e, "transactions_inputs", "block_time")
    BY <1>1, AddEffect DEF v5_to_v6
  <2>2. /\ d.version = 5 /\ e.version = 5
        /\ Database(e)
        /\ Has(d, Vars, Whole) => Has(e, Vars, Whole)
    BY <1>0, <1>1, <2>1 DEF Added, Vars
  <2>3. Objects(d) /\ ObjectsIn(5, 1, d) => Objects(e) /\ ObjectsIn(5, 2, e)
    BY <2>1, <2>2 DEF Added, HasAll, Lacks, TxTypes, TxColumns, Objects, ObjectsIn
  <2>4. FactsOf(d) /\ FactsIn(5, 1, d) => FactsOf(e) /\ FactsIn(5, 2, e)
    BY <2>1, <2>2
       DEF Added, Lacks, TxOld, TxRows, TxAll, TxKept, FactsOf, FactsIn, Migrated,
           SCHEMA_VERSION
  <2>5. Fit(101, d) => Fit(102, e)
    BY <2>1 DEF Added, Vars, Lacks, Fit
  <2> QED BY <1>0, <1>1, <2>2, <2>3, <2>4, <2>5 DEF StepTo, Point
<1>2. CASE k = 2
  <2>1. Added(d, e, "transactions_outputs", "block_time")
    BY <1>2, AddEffect DEF v5_to_v6
  <2>2. /\ d.version = 5 /\ e.version = 5
        /\ Database(e)
        /\ Has(d, Vars, Whole) => Has(e, Vars, Whole)
    BY <1>0, <1>2, <2>1 DEF Added, Vars
  <2>3. Objects(d) /\ ObjectsIn(5, 2, d) => Objects(e) /\ ObjectsIn(5, 3, e)
    BY <2>1, <2>2 DEF Added, HasAll, Lacks, TxTypes, TxColumns, Objects, ObjectsIn
  <2>4. FactsOf(d) /\ FactsIn(5, 2, d) => FactsOf(e) /\ FactsIn(5, 3, e)
    BY <2>1, <2>2
       DEF Added, Lacks, TxOld, TxRows, TxAll, TxKept, FactsOf, FactsIn, Migrated,
           SCHEMA_VERSION
  <2>5. Fit(102, d) => Fit(103, e)
    BY <2>1 DEF Added, Vars, Lacks, Fit
  <2> QED BY <1>0, <1>2, <2>2, <2>3, <2>4, <2>5 DEF StepTo, Point
<1>3. CASE k = 3
  <2>1. VersionSet(d, e, 6)
    BY <1>3, SetVersionEffect DEF v5_to_v6
  <2>2. /\ d.version = 5 /\ e.version = 6
        /\ Database(e)
        /\ Has(d, Vars, Whole) => Has(e, Vars, Whole)
    BY <1>0, <1>3, <2>1 DEF VersionSet, Vars
  <2>3. Objects(d) /\ ObjectsIn(5, 3, d) => Objects(e) /\ ObjectsIn(5, 4, e)
    BY <2>1, <2>2 DEF VersionSet, HasAll, Lacks, TxTypes, TxColumns, Objects, ObjectsIn
  <2>4. FactsOf(d) /\ FactsIn(5, 3, d) => FactsOf(e) /\ FactsIn(5, 4, e)
    BY <2>1, <2>2
       DEF VersionSet, Lacks, TxOld, TxRows, TxAll, TxKept, FactsOf, FactsIn, Migrated,
           SCHEMA_VERSION
  <2>5. Fit(103, d) => Fit(104, e)
    BY <2>1 DEF VersionSet, Vars, Lacks, Fit
  <2> QED BY <1>0, <1>3, <2>2, <2>3, <2>4, <2>5 DEF StepTo, Point
<1> QED BY <1>1, <1>2, <1>3

\* v6_to_v7, statement by statement: each leads to what is promised before the next.
LEMMA v6_to_v7_Step ==
  ASSUME NEW d, Database(d), NEW k \in 1..3, d.version = VersionAt(6, k),
         ~Fails(d, v6_to_v7[k]), NEW e, e = Execute(d, v6_to_v7[k])
  PROVE  StepTo(6, k, d, e)
<1>0. \A j \in Nat : VersionAt(6, j) = IF j > 3 THEN 7 ELSE 6
  BY Sizes DEF VersionAt, NextVersion
<1>1. CASE k = 1
  <2>1. ColumnDropped(d, e, "transactions_acceptances", "pkey")
    BY <1>1, DropColumnEffect DEF v6_to_v7, Whole
  <2>2. /\ d.version = 6 /\ e.version = 6
        /\ Database(e)
        /\ Has(d, Vars, Whole) => Has(e, Vars, Whole)
    BY <1>0, <1>1, <2>1 DEF ColumnDropped, Vars
  <2>3. Objects(d) /\ ObjectsIn(6, 1, d) => Objects(e) /\ ObjectsIn(6, 2, e)
    BY <2>1, <2>2 DEF ColumnDropped, HasAll, Lacks, TxTypes, TxColumns, Objects, ObjectsIn
  <2>4. FactsOf(d) /\ FactsIn(6, 1, d) => FactsOf(e) /\ FactsIn(6, 2, e)
    BY <2>1, <2>2
       DEF ColumnDropped, Lacks, TxOld, TxRows, TxAll, TxKept, FactsOf, FactsIn, Migrated,
           SCHEMA_VERSION
  <2>5. Fit(121, d) => Fit(122, e)
    BY <2>1 DEF ColumnDropped, Vars, Lacks, Fit
  <2> QED BY <1>0, <1>1, <2>2, <2>3, <2>4, <2>5 DEF StepTo, Point
<1>2. CASE k = 2
  <2>1. Added(d, e, "transactions_acceptances", "unique")
    BY <1>2, AddEffect DEF v6_to_v7
  <2>2. /\ d.version = 6 /\ e.version = 6
        /\ Database(e)
        /\ Has(d, Vars, Whole) => Has(e, Vars, Whole)
    BY <1>0, <1>2, <2>1 DEF Added, Vars
  <2>3. Objects(d) /\ ObjectsIn(6, 2, d) => Objects(e) /\ ObjectsIn(6, 3, e)
    BY <2>1, <2>2 DEF Added, HasAll, Lacks, TxTypes, TxColumns, Objects, ObjectsIn
  <2>4. FactsOf(d) /\ FactsIn(6, 2, d) => FactsOf(e) /\ FactsIn(6, 3, e)
    BY <2>1, <2>2
       DEF Added, Lacks, TxOld, TxRows, TxAll, TxKept, FactsOf, FactsIn, Migrated,
           SCHEMA_VERSION
  <2>5. Fit(122, d) => Fit(123, e)
    BY <2>1 DEF Added, Vars, Lacks, Fit
  <2> QED BY <1>0, <1>2, <2>2, <2>3, <2>4, <2>5 DEF StepTo, Point
<1>3. CASE k = 3
  <2>1. VersionSet(d, e, 7)
    BY <1>3, SetVersionEffect DEF v6_to_v7
  <2>2. /\ d.version = 6 /\ e.version = 7
        /\ Database(e)
        /\ Has(d, Vars, Whole) => Has(e, Vars, Whole)
    BY <1>0, <1>3, <2>1 DEF VersionSet, Vars
  <2>3. Objects(d) /\ ObjectsIn(6, 3, d) => Objects(e) /\ ObjectsIn(6, 4, e)
    BY <2>1, <2>2 DEF VersionSet, HasAll, Lacks, TxTypes, TxColumns, Objects, ObjectsIn
  <2>4. FactsOf(d) /\ FactsIn(6, 3, d) => FactsOf(e) /\ FactsIn(6, 4, e)
    BY <2>1, <2>2
       DEF VersionSet, Lacks, TxOld, TxRows, TxAll, TxKept, FactsOf, FactsIn, Migrated,
           SCHEMA_VERSION
  <2>5. Fit(123, d) => Fit(124, e)
    BY <2>1 DEF VersionSet, Vars, Lacks, Fit
  <2> QED BY <1>0, <1>3, <2>2, <2>3, <2>4, <2>5 DEF StepTo, Point
<1> QED BY <1>1, <1>2, <1>3

\* v7_to_v8, statement by statement: each leads to what is promised before the next.
LEMMA v7_to_v8_Step ==
  ASSUME NEW d, Database(d), NEW k \in 1..2, d.version = VersionAt(7, k),
         ~Fails(d, v7_to_v8[k]), NEW e, e = Execute(d, v7_to_v8[k])
  PROVE  StepTo(7, k, d, e)
<1>0. \A j \in Nat : VersionAt(7, j) = IF j > 2 THEN 8 ELSE 7
  BY Sizes DEF VersionAt, NextVersion
<1>1. CASE k = 1
  <2>1. Created(d, e, "scripts_transactions", {"pkey_without_time"})
    BY <1>1, CreateEffect DEF v7_to_v8
  <2>2. /\ d.version = 7 /\ e.version = 7
        /\ Database(e)
        /\ Has(d, Vars, Whole) => Has(e, Vars, Whole)
    BY <1>0, <1>1, <2>1 DEF Created, Vars
  <2>3. Objects(d) /\ ObjectsIn(7, 1, d) => Objects(e) /\ ObjectsIn(7, 2, e)
    BY <2>1, <2>2 DEF Created, HasAll, Lacks, TxTypes, TxColumns, Objects, ObjectsIn
  <2>4. FactsOf(d) /\ FactsIn(7, 1, d) => FactsOf(e) /\ FactsIn(7, 2, e)
    BY <2>1, <2>2
       DEF Created, Lacks, TxOld, TxRows, TxAll, TxKept, FactsOf, FactsIn, Migrated,
           SCHEMA_VERSION
  <2>5. Fit(141, d) => Fit(142, e)
    BY <2>1, NotWhole DEF Created, Vars, Lacks, Fit
  <2> QED BY <1>0, <1>1, <2>2, <2>3, <2>4, <2>5 DEF StepTo, Point
<1>2. CASE k = 2
  <2>1. VersionSet(d, e, 8)
    BY <1>2, SetVersionEffect DEF v7_to_v8
  <2>2. /\ d.version = 7 /\ e.version = 8
        /\ Database(e)
        /\ Has(d, Vars, Whole) => Has(e, Vars, Whole)
    BY <1>0, <1>2, <2>1 DEF VersionSet, Vars
  <2>3. Objects(d) /\ ObjectsIn(7, 2, d) => Objects(e) /\ ObjectsIn(7, 3, e)
    BY <2>1, <2>2 DEF VersionSet, HasAll, Lacks, TxTypes, TxColumns, Objects, ObjectsIn
  <2>4. FactsOf(d) /\ FactsIn(7, 2, d) => FactsOf(e) /\ FactsIn(7, 3, e)
    BY <2>1, <2>2
       DEF VersionSet, Lacks, TxOld, TxRows, TxAll, TxKept, FactsOf, FactsIn, Migrated,
           SCHEMA_VERSION
  <2>5. Fit(142, d) => Fit(143, e)
    BY <2>1 DEF VersionSet, Vars, Lacks, Fit
  <2> QED BY <1>0, <1>2, <2>2, <2>3, <2>4, <2>5 DEF StepTo, Point
<1> QED BY <1>1, <1>2

\* v8_to_v9, statement by statement: each leads to what is promised before the next.
LEMMA v8_to_v9_Step ==
  ASSUME NEW d, Database(d), NEW k \in 1..4, d.version = VersionAt(8, k),
         ~Fails(d, v8_to_v9[k]), NEW e, e = Execute(d, v8_to_v9[k])
  PROVE  StepTo(8, k, d, e)
<1>0. \A j \in Nat : VersionAt(8, j) = IF j > 4 THEN 9 ELSE 8
  BY Sizes DEF VersionAt, NextVersion
<1>1. CASE k = 1
  <2>1. Altered(d, e, "transactions_acceptances")
    BY <1>1, AlterEffect DEF v8_to_v9
  <2>2. /\ d.version = 8 /\ e.version = 8
        /\ Database(e)
        /\ Has(d, Vars, Whole) => Has(e, Vars, Whole)
    BY <1>0, <1>1, <2>1 DEF Altered, Vars
  <2>3. Objects(d) /\ ObjectsIn(8, 1, d) => Objects(e) /\ ObjectsIn(8, 2, e)
    BY <2>1, <2>2 DEF Altered, HasAll, Lacks, TxTypes, TxColumns, Objects, ObjectsIn
  <2>4. FactsOf(d) /\ FactsIn(8, 1, d) => FactsOf(e) /\ FactsIn(8, 2, e)
    BY <2>1, <2>2
       DEF Altered, Lacks, TxOld, TxRows, TxAll, TxKept, FactsOf, FactsIn, Migrated,
           SCHEMA_VERSION
  <2>5. Fit(161, d) => Fit(162, e)
    BY <2>1 DEF Altered, Vars, Lacks, Fit
  <2> QED BY <1>0, <1>1, <2>2, <2>3, <2>4, <2>5 DEF StepTo, Point
<1>2. CASE k = 2
  <2>1. Added(d, e, "transactions_inputs", "previous_outpoint_script")
    BY <1>2, AddEffect DEF v8_to_v9
  <2>2. /\ d.version = 8 /\ e.version = 8
        /\ Database(e)
        /\ Has(d, Vars, Whole) => Has(e, Vars, Whole)
    BY <1>0, <1>2, <2>1 DEF Added, Vars
  <2>3. Objects(d) /\ ObjectsIn(8, 2, d) => Objects(e) /\ ObjectsIn(8, 3, e)
    BY <2>1, <2>2 DEF Added, HasAll, Lacks, TxTypes, TxColumns, Objects, ObjectsIn
  <2>4. FactsOf(d) /\ FactsIn(8, 2, d) => FactsOf(e) /\ FactsIn(8, 3, e)
    BY <2>1, <2>2
       DEF Added, Lacks, TxOld, TxRows, TxAll, TxKept, FactsOf, FactsIn, Migrated,
           SCHEMA_VERSION
  <2>5. Fit(162, d) => Fit(163, e)
    BY <2>1 DEF Added, Vars, Lacks, Fit
  <2> QED BY <1>0, <1>2, <2>2, <2>3, <2>4, <2>5 DEF StepTo, Point
<1>3. CASE k = 3
  <2>1. Added(d, e, "transactions_inputs", "previous_outpoint_amount")
    BY <1>3, AddEffect DEF v8_to_v9
  <2>2. /\ d.version = 8 /\ e.version = 8
        /\ Database(e)
        /\ Has(d, Vars, Whole) => Has(e, Vars, Whole)
    BY <1>0, <1>3, <2>1 DEF Added, Vars
  <2>3. Objects(d) /\ ObjectsIn(8, 3, d) => Objects(e) /\ ObjectsIn(8, 4, e)
    BY <2>1, <2>2 DEF Added, HasAll, Lacks, TxTypes, TxColumns, Objects, ObjectsIn
  <2>4. FactsOf(d) /\ FactsIn(8, 3, d) => FactsOf(e) /\ FactsIn(8, 4, e)
    BY <2>1, <2>2
       DEF Added, Lacks, TxOld, TxRows, TxAll, TxKept, FactsOf, FactsIn, Migrated,
           SCHEMA_VERSION
  <2>5. Fit(163, d) => Fit(164, e)
    BY <2>1 DEF Added, Vars, Lacks, Fit
  <2> QED BY <1>0, <1>3, <2>2, <2>3, <2>4, <2>5 DEF StepTo, Point
<1>4. CASE k = 4
  <2>1. VersionSet(d, e, 9)
    BY <1>4, SetVersionEffect DEF v8_to_v9
  <2>2. /\ d.version = 8 /\ e.version = 9
        /\ Database(e)
        /\ Has(d, Vars, Whole) => Has(e, Vars, Whole)
    BY <1>0, <1>4, <2>1 DEF VersionSet, Vars
  <2>3. Objects(d) /\ ObjectsIn(8, 4, d) => Objects(e) /\ ObjectsIn(8, 5, e)
    BY <2>1, <2>2 DEF VersionSet, HasAll, Lacks, TxTypes, TxColumns, Objects, ObjectsIn
  <2>4. FactsOf(d) /\ FactsIn(8, 4, d) => FactsOf(e) /\ FactsIn(8, 5, e)
    BY <2>1, <2>2
       DEF VersionSet, Lacks, TxOld, TxRows, TxAll, TxKept, FactsOf, FactsIn, Migrated,
           SCHEMA_VERSION
  <2>5. Fit(164, d) => Fit(165, e)
    BY <2>1 DEF VersionSet, Vars, Lacks, Fit
  <2> QED BY <1>0, <1>4, <2>2, <2>3, <2>4, <2>5 DEF StepTo, Point
<1> QED BY <1>1, <1>2, <1>3, <1>4

\* v9_to_v10, statement by statement: each leads to what is promised before the next.
LEMMA v9_to_v10_Step ==
  ASSUME NEW d, Database(d), NEW k \in 1..1, d.version = VersionAt(9, k),
         ~Fails(d, v9_to_v10[k]), NEW e, e = Execute(d, v9_to_v10[k])
  PROVE  StepTo(9, k, d, e)
<1>0. \A j \in Nat : VersionAt(9, j) = IF j > 1 THEN 10 ELSE 9
  BY Sizes DEF VersionAt, NextVersion
<1>1. CASE k = 1
  <2>1. VersionSet(d, e, 10)
    BY <1>1, SetVersionEffect DEF v9_to_v10
  <2>2. /\ d.version = 9 /\ e.version = 10
        /\ Database(e)
        /\ Has(d, Vars, Whole) => Has(e, Vars, Whole)
    BY <1>0, <1>1, <2>1 DEF VersionSet, Vars
  <2>3. Objects(d) /\ ObjectsIn(9, 1, d) => Objects(e) /\ ObjectsIn(9, 2, e)
    BY <2>1, <2>2 DEF VersionSet, HasAll, Lacks, TxTypes, TxColumns, Objects, ObjectsIn
  <2>4. FactsOf(d) /\ FactsIn(9, 1, d) => FactsOf(e) /\ FactsIn(9, 2, e)
    BY <2>1, <2>2
       DEF VersionSet, Lacks, TxOld, TxRows, TxAll, TxKept, FactsOf, FactsIn, Migrated,
           SCHEMA_VERSION
  <2>5. Fit(181, d) => Fit(182, e)
    BY <2>1 DEF VersionSet, Vars, Lacks, Fit
  <2> QED BY <1>0, <1>1, <2>2, <2>3, <2>4, <2>5 DEF StepTo, Point
<1> QED BY <1>1

\* v10_to_v20, statement by statement: each leads to what is promised before the next.
LEMMA v10_to_v20_Step ==
  ASSUME NEW d, Database(d), NEW k \in 1..15, d.version = VersionAt(10, k),
         ~Fails(d, v10_to_v20[k]), NEW e, e = Execute(d, v10_to_v20[k])
  PROVE  StepTo(10, k, d, e)
<1>0. \A j \in Nat : VersionAt(10, j) = IF j = 1 THEN 10 ELSE 20
  BY DEF VersionAt
<1>1. CASE k = 1
  <2>1. VersionSet(d, e, 20)
    BY <1>1, SetVersionEffect DEF v10_to_v20
  <2>2. /\ d.version = 10 /\ e.version = 20
        /\ Database(e)
        /\ Has(d, Vars, Whole) => Has(e, Vars, Whole)
    BY <1>0, <1>1, <2>1 DEF VersionSet, Vars
  <2>3. Objects(d) /\ ObjectsIn(10, 1, d) => Objects(e) /\ ObjectsIn(10, 2, e)
    BY <2>1, <2>2 DEF VersionSet, HasAll, Lacks, TxTypes, TxColumns, Objects, ObjectsIn
  <2>4. FactsOf(d) /\ FactsIn(10, 1, d) => FactsOf(e) /\ FactsIn(10, 2, e)
    BY <2>1, <2>2
       DEF VersionSet, Lacks, TxOld, TxRows, TxAll, TxKept, FactsOf, FactsIn, Migrated,
           SCHEMA_VERSION
  <2>5. Fit(201, d) => Fit(202, e)
    BY <2>1 DEF VersionSet, Vars, Lacks, Fit
  <2> QED BY <1>0, <1>1, <2>2, <2>3, <2>4, <2>5 DEF StepTo, Point
<1>2. CASE k = 2
  <2>1. Created(d, e, "utxos", {})
    BY <1>2, CreateEffect DEF v10_to_v20
  <2>2. /\ d.version = 20 /\ e.version = 20
        /\ Database(e)
        /\ Has(d, Vars, Whole) => Has(e, Vars, Whole)
    BY <1>0, <1>2, <2>1 DEF Created, Vars
  <2>3. Objects(d) /\ ObjectsIn(10, 2, d) => Objects(e) /\ ObjectsIn(10, 3, e)
    BY <2>1, <2>2 DEF Created, HasAll, Lacks, TxTypes, TxColumns, Objects, ObjectsIn
  <2>4. FactsOf(d) /\ FactsIn(10, 2, d) => FactsOf(e) /\ FactsIn(10, 3, e)
    BY <2>1, <2>2
       DEF Created, Lacks, TxOld, TxRows, TxAll, TxKept, FactsOf, FactsIn, Migrated,
           SCHEMA_VERSION
  <2>5. Fit(202, d) => Fit(203, e)
    BY <2>1, NotWhole DEF Created, Vars, Lacks, Fit
  <2> QED BY <1>0, <1>2, <2>2, <2>3, <2>4, <2>5 DEF StepTo, Point
<1>3. CASE k = 3
  <2>1. Altered(d, e, "transactions_outputs")
    BY <1>3, AlterEffect DEF v10_to_v20
  <2>2. /\ d.version = 20 /\ e.version = 20
        /\ Database(e)
        /\ Has(d, Vars, Whole) => Has(e, Vars, Whole)
    BY <1>0, <1>3, <2>1 DEF Altered, Vars
  <2>3. Objects(d) /\ ObjectsIn(10, 3, d) => Objects(e) /\ ObjectsIn(10, 4, e)
    BY <2>1, <2>2 DEF Altered, HasAll, Lacks, TxTypes, TxColumns, Objects, ObjectsIn
  <2>4. FactsOf(d) /\ FactsIn(10, 3, d) => FactsOf(e) /\ FactsIn(10, 4, e)
    BY <2>1, <2>2
       DEF Altered, Lacks, TxOld, TxRows, TxAll, TxKept, FactsOf, FactsIn, Migrated,
           SCHEMA_VERSION
  <2>5. Fit(203, d) => Fit(204, e)
    BY <2>1 DEF Altered, Vars, Lacks, Fit
  <2> QED BY <1>0, <1>3, <2>2, <2>3, <2>4, <2>5 DEF StepTo, Point
<1>4. CASE k = 4
  <2>1. Altered(d, e, "addresses_transactions")
    BY <1>4, AlterEffect DEF v10_to_v20
  <2>2. /\ d.version = 20 /\ e.version = 20
        /\ Database(e)
        /\ Has(d, Vars, Whole) => Has(e, Vars, Whole)
    BY <1>0, <1>4, <2>1 DEF Altered, Vars
  <2>3. Objects(d) /\ ObjectsIn(10, 4, d) => Objects(e) /\ ObjectsIn(10, 5, e)
    BY <2>1, <2>2 DEF Altered, HasAll, Lacks, TxTypes, TxColumns, Objects, ObjectsIn
  <2>4. FactsOf(d) /\ FactsIn(10, 4, d) => FactsOf(e) /\ FactsIn(10, 5, e)
    BY <2>1, <2>2
       DEF Altered, Lacks, TxOld, TxRows, TxAll, TxKept, FactsOf, FactsIn, Migrated,
           SCHEMA_VERSION
  <2>5. Fit(204, d) => Fit(205, e)
    BY <2>1 DEF Altered, Vars, Lacks, Fit
  <2> QED BY <1>0, <1>4, <2>2, <2>3, <2>4, <2>5 DEF StepTo, Point
<1>5. CASE k = 5
  <2>1. TableRenamed(d, e, "transactions", "transactions_old")
    BY <1>5, RenameTableEffect DEF v10_to_v20
  <2>2. /\ d.version = 20 /\ e.version = 20
        /\ Database(e)
        /\ Has(d, Vars, Whole) => Has(e, Vars, Whole)
    BY <1>0, <1>5, <2>1 DEF TableRenamed, Vars
  <2>3. Objects(d) /\ ObjectsIn(10, 5, d) => Objects(e) /\ ObjectsIn(10, 6, e)
    BY <2>1, <2>2 DEF TableRenamed, HasAll, Lacks, TxTypes, TxColumns, Objects, ObjectsIn
  <2>4. FactsOf(d) /\ FactsIn(10, 5, d) => FactsOf(e) /\ FactsIn(10, 6, e)
    BY <2>1, <2>2
       DEF TableRenamed, Lacks, TxOld, TxRows, TxAll, TxKept, FactsOf, FactsIn, Migrated,
           SCHEMA_VERSION
  <2>5. Fit(205, d) => Fit(206, e)
    BY <2>1 DEF TableRenamed, Vars, Lacks, Fit
  <2> QED BY <1>0, <1>5, <2>2, <2>3, <2>4, <2>5 DEF StepTo, Point
<1>6. CASE k = 6
  <2>1. TableRenamed(d, e, "transactions_inputs", "transactions_inputs_old")
    BY <1>6, RenameTableEffect DEF v10_to_v20
  <2>2. /\ d.version = 20 /\ e.version = 20
        /\ Database(e)
        /\ Has(d, Vars, Whole) => Has(e, Vars, Whole)
    BY <1>0, <1>6, <2>1 DEF TableRenamed, Vars
  <2>3. Objects(d) /\ ObjectsIn(10, 6, d) => Objects(e) /\ ObjectsIn(10, 7, e)
    BY <2>1, <2>2 DEF TableRenamed, HasAll, Lacks, TxTypes, TxColumns, Objects, ObjectsIn
  <2>4. FactsOf(d) /\ FactsIn(10, 6, d) => FactsOf(e) /\ FactsIn(10, 7, e)
    BY <2>1, <2>2
       DEF TableRenamed, Lacks, TxOld, TxRows, TxAll, TxKept, FactsOf, FactsIn, Migrated,
           SCHEMA_VERSION
  <2>5. Fit(206, d) => Fit(207, e)
    BY <2>1 DEF TableRenamed, Vars, Lacks, Fit
  <2> QED BY <1>0, <1>6, <2>2, <2>3, <2>4, <2>5 DEF StepTo, Point
<1>7. CASE k = 7
  <2>1. TableRenamed(d, e, "transactions_outputs", "transactions_outputs_old")
    BY <1>7, RenameTableEffect DEF v10_to_v20
  <2>2. /\ d.version = 20 /\ e.version = 20
        /\ Database(e)
        /\ Has(d, Vars, Whole) => Has(e, Vars, Whole)
    BY <1>0, <1>7, <2>1 DEF TableRenamed, Vars
  <2>3. Objects(d) /\ ObjectsIn(10, 7, d) => Objects(e) /\ ObjectsIn(10, 8, e)
    BY <2>1, <2>2 DEF TableRenamed, HasAll, Lacks, TxTypes, TxColumns, Objects, ObjectsIn
  <2>4. FactsOf(d) /\ FactsIn(10, 7, d) => FactsOf(e) /\ FactsIn(10, 8, e)
    BY <2>1, <2>2
       DEF TableRenamed, Lacks, TxOld, TxRows, TxAll, TxKept, FactsOf, FactsIn, Migrated,
           SCHEMA_VERSION
  <2>5. Fit(207, d) => Fit(208, e)
    BY <2>1 DEF TableRenamed, Vars, Lacks, Fit
  <2> QED BY <1>0, <1>7, <2>2, <2>3, <2>4, <2>5 DEF StepTo, Point
<1>8. CASE k = 8
  <2>1. Created(d, e, "transactions_inputs",
          {"type", "previous_outpoint_script", "previous_outpoint_amount"})
    BY <1>8, CreateEffect DEF v10_to_v20
  <2>2. /\ d.version = 20 /\ e.version = 20
        /\ Database(e)
        /\ Has(d, Vars, Whole) => Has(e, Vars, Whole)
    BY <1>0, <1>8, <2>1 DEF Created, Vars
  <2>3. Objects(d) /\ ObjectsIn(10, 8, d) => Objects(e) /\ ObjectsIn(10, 9, e)
    BY <2>1, <2>2 DEF Created, HasAll, Lacks, TxTypes, TxColumns, Objects, ObjectsIn
  <2>4. FactsOf(d) /\ FactsIn(10, 8, d) => FactsOf(e) /\ FactsIn(10, 9, e)
    BY <2>1, <2>2
       DEF Created, Lacks, TxOld, TxRows, TxAll, TxKept, FactsOf, FactsIn, Migrated,
           SCHEMA_VERSION
  <2>5. Fit(208, d) => Fit(209, e)
    BY <2>1, NotWhole DEF Created, Vars, Lacks, Fit
  <2> QED BY <1>0, <1>8, <2>2, <2>3, <2>4, <2>5 DEF StepTo, Point
<1>9. CASE k = 9
  <2>1. Created(d, e, "transactions_outputs", {"type"})
    BY <1>9, CreateEffect DEF v10_to_v20
  <2>2. /\ d.version = 20 /\ e.version = 20
        /\ Database(e)
        /\ Has(d, Vars, Whole) => Has(e, Vars, Whole)
    BY <1>0, <1>9, <2>1 DEF Created, Vars
  <2>3. Objects(d) /\ ObjectsIn(10, 9, d) => Objects(e) /\ ObjectsIn(10, 10, e)
    BY <2>1, <2>2 DEF Created, HasAll, Lacks, TxTypes, TxColumns, Objects, ObjectsIn
  <2>4. FactsOf(d) /\ FactsIn(10, 9, d) => FactsOf(e) /\ FactsIn(10, 10, e)
    BY <2>1, <2>2
       DEF Created, Lacks, TxOld, TxRows, TxAll, TxKept, FactsOf, FactsIn, Migrated,
           SCHEMA_VERSION
  <2>5. Fit(209, d) => Fit(210, e)
    BY <2>1, NotWhole DEF Created, Vars, Lacks, Fit
  <2> QED BY <1>0, <1>9, <2>2, <2>3, <2>4, <2>5 DEF StepTo, Point
<1>10. CASE k = 10
  <2>1. Created(d, e, "transactions", {"subnetwork_id", "inputs", "outputs", "outputs_spent"})
    BY <1>10, CreateEffect DEF v10_to_v20
  <2>2. /\ d.version = 20 /\ e.version = 20
        /\ Database(e)
        /\ Has(d, Vars, Whole) => Has(e, Vars, Whole)
    BY <1>0, <1>10, <2>1 DEF Created, Vars
  <2>3. Objects(d) /\ ObjectsIn(10, 10, d) => Objects(e) /\ ObjectsIn(10, 11, e)
    BY <2>1, <2>2 DEF Created, HasAll, Lacks, TxTypes, TxColumns, Objects, ObjectsIn
  <2>4. FactsOf(d) /\ FactsIn(10, 10, d) => FactsOf(e) /\ FactsIn(10, 11, e)
    BY <2>1, <2>2
       DEF Created, Lacks, TxOld, TxRows, TxAll, TxKept, FactsOf, FactsIn, Migrated,
           SCHEMA_VERSION
  <2>5. Fit(210, d) => Fit(211, e)
    BY <2>1, NotWhole DEF Created, Vars, Lacks, Fit
  <2> QED BY <1>0, <1>10, <2>2, <2>3, <2>4, <2>5 DEF StepTo, Point
<1>11. CASE k = 11
  <2> DEFINE copies == {<<"transaction", Table("transactions_old"), Table("transactions")>>,
                        <<"subnetwork", <<"transactions_old", "subnetwork_id">>,
                          <<"transactions", "subnetwork_id">> >>,
                        <<"inputs", Table("transactions_inputs_old"),
                          <<"transactions", "inputs">> >>,
                        <<"outputs", Table("transactions_outputs_old"),
                          <<"transactions", "outputs">> >>}
  <2>1. /\ <<"transaction", <<"transactions_old", Whole>>,
             <<"transactions", Whole>> >> \in copies
        /\ <<"subnetwork", <<"transactions_old", "subnetwork_id">>,
             <<"transactions", "subnetwork_id">> >> \in copies
        /\ <<"inputs", <<"transactions_inputs_old", Whole>>,
             <<"transactions", "inputs">> >> \in copies
        /\ <<"outputs", <<"transactions_outputs_old", Whole>>,
             <<"transactions", "outputs">> >> \in copies
    BY DEF Table
  <2>2. Copies(copies)
    BY DEF Copies, Table
  <2>3. v10_to_v20[k] = Copy(copies, {})
    BY <1>11 DEF v10_to_v20
  <2> HIDE DEF copies
  <2>4. CopiedRows(d, e, copies, {})
    BY <2>2, <2>3, CopyEffect
  <2>5. /\ Has(d, "transactions_old", Whole)
        /\ Has(d, "transactions", Whole)
        /\ Has(d, "transactions_old", "subnetwork_id")
        /\ Has(d, "transactions", "subnetwork_id")
        /\ Has(d, "transactions_inputs_old", Whole)
        /\ Has(d, "transactions", "inputs")
        /\ Has(d, "transactions_outputs_old", Whole)
        /\ Has(d, "transactions", "outputs")
    BY <2>1, <2>4 DEF CopiedRows
  <2>6. \A u, c : Has(e, u, c) <=> Has(d, u, c)
    BY <2>4 DEF CopiedRows
  <2>7. /\ \A f, u, c : At(d, f, u, c) => At(e, f, u, c)
        /\ At(d, "transaction", "transactions_old", Whole)
             => At(e, "transaction", "transactions", Whole)
        /\ At(d, "subnetwork", "transactions_old", "subnetwork_id")
             => At(e, "subnetwork", "transactions", "subnetwork_id")
        /\ At(d, "inputs", "transactions_inputs_old", Whole)
             => At(e, "inputs", "transactions", "inputs")
        /\ At(d, "outputs", "transactions_outputs_old", Whole)
             => At(e, "outputs", "transactions", "outputs")
    BY <2>1, <2>4 DEF CopiedRows, Joined
  <2>8. Database(e) /\ e.version = d.version
    BY <2>4 DEF CopiedRows
  <2>9. /\ d.version = 20 /\ e.version = 20
        /\ Database(e)
        /\ Has(d, Vars, Whole) => Has(e, Vars, Whole)
    BY <1>0, <1>11, <2>5, <2>6, <2>7, <2>8 DEF Vars
  <2>10. Objects(d) /\ ObjectsIn(10, 11, d) => Objects(e) /\ ObjectsIn(10, 12, e)
    BY <2>5, <2>6, <2>7, <2>8, <2>9
       DEF HasAll, Lacks, TxTypes, TxColumns, Objects, ObjectsIn
  <2>11. FactsOf(d) /\ FactsIn(10, 11, d) => FactsOf(e) /\ FactsIn(10, 12, e)
    BY <2>5, <2>6, <2>7, <2>8, <2>9
       DEF Lacks, TxOld, TxRows, TxAll, TxKept, FactsOf, FactsIn, Migrated, SCHEMA_VERSION
  <2>12. Fit(211, d) => Fit(212, e)
    BY <2>5, <2>6, <2>7, <2>8 DEF Vars, Lacks, Fit
  <2> QED BY <1>0, <1>11, <2>9, <2>10, <2>11, <2>12 DEF StepTo, Point
<1>12. CASE k = 12
  <2>1. TableDropped(d, e, "transactions_old")
    BY <1>12, DropTableEffect DEF v10_to_v20, Vars
  <2>2. /\ d.version = 20 /\ e.version = 20
        /\ Database(e)
        /\ Has(d, Vars, Whole) => Has(e, Vars, Whole)
    BY <1>0, <1>12, <2>1 DEF TableDropped, Vars
  <2>3. Objects(d) /\ ObjectsIn(10, 12, d) => Objects(e) /\ ObjectsIn(10, 13, e)
    BY <2>1, <2>2 DEF TableDropped, HasAll, Lacks, TxTypes, TxColumns, Objects, ObjectsIn
  <2>4. FactsOf(d) /\ FactsIn(10, 12, d) => FactsOf(e) /\ FactsIn(10, 13, e)
    BY <2>1, <2>2
       DEF TableDropped, Lacks, TxOld, TxRows, TxAll, TxKept, FactsOf, FactsIn, Migrated,
           SCHEMA_VERSION
  <2>5. Fit(212, d) => Fit(213, e)
    BY <2>1 DEF TableDropped, Vars, Lacks, Fit
  <2> QED BY <1>0, <1>12, <2>2, <2>3, <2>4, <2>5 DEF StepTo, Point
<1>13. CASE k = 13
  <2>1. TableDropped(d, e, "transactions_inputs_old")
    BY <1>13, DropTableEffect DEF v10_to_v20, Vars
  <2>2. /\ d.version = 20 /\ e.version = 20
        /\ Database(e)
        /\ Has(d, Vars, Whole) => Has(e, Vars, Whole)
    BY <1>0, <1>13, <2>1 DEF TableDropped, Vars
  <2>3. Objects(d) /\ ObjectsIn(10, 13, d) => Objects(e) /\ ObjectsIn(10, 14, e)
    BY <2>1, <2>2 DEF TableDropped, HasAll, Lacks, TxTypes, TxColumns, Objects, ObjectsIn
  <2>4. FactsOf(d) /\ FactsIn(10, 13, d) => FactsOf(e) /\ FactsIn(10, 14, e)
    BY <2>1, <2>2
       DEF TableDropped, Lacks, TxOld, TxRows, TxAll, TxKept, FactsOf, FactsIn, Migrated,
           SCHEMA_VERSION
  <2>5. Fit(213, d) => Fit(214, e)
    BY <2>1 DEF TableDropped, Vars, Lacks, Fit
  <2> QED BY <1>0, <1>13, <2>2, <2>3, <2>4, <2>5 DEF StepTo, Point
<1>14. CASE k = 14
  <2>1. TableDropped(d, e, "transactions_outputs_old")
    BY <1>14, DropTableEffect DEF v10_to_v20, Vars
  <2>2. /\ d.version = 20 /\ e.version = 20
        /\ Database(e)
        /\ Has(d, Vars, Whole) => Has(e, Vars, Whole)
    BY <1>0, <1>14, <2>1 DEF TableDropped, Vars
  <2>3. Objects(d) /\ ObjectsIn(10, 14, d) => Objects(e) /\ ObjectsIn(10, 15, e)
    BY <2>1, <2>2 DEF TableDropped, HasAll, Lacks, TxTypes, TxColumns, Objects, ObjectsIn
  <2>4. FactsOf(d) /\ FactsIn(10, 14, d) => FactsOf(e) /\ FactsIn(10, 15, e)
    BY <2>1, <2>2
       DEF TableDropped, Lacks, TxOld, TxRows, TxAll, TxKept, FactsOf, FactsIn, Migrated,
           SCHEMA_VERSION
  <2>5. Fit(214, d) => Fit(215, e)
    BY <2>1 DEF TableDropped, Vars, Lacks, Fit
  <2> QED BY <1>0, <1>14, <2>2, <2>3, <2>4, <2>5 DEF StepTo, Point
<1>15. CASE k = 15
  <2>1. Added(d, e, "transactions", "pkey")
    BY <1>15, AddEffect DEF v10_to_v20
  <2>2. /\ d.version = 20 /\ e.version = 20
        /\ Database(e)
        /\ Has(d, Vars, Whole) => Has(e, Vars, Whole)
    BY <1>0, <1>15, <2>1 DEF Added, Vars
  <2>3. Objects(d) /\ ObjectsIn(10, 15, d) => Objects(e) /\ ObjectsIn(10, 16, e)
    BY <2>1, <2>2 DEF Added, HasAll, Lacks, TxTypes, TxColumns, Objects, ObjectsIn
  <2>4. FactsOf(d) /\ FactsIn(10, 15, d) => FactsOf(e) /\ FactsIn(10, 16, e)
    BY <2>1, <2>2
       DEF Added, Lacks, TxOld, TxRows, TxAll, TxKept, FactsOf, FactsIn, Migrated,
           SCHEMA_VERSION
  <2>5. Fit(215, d) => Fit(216, e)
    BY <2>1 DEF Added, Vars, Lacks, Fit
  <2> QED BY <1>0, <1>15, <2>2, <2>3, <2>4, <2>5 DEF StepTo, Point
<1> QED BY <1>1, <1>2, <1>3, <1>4, <1>5, <1>6, <1>7, <1>8, <1>9, <1>10, <1>11, <1>12,
           <1>13, <1>14, <1>15

\* v20_to_v21, statement by statement: each leads to what is promised before the next.
LEMMA v20_to_v21_Step ==
  ASSUME NEW d, Database(d), NEW k \in 1..11, d.version = VersionAt(20, k),
         ~Fails(d, v20_to_v21[k]), NEW e, e = Execute(d, v20_to_v21[k])
  PROVE  StepTo(20, k, d, e)
<1>0. \A j \in Nat : VersionAt(20, j) = IF j > 11 THEN 21 ELSE 20
  BY Sizes DEF VersionAt, NextVersion
<1>1. CASE k = 1
  <2>1. ColumnDropped(d, e, "transactions", "outputs_spent")
    BY <1>1, DropColumnEffect DEF v20_to_v21, Whole
  <2>2. /\ d.version = 20 /\ e.version = 20
        /\ Database(e)
        /\ Has(d, Vars, Whole) => Has(e, Vars, Whole)
    BY <1>0, <1>1, <2>1 DEF ColumnDropped, Vars
  <2>3. Objects(d) /\ ObjectsIn(20, 1, d) => Objects(e) /\ ObjectsIn(20, 2, e)
    BY <2>1, <2>2 DEF ColumnDropped, HasAll, Lacks, TxTypes, TxColumns, Objects, ObjectsIn
  <2>4. FactsOf(d) /\ FactsIn(20, 1, d) => FactsOf(e) /\ FactsIn(20, 2, e)
    BY <2>1, <2>2
       DEF ColumnDropped, Lacks, TxOld, TxRows, TxAll, TxKept, FactsOf, FactsIn, Migrated,
           SCHEMA_VERSION
  <2>5. Fit(221, d) => Fit(222, e)
    BY <2>1 DEF ColumnDropped, Vars, Lacks, Fit
  <2> QED BY <1>0, <1>1, <2>2, <2>3, <2>4, <2>5 DEF StepTo, Point
<1>2. CASE k = 2
  <2>1. TableDropped(d, e, "utxos")
    BY <1>2, DropTableEffect DEF v20_to_v21, Vars
  <2>2. /\ d.version = 20 /\ e.version = 20
        /\ Database(e)
        /\ Has(d, Vars, Whole) => Has(e, Vars, Whole)
    BY <1>0, <1>2, <2>1 DEF TableDropped, Vars
  <2>3. Objects(d) /\ ObjectsIn(20, 2, d) => Objects(e) /\ ObjectsIn(20, 3, e)
    BY <2>1, <2>2 DEF TableDropped, HasAll, Lacks, TxTypes, TxColumns, Objects, ObjectsIn
  <2>4. FactsOf(d) /\ FactsIn(20, 2, d) => FactsOf(e) /\ FactsIn(20, 3, e)
    BY <2>1, <2>2
       DEF TableDropped, Lacks, TxOld, TxRows, TxAll, TxKept, FactsOf, FactsIn, Migrated,
           SCHEMA_VERSION
  <2>5. Fit(222, d) => Fit(223, e)
    BY <2>1 DEF TableDropped, Vars, Lacks, Fit
  <2> QED BY <1>0, <1>2, <2>2, <2>3, <2>4, <2>5 DEF StepTo, Point
<1>3. CASE k = 3
  <2>1. Added(d, e, "transactions", "version")
    BY <1>3, AddEffect DEF v20_to_v21
  <2>2. /\ d.version = 20 /\ e.version = 20
        /\ Database(e)
        /\ Has(d, Vars, Whole) => Has(e, Vars, Whole)
    BY <1>0, <1>3, <2>1 DEF Added, Vars
  <2>3. Objects(d) /\ ObjectsIn(20, 3, d) => Objects(e) /\ ObjectsIn(20, 4, e)
    BY <2>1, <2>2 DEF Added, HasAll, Lacks, TxTypes, TxColumns, Objects, ObjectsIn
  <2>4. FactsOf(d) /\ FactsIn(20, 3, d) => FactsOf(e) /\ FactsIn(20, 4, e)
    BY <2>1, <2>2
       DEF Added, Lacks, TxOld, TxRows, TxAll, TxKept, FactsOf, FactsIn, Migrated,
           SCHEMA_VERSION
  <2>5. Fit(223, d) => Fit(224, e)
    BY <2>1 DEF Added, Vars, Lacks, Fit
  <2> QED BY <1>0, <1>3, <2>2, <2>3, <2>4, <2>5 DEF StepTo, Point
<1>4. CASE k = 4
  <2> DEFINE copies == {<<"subnetwork_names", Table("subnetworks"),
                        Table("subnetwork_compressed")>>}
  <2>1. <<"subnetwork_names", <<"subnetworks", Whole>>,
          <<"subnetwork_compressed", Whole>> >> \in copies
    BY DEF Table
  <2>2. \A u, c : <<"transaction", <<u, c>>, <<"transactions", Whole>> >> \notin copies
    BY DEF Table
  <2>3. Copies(copies)
    BY DEF Copies, Table
  <2>4. v20_to_v21[k] = CreateAs("subnetwork_compressed", {}, copies)
    BY <1>4 DEF v20_to_v21
  <2> HIDE DEF copies
  <2>5. CreatedAs(d, e, "subnetwork_compressed", {}, copies)
    BY <2>3, <2>4, CreateAsEffect
  <2>6. Has(d, "subnetworks", Whole)
    BY <2>1, <2>5 DEF CreatedAs
  <2>7. /\ \A u, c : (u = "subnetwork_compressed" /\ c \in {} \cup {Whole}) => ~Has(d, u, c)
        /\ \A u, c : Has(e, u, c)
             <=> Has(d, u, c) \/ (u = "subnetwork_compressed" /\ c \in {} \cup {Whole})
    BY <2>5 DEF CreatedAs
  <2>8. /\ \A f, u, c : At(d, f, u, c) => At(e, f, u, c)
        /\ At(d, "subnetwork_names", "subnetworks", Whole)
             => At(e, "subnetwork_names", "subnetwork_compressed", Whole)
    BY <2>1, <2>5 DEF CreatedAs, Joined
  <2>9. At(e, "transaction", "transactions", Whole)
          => At(d, "transaction", "transactions", Whole)
    BY <2>2, <2>5, NothingElseCopied
  <2>10. Database(e) /\ e.version = d.version
    BY <2>5 DEF CreatedAs
  <2>11. /\ d.version = 20 /\ e.version = 20
         /\ Database(e)
         /\ Has(d, Vars, Whole) => Has(e, Vars, Whole)
    BY <1>0, <1>4, <2>6, <2>7, <2>8, <2>9, <2>10 DEF Vars
  <2>12. Objects(d) /\ ObjectsIn(20, 4, d) => Objects(e) /\ ObjectsIn(20, 5, e)
    BY <2>6, <2>7, <2>8, <2>9, <2>10, <2>11
       DEF HasAll, Lacks, TxTypes, TxColumns, Objects, ObjectsIn
  <2>13. FactsOf(d) /\ FactsIn(20, 4, d) => FactsOf(e) /\ FactsIn(20, 5, e)
    BY <2>6, <2>7, <2>8, <2>9, <2>10, <2>11
       DEF Lacks, TxOld, TxRows, TxAll, TxKept, FactsOf, FactsIn, Migrated, SCHEMA_VERSION
  <2>14. Fit(224, d) => Fit(225, e)
    BY <2>6, <2>7, <2>8, <2>9, <2>10, NotWhole DEF Vars, Lacks, Fit
  <2> QED BY <1>0, <1>4, <2>11, <2>12, <2>13, <2>14 DEF StepTo, Point
<1>5. CASE k = 5
  <2>1. Added(d, e, "transactions", "subnetwork_id_new")
    BY <1>5, AddEffect DEF v20_to_v21
  <2>2. /\ d.version = 20 /\ e.version = 20
        /\ Database(e)
        /\ Has(d, Vars, Whole) => Has(e, Vars, Whole)
    BY <1>0, <1>5, <2>1 DEF Added, Vars
  <2>3. Objects(d) /\ ObjectsIn(20, 5, d) => Objects(e) /\ ObjectsIn(20, 6, e)
    BY <2>1, <2>2 DEF Added, HasAll, Lacks, TxTypes, TxColumns, Objects, ObjectsIn
  <2>4. FactsOf(d) /\ FactsIn(20, 5, d) => FactsOf(e) /\ FactsIn(20, 6, e)
    BY <2>1, <2>2
       DEF Added, Lacks, TxOld, TxRows, TxAll, TxKept, FactsOf, FactsIn, Migrated,
           SCHEMA_VERSION
  <2>5. Fit(225, d) => Fit(226, e)
    BY <2>1 DEF Added, Vars, Lacks, Fit
  <2> QED BY <1>0, <1>5, <2>2, <2>3, <2>4, <2>5 DEF StepTo, Point
<1>6. CASE k = 6
  <2> DEFINE copies == {<<"subnetwork", <<"transactions", "subnetwork_id">>,
                        <<"transactions", "subnetwork_id_new">> >>,
                        <<"subnetwork_names", Table("subnetwork_compressed"),
                          <<"transactions", "subnetwork_id_new">> >>}
  <2>1. /\ <<"subnetwork", <<"transactions", "subnetwork_id">>,
             <<"transactions", "subnetwork_id_new">> >> \in copies
        /\ <<"subnetwork_names", <<"subnetwork_compressed", Whole>>,
             <<"transactions", "subnetwork_id_new">> >> \in copies
    BY DEF Table
  <2>2. Copies(copies)
    BY DEF Copies, Table
  <2>3. v20_to_v21[k] = Copy(copies, {<<"transaction", Table("transactions")>>})
    BY <1>6 DEF v20_to_v21
  <2> HIDE DEF copies
  <2>4. CopiedRows(d, e, copies, {<<"transaction", Table("transactions")>>})
    BY <2>2, <2>3, CopyEffect
  <2>5. /\ Has(d, "transactions", "subnetwork_id")
        /\ Has(d, "transactions", "subnetwork_id_new")
        /\ Has(d, "subnetwork_compressed", Whole)
        /\ At(d, "transaction", "transactions", Whole)
    BY <2>1, <2>4 DEF CopiedRows, Table
  <2>6. \A u, c : Has(e, u, c) <=> Has(d, u, c)
    BY <2>4 DEF CopiedRows
  <2>7. /\ \A f, u, c : At(d, f, u, c) => At(e, f, u, c)
        /\ At(d, "subnetwork", "transactions", "subnetwork_id")
             => At(e, "subnetwork", "transactions", "subnetwork_id_new")
        /\ At(d, "subnetwork_names", "subnetwork_compressed", Whole)
             => At(e, "subnetwork_names", "transactions", "subnetwork_id_new")
    BY <2>1, <2>4 DEF CopiedRows, Joined
  <2>8. Database(e) /\ e.version = d.version
    BY <2>4 DEF CopiedRows
  <2>9. /\ d.version = 20 /\ e.version = 20
        /\ Database(e)
        /\ Has(d, Vars, Whole) => Has(e, Vars, Whole)
    BY <1>0, <1>6, <2>5, <2>6, <2>7, <2>8 DEF Vars
  <2>10. Objects(d) /\ ObjectsIn(20, 6, d) => Objects(e) /\ ObjectsIn(20, 7, e)
    BY <2>5, <2>6, <2>7, <2>8, <2>9
       DEF HasAll, Lacks, TxTypes, TxColumns, Objects, ObjectsIn
  <2>11. FactsOf(d) /\ FactsIn(20, 6, d) => FactsOf(e) /\ FactsIn(20, 7, e)
    BY <2>5, <2>6, <2>7, <2>8, <2>9
       DEF Lacks, TxOld, TxRows, TxAll, TxKept, FactsOf, FactsIn, Migrated, SCHEMA_VERSION
  <2>12. Fit(226, d) => Fit(227, e)
    BY <2>5, <2>6, <2>7, <2>8 DEF Vars, Lacks, Fit
  <2> QED BY <1>0, <1>6, <2>9, <2>10, <2>11, <2>12 DEF StepTo, Point
<1>7. CASE k = 7
  <2>1. TableDropped(d, e, "subnetwork_compressed")
    BY <1>7, DropTableEffect DEF v20_to_v21, Vars
  <2>2. /\ d.version = 20 /\ e.version = 20
        /\ Database(e)
        /\ Has(d, Vars, Whole) => Has(e, Vars, Whole)
    BY <1>0, <1>7, <2>1 DEF TableDropped, Vars
  <2>3. Objects(d) /\ ObjectsIn(20, 7, d) => Objects(e) /\ ObjectsIn(20, 8, e)
    BY <2>1, <2>2 DEF TableDropped, HasAll, Lacks, TxTypes, TxColumns, Objects, ObjectsIn
  <2>4. FactsOf(d) /\ FactsIn(20, 7, d) => FactsOf(e) /\ FactsIn(20, 8, e)
    BY <2>1, <2>2
       DEF TableDropped, Lacks, TxOld, TxRows, TxAll, TxKept, FactsOf, FactsIn, Migrated,
           SCHEMA_VERSION
  <2>5. Fit(227, d) => Fit(228, e)
    BY <2>1 DEF TableDropped, Vars, Lacks, Fit
  <2> QED BY <1>0, <1>7, <2>2, <2>3, <2>4, <2>5 DEF StepTo, Point
<1>8. CASE k = 8
  <2>1. ColumnDropped(d, e, "transactions", "subnetwork_id")
    BY <1>8, DropColumnEffect DEF v20_to_v21, Whole
  <2>2. /\ d.version = 20 /\ e.version = 20
        /\ Database(e)
        /\ Has(d, Vars, Whole) => Has(e, Vars, Whole)
    BY <1>0, <1>8, <2>1 DEF ColumnDropped, Vars
  <2>3. Objects(d) /\ ObjectsIn(20, 8, d) => Objects(e) /\ ObjectsIn(20, 9, e)
    BY <2>1, <2>2 DEF ColumnDropped, HasAll, Lacks, TxTypes, TxColumns, Objects, ObjectsIn
  <2>4. FactsOf(d) /\ FactsIn(20, 8, d) => FactsOf(e) /\ FactsIn(20, 9, e)
    BY <2>1, <2>2
       DEF ColumnDropped, Lacks, TxOld, TxRows, TxAll, TxKept, FactsOf, FactsIn, Migrated,
           SCHEMA_VERSION
  <2>5. Fit(228, d) => Fit(229, e)
    BY <2>1 DEF ColumnDropped, Vars, Lacks, Fit
  <2> QED BY <1>0, <1>8, <2>2, <2>3, <2>4, <2>5 DEF StepTo, Point
<1>9. CASE k = 9
  <2>1. ColumnRenamed(d, e, "transactions", "subnetwork_id_new", "subnetwork_id")
    BY <1>9, RenameColumnEffect DEF v20_to_v21, Whole
  <2>2. /\ d.version = 20 /\ e.version = 20
        /\ Database(e)
        /\ Has(d, Vars, Whole) => Has(e, Vars, Whole)
    BY <1>0, <1>9, <2>1 DEF ColumnRenamed, Vars
  <2>3. Objects(d) /\ ObjectsIn(20, 9, d) => Objects(e) /\ ObjectsIn(20, 10, e)
    BY <2>1, <2>2 DEF ColumnRenamed, HasAll, Lacks, TxTypes, TxColumns, Objects, ObjectsIn
  <2>4. FactsOf(d) /\ FactsIn(20, 9, d) => FactsOf(e) /\ FactsIn(20, 10, e)
    BY <2>1, <2>2
       DEF ColumnRenamed, Lacks, TxOld, TxRows, TxAll, TxKept, FactsOf, FactsIn, Migrated,
           SCHEMA_VERSION
  <2>5. Fit(229, d) => Fit(230, e)
    BY <2>1 DEF ColumnRenamed, Vars, Lacks, Fit
  <2> QED BY <1>0, <1>9, <2>2, <2>3, <2>4, <2>5 DEF StepTo, Point
<1>10. CASE k = 10
  <2>1. TableDropped(d, e, "subnetworks")
    BY <1>10, DropTableEffect DEF v20_to_v21, Vars
  <2>2. /\ d.version = 20 /\ e.version = 20
        /\ Database(e)
        /\ Has(d, Vars, Whole) => Has(e, Vars, Whole)
    BY <1>0, <1>10, <2>1 DEF TableDropped, Vars
  <2>3. Objects(d) /\ ObjectsIn(20, 10, d) => Objects(e) /\ ObjectsIn(20, 11, e)
    BY <2>1, <2>2 DEF TableDropped, HasAll, Lacks, TxTypes, TxColumns, Objects, ObjectsIn
  <2>4. FactsOf(d) /\ FactsIn(20, 10, d) => FactsOf(e) /\ FactsIn(20, 11, e)
    BY <2>1, <2>2
       DEF TableDropped, Lacks, TxOld, TxRows, TxAll, TxKept, FactsOf, FactsIn, Migrated,
           SCHEMA_VERSION
  <2>5. Fit(230, d) => Fit(231, e)
    BY <2>1 DEF TableDropped, Vars, Lacks, Fit
  <2> QED BY <1>0, <1>10, <2>2, <2>3, <2>4, <2>5 DEF StepTo, Point
<1>11. CASE k = 11
  <2>1. VersionSet(d, e, 21)
    BY <1>11, SetVersionEffect DEF v20_to_v21
  <2>2. /\ d.version = 20 /\ e.version = 21
        /\ Database(e)
        /\ Has(d, Vars, Whole) => Has(e, Vars, Whole)
    BY <1>0, <1>11, <2>1 DEF VersionSet, Vars
  <2>3. Objects(d) /\ ObjectsIn(20, 11, d) => Objects(e) /\ ObjectsIn(20, 12, e)
    BY <2>1, <2>2 DEF VersionSet, HasAll, Lacks, TxTypes, TxColumns, Objects, ObjectsIn
  <2>4. FactsOf(d) /\ FactsIn(20, 11, d) => FactsOf(e) /\ FactsIn(20, 12, e)
    BY <2>1, <2>2
       DEF VersionSet, Lacks, TxOld, TxRows, TxAll, TxKept, FactsOf, FactsIn, Migrated,
           SCHEMA_VERSION
  <2>5. Fit(231, d) => Fit(232, e)
    BY <2>1 DEF VersionSet, Vars, Lacks, Fit
  <2> QED BY <1>0, <1>11, <2>2, <2>3, <2>4, <2>5 DEF StepTo, Point
<1> QED BY <1>1, <1>2, <1>3, <1>4, <1>5, <1>6, <1>7, <1>8, <1>9, <1>10, <1>11

\* v21_to_v22, statement by statement: each leads to what is promised before the next.
LEMMA v21_to_v22_Step ==
  ASSUME NEW d, Database(d), NEW k \in 1..5, d.version = VersionAt(21, k),
         ~Fails(d, v21_to_v22[k]), NEW e, e = Execute(d, v21_to_v22[k])
  PROVE  StepTo(21, k, d, e)
<1>0. \A j \in Nat : VersionAt(21, j) = IF j > 5 THEN 22 ELSE 21
  BY Sizes DEF VersionAt, NextVersion
<1>1. CASE k = 1
  <2>1. Added(d, e, "transactions_inputs", "compute_budget")
    BY <1>1, AddEffect DEF v21_to_v22
  <2>2. /\ d.version = 21 /\ e.version = 21
        /\ Database(e)
        /\ Has(d, Vars, Whole) => Has(e, Vars, Whole)
    BY <1>0, <1>1, <2>1 DEF Added, Vars
  <2>3. Objects(d) /\ ObjectsIn(21, 1, d) => Objects(e) /\ ObjectsIn(21, 2, e)
    BY <2>1, <2>2 DEF Added, HasAll, Lacks, TxTypes, TxColumns, Objects, ObjectsIn
  <2>4. FactsOf(d) /\ FactsIn(21, 1, d) => FactsOf(e) /\ FactsIn(21, 2, e)
    BY <2>1, <2>2
       DEF Added, Lacks, TxOld, TxRows, TxAll, TxKept, FactsOf, FactsIn, Migrated,
           SCHEMA_VERSION
  <2>5. Fit(241, d) => Fit(242, e)
    BY <2>1 DEF Added, Vars, Lacks, Fit
  <2> QED BY <1>0, <1>1, <2>2, <2>3, <2>4, <2>5 DEF StepTo, Point
<1>2. CASE k = 2
  <2>1. Added(d, e, "transactions_inputs", "covenant_id")
    BY <1>2, AddEffect DEF v21_to_v22
  <2>2. /\ d.version = 21 /\ e.version = 21
        /\ Database(e)
        /\ Has(d, Vars, Whole) => Has(e, Vars, Whole)
    BY <1>0, <1>2, <2>1 DEF Added, Vars
  <2>3. Objects(d) /\ ObjectsIn(21, 2, d) => Objects(e) /\ ObjectsIn(21, 3, e)
    BY <2>1, <2>2 DEF Added, HasAll, Lacks, TxTypes, TxColumns, Objects, ObjectsIn
  <2>4. FactsOf(d) /\ FactsIn(21, 2, d) => FactsOf(e) /\ FactsIn(21, 3, e)
    BY <2>1, <2>2
       DEF Added, Lacks, TxOld, TxRows, TxAll, TxKept, FactsOf, FactsIn, Migrated,
           SCHEMA_VERSION
  <2>5. Fit(242, d) => Fit(243, e)
    BY <2>1 DEF Added, Vars, Lacks, Fit
  <2> QED BY <1>0, <1>2, <2>2, <2>3, <2>4, <2>5 DEF StepTo, Point
<1>3. CASE k = 3
  <2>1. Added(d, e, "transactions_outputs", "covenant_authorizing_input")
    BY <1>3, AddEffect DEF v21_to_v22
  <2>2. /\ d.version = 21 /\ e.version = 21
        /\ Database(e)
        /\ Has(d, Vars, Whole) => Has(e, Vars, Whole)
    BY <1>0, <1>3, <2>1 DEF Added, Vars
  <2>3. Objects(d) /\ ObjectsIn(21, 3, d) => Objects(e) /\ ObjectsIn(21, 4, e)
    BY <2>1, <2>2 DEF Added, HasAll, Lacks, TxTypes, TxColumns, Objects, ObjectsIn
  <2>4. FactsOf(d) /\ FactsIn(21, 3, d) => FactsOf(e) /\ FactsIn(21, 4, e)
    BY <2>1, <2>2
       DEF Added, Lacks, TxOld, TxRows, TxAll, TxKept, FactsOf, FactsIn, Migrated,
           SCHEMA_VERSION
  <2>5. Fit(243, d) => Fit(244, e)
    BY <2>1 DEF Added, Vars, Lacks, Fit
  <2> QED BY <1>0, <1>3, <2>2, <2>3, <2>4, <2>5 DEF StepTo, Point
<1>4. CASE k = 4
  <2>1. Added(d, e, "transactions_outputs", "covenant_id")
    BY <1>4, AddEffect DEF v21_to_v22
  <2>2. /\ d.version = 21 /\ e.version = 21
        /\ Database(e)
        /\ Has(d, Vars, Whole) => Has(e, Vars, Whole)
    BY <1>0, <1>4, <2>1 DEF Added, Vars
  <2>3. Objects(d) /\ ObjectsIn(21, 4, d) => Objects(e) /\ ObjectsIn(21, 5, e)
    BY <2>1, <2>2 DEF Added, HasAll, Lacks, TxTypes, TxColumns, Objects, ObjectsIn
  <2>4. FactsOf(d) /\ FactsIn(21, 4, d) => FactsOf(e) /\ FactsIn(21, 5, e)
    BY <2>1, <2>2
       DEF Added, Lacks, TxOld, TxRows, TxAll, TxKept, FactsOf, FactsIn, Migrated,
           SCHEMA_VERSION
  <2>5. Fit(244, d) => Fit(245, e)
    BY <2>1 DEF Added, Vars, Lacks, Fit
  <2> QED BY <1>0, <1>4, <2>2, <2>3, <2>4, <2>5 DEF StepTo, Point
<1>5. CASE k = 5
  <2>1. VersionSet(d, e, 22)
    BY <1>5, SetVersionEffect DEF v21_to_v22
  <2>2. /\ d.version = 21 /\ e.version = 22
        /\ Database(e)
        /\ Has(d, Vars, Whole) => Has(e, Vars, Whole)
    BY <1>0, <1>5, <2>1 DEF VersionSet, Vars
  <2>3. Objects(d) /\ ObjectsIn(21, 5, d) => Objects(e) /\ ObjectsIn(21, 6, e)
    BY <2>1, <2>2 DEF VersionSet, HasAll, Lacks, TxTypes, TxColumns, Objects, ObjectsIn
  <2>4. FactsOf(d) /\ FactsIn(21, 5, d) => FactsOf(e) /\ FactsIn(21, 6, e)
    BY <2>1, <2>2
       DEF VersionSet, Lacks, TxOld, TxRows, TxAll, TxKept, FactsOf, FactsIn, Migrated,
           SCHEMA_VERSION
  <2>5. Fit(245, d) => Fit(246, e)
    BY <2>1 DEF VersionSet, Vars, Lacks, Fit
  <2> QED BY <1>0, <1>5, <2>2, <2>3, <2>4, <2>5 DEF StepTo, Point
<1> QED BY <1>1, <1>2, <1>3, <1>4, <1>5

\* v22_to_v23, statement by statement: each leads to what is promised before the next.
LEMMA v22_to_v23_Step ==
  ASSUME NEW d, Database(d), NEW k \in 1..12, d.version = VersionAt(22, k),
         ~Fails(d, v22_to_v23[k]), NEW e, e = Execute(d, v22_to_v23[k])
  PROVE  StepTo(22, k, d, e)
<1>0. \A j \in Nat : VersionAt(22, j) = IF j > 12 THEN 23 ELSE 22
  BY Sizes DEF VersionAt, NextVersion
<1>1. CASE k = 1
  <2> DEFINE copies == {<<"block_transactions", Table("blocks_transactions"),
                        Table("blocks_transactions_dedup")>>,
                        <<"block", Table("blocks"), Table("blocks_transactions_dedup")>>}
  <2>1. /\ <<"block_transactions", <<"blocks_transactions", Whole>>,
             <<"blocks_transactions_dedup", Whole>> >> \in copies
        /\ <<"block", <<"blocks", Whole>>, <<"blocks_transactions_dedup", Whole>> >> \in copies
    BY DEF Table
  <2>2. Copies(copies)
    BY DEF Copies, Table
  <2>3. v22_to_v23[k] = CreateAs("blocks_transactions_dedup", {}, copies)
    BY <1>1 DEF v22_to_v23
  <2> HIDE DEF copies
  <2>4. CreatedAs(d, e, "blocks_transactions_dedup", {}, copies)
    BY <2>2, <2>3, CreateAsEffect
  <2>5. /\ Has(d, "blocks_transactions", Whole)
        /\ Has(d, "blocks", Whole)
    BY <2>1, <2>4 DEF CreatedAs
  <2>6. /\ \A u, c : (u = "blocks_transactions_dedup" /\ c \in {} \cup {Whole}) => ~Has(d, u, c)
        /\ \A u, c : Has(e, u, c)
             <=> Has(d, u, c) \/ (u = "blocks_transactions_dedup" /\ c \in {} \cup {Whole})
    BY <2>4 DEF CreatedAs
  <2>7. /\ \A f, u, c : At(d, f, u, c) => At(e, f, u, c)
        /\ At(d, "block", "blocks", Whole) => At(e, "block", "blocks_transactions_dedup", Whole)
    BY <2>1, <2>4 DEF CreatedAs, Joined
  <2>8. Database(e) /\ e.version = d.version
    BY <2>4 DEF CreatedAs
  <2>9. /\ d.version = 22 /\ e.version = 22
        /\ Database(e)
        /\ Has(d, Vars, Whole) => Has(e, Vars, Whole)
    BY <1>0, <1>1, <2>5, <2>6, <2>7, <2>8 DEF Vars
  <2>10. Objects(d) /\ ObjectsIn(22, 1, d) => Objects(e) /\ ObjectsIn(22, 2, e)
    BY <2>5, <2>6, <2>7, <2>8, <2>9
       DEF HasAll, Lacks, TxTypes, TxColumns, Objects, ObjectsIn
  <2>11. FactsOf(d) /\ FactsIn(22, 1, d) => FactsOf(e) /\ FactsIn(22, 2, e)
    BY <2>5, <2>6, <2>7, <2>8, <2>9
       DEF Lacks, TxOld, TxRows, TxAll, TxKept, FactsOf, FactsIn, Migrated, SCHEMA_VERSION
  <2>12. Fit(261, d) => Fit(262, e)
    BY <2>5, <2>6, <2>7, <2>8, NotWhole DEF Vars, Lacks, Fit
  <2> QED BY <1>0, <1>1, <2>9, <2>10, <2>11, <2>12 DEF StepTo, Point
<1>2. CASE k = 2
  <2> DEFINE copies == {<<"transaction", Table("transactions"), Table("transactions_new")>>,
                        <<"subnetwork", <<"transactions", "subnetwork_id">>,
                          <<"transactions_new", "subnetwork_id">> >>,
                        <<"subnetwork_names", <<"transactions", "subnetwork_id">>,
                          <<"transactions_new", "subnetwork_id">> >>,
                        <<"inputs", <<"transactions", "inputs">>,
                          <<"transactions_new", "inputs">> >>,
                        <<"outputs", <<"transactions", "outputs">>,
                          <<"transactions_new", "outputs">> >>,
                        <<"block_transactions", Table("blocks_transactions_dedup"),
                          <<"transactions_new", "block_hash">> >>}
  <2>1. /\ <<"transaction", <<"transactions", Whole>>,
             <<"transactions_new", Whole>> >> \in copies
        /\ <<"subnetwork", <<"transactions", "subnetwork_id">>,
             <<"transactions_new", "subnetwork_id">> >> \in copies
        /\ <<"subnetwork_names", <<"transactions", "subnetwork_id">>,
             <<"transactions_new", "subnetwork_id">> >> \in copies
        /\ <<"inputs", <<"transactions", "inputs">>,
             <<"transactions_new", "inputs">> >> \in copies
        /\ <<"outputs", <<"transactions", "outputs">>,
             <<"transactions_new", "outputs">> >> \in copies
        /\ <<"block_transactions", <<"blocks_transactions_dedup", Whole>>,
             <<"transactions_new", "block_hash">> >> \in copies
    BY DEF Table
  <2>2. Copies(copies)
    BY DEF Copies, Table
  <2>3. v22_to_v23[k] = CreateAs("transactions_new",
          {"subnetwork_id", "version", "inputs", "outputs", "block_hash"}, copies)
    BY <1>2 DEF v22_to_v23
  <2> HIDE DEF copies
  <2>4. CreatedAs(d, e, "transactions_new",
          {"subnetwork_id", "version", "inputs", "outputs", "block_hash"}, copies)
    BY <2>2, <2>3, CreateAsEffect
  <2>5. /\ Has(d, "transactions", Whole)
        /\ Has(d, "transactions", "subnetwork_id")
        /\ Has(d, "transactions", "inputs")
        /\ Has(d, "transactions", "outputs")
        /\ Has(d, "blocks_transactions_dedup", Whole)
    BY <2>1, <2>4 DEF CreatedAs
  <2>6. /\ \A u, c : (u = "transactions_new" /\ c \in {"subnetwork_id", "version",
             "inputs", "outputs", "block_hash"} \cup {Whole}) => ~Has(d, u, c)
        /\ \A u, c : Has(e, u, c)
             <=> Has(d, u, c) \/ (u = "transactions_new" /\ c \in {"subnetwork_id",
               "version", "inputs", "outputs", "block_hash"} \cup {Whole})
    BY <2>4 DEF CreatedAs
  <2>7. /\ \A f, u, c : At(d, f, u, c) => At(e, f, u, c)
        /\ At(d, "transaction", "transactions", Whole)
             => At(e, "transaction", "transactions_new", Whole)
        /\ At(d, "subnetwork", "transactions", "subnetwork_id")
             => At(e, "subnetwork", "transactions_new", "subnetwork_id")
        /\ At(d, "subnetwork_names", "transactions", "subnetwork_id")
             => At(e, "subnetwork_names", "transactions_new", "subnetwork_id")
        /\ At(d, "inputs", "transactions", "inputs")
             => At(e, "inputs", "transactions_new", "inputs")
        /\ At(d, "outputs", "transactions", "outputs")
             => At(e, "outputs", "transactions_new", "outputs")
    BY <2>1, <2>4 DEF CreatedAs, Joined
  <2>8. Database(e) /\ e.version = d.version
    BY <2>4 DEF CreatedAs
  <2>9. /\ d.version = 22 /\ e.version = 22
        /\ Database(e)
        /\ Has(d, Vars, Whole) => Has(e, Vars, Whole)
    BY <1>0, <1>2, <2>5, <2>6, <2>7, <2>8 DEF Vars
  <2>10. Objects(d) /\ ObjectsIn(22, 2, d) => Objects(e) /\ ObjectsIn(22, 3, e)
    BY <2>5, <2>6, <2>7, <2>8, <2>9
       DEF HasAll, Lacks, TxTypes, TxColumns, Objects, ObjectsIn
  <2>11. FactsOf(d) /\ FactsIn(22, 2, d) => FactsOf(e) /\ FactsIn(22, 3, e)
    BY <2>5, <2>6, <2>7, <2>8, <2>9
       DEF Lacks, TxOld, TxRows, TxAll, TxKept, FactsOf, FactsIn, Migrated, SCHEMA_VERSION
  <2>12. Fit(262, d) => Fit(263, e)
    BY <2>5, <2>6, <2>7, <2>8, NotWhole DEF Vars, Lacks, Fit
  <2> QED BY <1>0, <1>2, <2>9, <2>10, <2>11, <2>12 DEF StepTo, Point
<1>3. CASE k = 3
  <2>1. TableDropped(d, e, "transactions")
    BY <1>3, DropTableEffect DEF v22_to_v23, Vars
  <2>2. /\ d.version = 22 /\ e.version = 22
        /\ Database(e)
        /\ Has(d, Vars, Whole) => Has(e, Vars, Whole)
    BY <1>0, <1>3, <2>1 DEF TableDropped, Vars
  <2>3. Objects(d) /\ ObjectsIn(22, 3, d) => Objects(e) /\ ObjectsIn(22, 4, e)
    BY <2>1, <2>2 DEF TableDropped, HasAll, Lacks, TxTypes, TxColumns, Objects, ObjectsIn
  <2>4. FactsOf(d) /\ FactsIn(22, 3, d) => FactsOf(e) /\ FactsIn(22, 4, e)
    BY <2>1, <2>2
       DEF TableDropped, Lacks, TxOld, TxRows, TxAll, TxKept, FactsOf, FactsIn, Migrated,
           SCHEMA_VERSION
  <2>5. Fit(263, d) => Fit(264, e)
    BY <2>1 DEF TableDropped, Vars, Lacks, Fit
  <2> QED BY <1>0, <1>3, <2>2, <2>3, <2>4, <2>5 DEF StepTo, Point
<1>4. CASE k = 4
  <2>1. TableRenamed(d, e, "transactions_new", "transactions")
    BY <1>4, RenameTableEffect DEF v22_to_v23
  <2>2. /\ d.version = 22 /\ e.version = 22
        /\ Database(e)
        /\ Has(d, Vars, Whole) => Has(e, Vars, Whole)
    BY <1>0, <1>4, <2>1 DEF TableRenamed, Vars
  <2>3. Objects(d) /\ ObjectsIn(22, 4, d) => Objects(e) /\ ObjectsIn(22, 5, e)
    BY <2>1, <2>2 DEF TableRenamed, HasAll, Lacks, TxTypes, TxColumns, Objects, ObjectsIn
  <2>4. FactsOf(d) /\ FactsIn(22, 4, d) => FactsOf(e) /\ FactsIn(22, 5, e)
    BY <2>1, <2>2
       DEF TableRenamed, Lacks, TxOld, TxRows, TxAll, TxKept, FactsOf, FactsIn, Migrated,
           SCHEMA_VERSION
  <2>5. Fit(264, d) => Fit(265, e)
    BY <2>1 DEF TableRenamed, Vars, Lacks, Fit
  <2> QED BY <1>0, <1>4, <2>2, <2>3, <2>4, <2>5 DEF StepTo, Point
<1>5. CASE k = 5
  <2>1. Added(d, e, "transactions", "pkey")
    BY <1>5, AddEffect DEF v22_to_v23
  <2>2. /\ d.version = 22 /\ e.version = 22
        /\ Database(e)
        /\ Has(d, Vars, Whole) => Has(e, Vars, Whole)
    BY <1>0, <1>5, <2>1 DEF Added, Vars
  <2>3. Objects(d) /\ ObjectsIn(22, 5, d) => Objects(e) /\ ObjectsIn(22, 6, e)
    BY <2>1, <2>2 DEF Added, HasAll, Lacks, TxTypes, TxColumns, Objects, ObjectsIn
  <2>4. FactsOf(d) /\ FactsIn(22, 5, d) => FactsOf(e) /\ FactsIn(22, 6, e)
    BY <2>1, <2>2
       DEF Added, Lacks, TxOld, TxRows, TxAll, TxKept, FactsOf, FactsIn, Migrated,
           SCHEMA_VERSION
  <2>5. Fit(265, d) => Fit(266, e)
    BY <2>1 DEF Added, Vars, Lacks, Fit
  <2> QED BY <1>0, <1>5, <2>2, <2>3, <2>4, <2>5 DEF StepTo, Point
<1>6. CASE k = 6
  <2>1. TableDropped(d, e, "blocks_transactions_dedup")
    BY <1>6, DropTableEffect DEF v22_to_v23, Vars
  <2>2. /\ d.version = 22 /\ e.version = 22
        /\ Database(e)
        /\ Has(d, Vars, Whole) => Has(e, Vars, Whole)
    BY <1>0, <1>6, <2>1 DEF TableDropped, Vars
  <2>3. Objects(d) /\ ObjectsIn(22, 6, d) => Objects(e) /\ ObjectsIn(22, 7, e)
    BY <2>1, <2>2 DEF TableDropped, HasAll, Lacks, TxTypes, TxColumns, Objects, ObjectsIn
  <2>4. FactsOf(d) /\ FactsIn(22, 6, d) => FactsOf(e) /\ FactsIn(22, 7, e)
    BY <2>1, <2>2
       DEF TableDropped, Lacks, TxOld, TxRows, TxAll, TxKept, FactsOf, FactsIn, Migrated,
           SCHEMA_VERSION
  <2>5. Fit(266, d) => Fit(267, e)
    BY <2>1 DEF TableDropped, Vars, Lacks, Fit
  <2> QED BY <1>0, <1>6, <2>2, <2>3, <2>4, <2>5 DEF StepTo, Point
<1>7. CASE k = 7
  <2> DEFINE copies == {<<"block", Table("blocks"), Table("blocks_new")>>,
                        <<"block_transactions", Table("blocks_transactions"),
                          <<"blocks_new", "transaction_ids">> >>}
  <2>1. /\ <<"block", <<"blocks", Whole>>, <<"blocks_new", Whole>> >> \in copies
        /\ <<"block_transactions", <<"blocks_transactions", Whole>>,
             <<"blocks_new", "transaction_ids">> >> \in copies
    BY DEF Table
  <2>2. Copies(copies)
    BY DEF Copies, Table
  <2>3. v22_to_v23[k] = CreateAs("blocks_new", {"transaction_ids"}, copies)
    BY <1>7 DEF v22_to_v23
  <2> HIDE DEF copies
  <2>4. CreatedAs(d, e, "blocks_new", {"transaction_ids"}, copies)
    BY <2>2, <2>3, CreateAsEffect
  <2>5. /\ Has(d, "blocks", Whole)
        /\ Has(d, "blocks_transactions", Whole)
    BY <2>1, <2>4 DEF CreatedAs
  <2>6. /\ \A u, c : (u = "blocks_new" /\ c \in {"transaction_ids"} \cup {Whole})
             => ~Has(d, u, c)
        /\ \A u, c : Has(e, u, c)
             <=> Has(d, u, c) \/ (u = "blocks_new" /\ c \in {"transaction_ids"} \cup {Whole})
    BY <2>4 DEF CreatedAs
  <2>7. /\ \A f, u, c : At(d, f, u, c) => At(e, f, u, c)
        /\ At(d, "block", "blocks", Whole) => At(e, "block", "blocks_new", Whole)
        /\ Joined("block_transactions")
             /\ At(d, "block_transactions", "blocks_transactions", Whole)
             => At(e, "block_transactions", "blocks_new", "transaction_ids")
    BY <2>1, <2>4 DEF CreatedAs, Joined
  <2>8. Database(e) /\ e.version = d.version
    BY <2>4 DEF CreatedAs
  <2>9. /\ d.version = 22 /\ e.version = 22
        /\ Database(e)
        /\ Has(d, Vars, Whole) => Has(e, Vars, Whole)
    BY <1>0, <1>7, <2>5, <2>6, <2>7, <2>8 DEF Vars
  <2>10. Objects(d) /\ ObjectsIn(22, 7, d) => Objects(e) /\ ObjectsIn(22, 8, e)
    BY <2>5, <2>6, <2>7, <2>8, <2>9
       DEF HasAll, Lacks, TxTypes, TxColumns, Objects, ObjectsIn
  <2>11. FactsOf(d) /\ FactsIn(22, 7, d) => FactsOf(e) /\ FactsIn(22, 8, e)
    BY <2>5, <2>6, <2>7, <2>8, <2>9
       DEF Lacks, TxOld, TxRows, TxAll, TxKept, FactsOf, FactsIn, Migrated, SCHEMA_VERSION
  <2>12. Fit(267, d) => Fit(268, e)
    BY <2>5, <2>6, <2>7, <2>8, NotWhole DEF Vars, Lacks, Fit
  <2> QED BY <1>0, <1>7, <2>9, <2>10, <2>11, <2>12 DEF StepTo, Point
<1>8. CASE k = 8
  <2>1. TableDropped(d, e, "blocks")
    BY <1>8, DropTableEffect DEF v22_to_v23, Vars
  <2>2. /\ d.version = 22 /\ e.version = 22
        /\ Database(e)
        /\ Has(d, Vars, Whole) => Has(e, Vars, Whole)
    BY <1>0, <1>8, <2>1 DEF TableDropped, Vars
  <2>3. Objects(d) /\ ObjectsIn(22, 8, d) => Objects(e) /\ ObjectsIn(22, 9, e)
    BY <2>1, <2>2 DEF TableDropped, HasAll, Lacks, TxTypes, TxColumns, Objects, ObjectsIn
  <2>4. FactsOf(d) /\ FactsIn(22, 8, d) => FactsOf(e) /\ FactsIn(22, 9, e)
    BY <2>1, <2>2
       DEF TableDropped, Lacks, TxOld, TxRows, TxAll, TxKept, FactsOf, FactsIn, Migrated,
           SCHEMA_VERSION
  <2>5. Fit(268, d) => Fit(269, e)
    BY <2>1 DEF TableDropped, Vars, Lacks, Fit
  <2> QED BY <1>0, <1>8, <2>2, <2>3, <2>4, <2>5 DEF StepTo, Point
<1>9. CASE k = 9
  <2>1. TableRenamed(d, e, "blocks_new", "blocks")
    BY <1>9, RenameTableEffect DEF v22_to_v23
  <2>2. /\ d.version = 22 /\ e.version = 22
        /\ Database(e)
        /\ Has(d, Vars, Whole) => Has(e, Vars, Whole)
    BY <1>0, <1>9, <2>1 DEF TableRenamed, Vars
  <2>3. Objects(d) /\ ObjectsIn(22, 9, d) => Objects(e) /\ ObjectsIn(22, 10, e)
    BY <2>1, <2>2 DEF TableRenamed, HasAll, Lacks, TxTypes, TxColumns, Objects, ObjectsIn
  <2>4. FactsOf(d) /\ FactsIn(22, 9, d) => FactsOf(e) /\ FactsIn(22, 10, e)
    BY <2>1, <2>2
       DEF TableRenamed, Lacks, TxOld, TxRows, TxAll, TxKept, FactsOf, FactsIn, Migrated,
           SCHEMA_VERSION
  <2>5. Fit(269, d) => Fit(270, e)
    BY <2>1 DEF TableRenamed, Vars, Lacks, Fit
  <2> QED BY <1>0, <1>9, <2>2, <2>3, <2>4, <2>5 DEF StepTo, Point
<1>10. CASE k = 10
  <2>1. Added(d, e, "blocks", "pkey")
    BY <1>10, AddEffect DEF v22_to_v23
  <2>2. /\ d.version = 22 /\ e.version = 22
        /\ Database(e)
        /\ Has(d, Vars, Whole) => Has(e, Vars, Whole)
    BY <1>0, <1>10, <2>1 DEF Added, Vars
  <2>3. Objects(d) /\ ObjectsIn(22, 10, d) => Objects(e) /\ ObjectsIn(22, 11, e)
    BY <2>1, <2>2 DEF Added, HasAll, Lacks, TxTypes, TxColumns, Objects, ObjectsIn
  <2>4. FactsOf(d) /\ FactsIn(22, 10, d) => FactsOf(e) /\ FactsIn(22, 11, e)
    BY <2>1, <2>2
       DEF Added, Lacks, TxOld, TxRows, TxAll, TxKept, FactsOf, FactsIn, Migrated,
           SCHEMA_VERSION
  <2>5. Fit(270, d) => Fit(271, e)
    BY <2>1 DEF Added, Vars, Lacks, Fit
  <2> QED BY <1>0, <1>10, <2>2, <2>3, <2>4, <2>5 DEF StepTo, Point
<1>11. CASE k = 11
  <2>1. TableDropped(d, e, "blocks_transactions")
    BY <1>11, DropTableEffect DEF v22_to_v23, Vars
  <2>2. /\ d.version = 22 /\ e.version = 22
        /\ Database(e)
        /\ Has(d, Vars, Whole) => Has(e, Vars, Whole)
    BY <1>0, <1>11, <2>1 DEF TableDropped, Vars
  <2>3. Objects(d) /\ ObjectsIn(22, 11, d) => Objects(e) /\ ObjectsIn(22, 12, e)
    BY <2>1, <2>2 DEF TableDropped, HasAll, Lacks, TxTypes, TxColumns, Objects, ObjectsIn
  <2>4. FactsOf(d) /\ FactsIn(22, 11, d) => FactsOf(e) /\ FactsIn(22, 12, e)
    BY <2>1, <2>2
       DEF TableDropped, Lacks, TxOld, TxRows, TxAll, TxKept, FactsOf, FactsIn, Migrated,
           SCHEMA_VERSION
  <2>5. Fit(271, d) => Fit(272, e)
    BY <2>1 DEF TableDropped, Vars, Lacks, Fit
  <2> QED BY <1>0, <1>11, <2>2, <2>3, <2>4, <2>5 DEF StepTo, Point
<1>12. CASE k = 12
  <2>1. VersionSet(d, e, 23)
    BY <1>12, SetVersionEffect DEF v22_to_v23
  <2>2. /\ d.version = 22 /\ e.version = 23
        /\ Database(e)
        /\ Has(d, Vars, Whole) => Has(e, Vars, Whole)
    BY <1>0, <1>12, <2>1 DEF VersionSet, Vars
  <2>3. Objects(d) /\ ObjectsIn(22, 12, d) => Objects(e) /\ ObjectsIn(22, 13, e)
    BY <2>1, <2>2 DEF VersionSet, HasAll, Lacks, TxTypes, TxColumns, Objects, ObjectsIn
  <2>4. FactsOf(d) /\ FactsIn(22, 12, d) => FactsOf(e) /\ FactsIn(22, 13, e)
    BY <2>1, <2>2
       DEF VersionSet, Lacks, TxOld, TxRows, TxAll, TxKept, FactsOf, FactsIn, Migrated,
           SCHEMA_VERSION
  <2>5. Fit(272, d) => Fit(273, e)
    BY <2>1 DEF VersionSet, Vars, Lacks, Fit
  <2> QED BY <1>0, <1>12, <2>2, <2>3, <2>4, <2>5 DEF StepTo, Point
<1> QED BY <1>1, <1>2, <1>3, <1>4, <1>5, <1>6, <1>7, <1>8, <1>9, <1>10, <1>11, <1>12

-----------------------------------------------------------------------------
(***************************************************************************)
(* What is enough for a statement not to be refused                        *)
(***************************************************************************)

\* A statement is accepted when it finds what it needs and the rows it asks for,
\* and makes, renames to and drops nothing that it may not.
LEMMA Accepted ==
  ASSUME NEW d, NEW s,
         \A o \in s.needs : o \in d.objects,
         \A h \in s.rows : h \in d.held /\ h[1] \notin NoRows,
         \A o \in s.makes : o \notin d.objects,
         s.rename # <<>> => s.rename[2] \notin d.objects,
         \A o \in s.drops : o \notin RowTypes(d)
  PROVE  ~Fails(d, s)
  BY DEF Fails

\* A CREATE TABLE is accepted where none of its objects is there,
LEMMA CreateFits ==
  ASSUME NEW d, NEW t, NEW cs, NEW s, s = Create(t, cs),
         \A c \in cs \cup {Whole} : ~Has(d, t, c)
  PROVE  ~Fails(d, s)
<1>1. s.needs = {} /\ s.rows = {} /\ s.rename = <<>> /\ s.drops = {}
  BY DEF Create, Statement
<1>2. s.makes = {<<t, c>> : c \in cs \cup {Whole}}
  BY DEF Create, Statement, Columns, Table
<1> QED BY <1>1, <1>2, Accepted DEF Has

\* ... a CREATE TABLE AS where, besides, the objects it reads are,
LEMMA CreateAsFits ==
  ASSUME NEW d, NEW t, NEW cs, NEW copies, NEW s, s = CreateAs(t, cs, copies),
         \A c \in cs \cup {Whole} : ~Has(d, t, c),
         \A c \in copies : c[2] \in d.objects
  PROVE  ~Fails(d, s)
<1>1. s.rows = {} /\ s.rename = <<>> /\ s.drops = {} /\ s.needs = {c[2] : c \in copies}
  BY DEF CreateAs, Statement
<1>2. s.makes = {<<t, c>> : c \in cs \cup {Whole}}
  BY DEF CreateAs, Statement, Columns, Table
<1> QED BY <1>1, <1>2, Accepted DEF Has

\* ... an INSERT ... SELECT or UPDATE between objects that are there,
LEMMA CopyFits ==
  ASSUME NEW d, NEW copies, NEW rows, NEW s, s = Copy(copies, rows),
         \A c \in copies : c[2] \in d.objects /\ c[3] \in d.objects,
         \A h \in rows : h \in d.held /\ h[1] \notin NoRows
  PROVE  ~Fails(d, s)
<1>1. /\ s.rows = rows /\ s.rename = <<>> /\ s.drops = {} /\ s.makes = {}
      /\ s.needs = {c[2] : c \in copies} \cup {c[3] : c \in copies}
  BY DEF Copy, Statement
<1> QED BY <1>1, Accepted

\* ... a DROP of a table whose row type no column uses,
LEMMA DropTableFits ==
  ASSUME NEW d, NEW t, NEW s, s = Drop(Table(t)), Has(d, t, Whole),
         t \notin {"transactions_inputs", "transactions_outputs"}
  PROVE  ~Fails(d, s)
<1>1. /\ s.rows = {} /\ s.rename = <<>> /\ s.makes = {}
      /\ s.drops = {<<t, Whole>>} /\ s.needs = {<<t, Whole>>}
  BY DEF Drop, Statement, Table
<1>2. <<t, Whole>> \notin RowTypes(d)
  BY DEF RowTypes, Table
<1> QED BY <1>1, <1>2, Accepted DEF Has

\* ... or a column,
LEMMA DropColumnFits ==
  ASSUME NEW d, NEW t, NEW c, NEW s, s = Drop(<<t, c>>), Has(d, t, c), c # Whole
  PROVE  ~Fails(d, s)
<1>1. /\ s.rows = {} /\ s.rename = <<>> /\ s.makes = {}
      /\ s.drops = {<<t, c>>} /\ s.needs = {<<t, c>>}
  BY DEF Drop, Statement
<1>2. <<t, c>> \notin RowTypes(d)
  BY DEF RowTypes, Table
<1> QED BY <1>1, <1>2, Accepted DEF Has

\* DROP ... IF EXISTS is refused for the row type of a table only.
LEMMA DropIfExistsFits ==
  ASSUME NEW d, NEW t, NEW s, s = DropIfExists(Table(t)), <<t, Whole>> \notin RowTypes(d)
  PROVE  ~Fails(d, s)
<1>1. /\ s.needs = {} /\ s.rows = {} /\ s.rename = <<>> /\ s.makes = {}
      /\ s.drops = {<<t, Whole>>}
  BY DEF DropIfExists, Statement, Table
<1> QED BY <1>1, Accepted DEF Has

\* ... an ADD COLUMN or CONSTRAINT to a table that lacks it,
LEMMA AddFits ==
  ASSUME NEW d, NEW t, NEW c, NEW s, s = Add(t, c), Has(d, t, Whole), ~Has(d, t, c)
  PROVE  ~Fails(d, s)
<1>1. /\ s.rows = {} /\ s.rename = <<>> /\ s.drops = {}
      /\ s.makes = {<<t, c>>} /\ s.needs = {<<t, Whole>>}
  BY DEF Add, Statement, Table
<1> QED BY <1>1, Accepted DEF Has

\* ... a RENAME of what is there to a name that is free,
LEMMA RenameFits ==
  ASSUME NEW d, NEW t, NEW c, NEW n, NEW m, NEW s, s = Rename(<<t, c>>, <<n, m>>),
         Has(d, t, c), ~Has(d, n, m)
  PROVE  ~Fails(d, s)
<1>1. /\ s.rows = {} /\ s.drops = {} /\ s.makes = {} /\ s.needs = {<<t, c>>}
  BY DEF Rename, Statement
<1>2. s.rename = << <<t, c>>, <<n, m>> >>
  BY DEF Rename, Statement
<1>3. s.rename[2] = <<n, m>>
  BY <1>2
<1> QED BY <1>1, <1>3, Accepted DEF Has

\* ... an ALTER COLUMN of a table that is there,
LEMMA AlterFits ==
  ASSUME NEW d, NEW t, NEW s, s = Alter(t), Has(d, t, Whole)
  PROVE  ~Fails(d, s)
<1>1. /\ s.rows = {} /\ s.rename = <<>> /\ s.drops = {} /\ s.makes = {}
      /\ s.needs = {<<t, Whole>>}
  BY DEF Alter, Statement, Table
<1> QED BY <1>1, Accepted DEF Has

\* ... and an UPDATE of schema_version while vars is there.
LEMMA SetVersionFits ==
  ASSUME NEW d, NEW v, NEW s, s = SetVersion(v), Has(d, Vars, Whole)
  PROVE  ~Fails(d, s)
<1>1. /\ s.rows = {} /\ s.rename = <<>> /\ s.drops = {} /\ s.makes = {}
      /\ s.needs = {<<Vars, Whole>>}
  BY DEF SetVersion, Statement, Table, Vars
<1> QED BY <1>1, Accepted DEF Has

\* v1_to_v2, statement by statement: none fails where Fit holds.
LEMMA v1_to_v2_Fits ==
  ASSUME NEW d, NEW k \in 1..5, Fit(Point(1, k), d)
  PROVE  ~Fails(d, v1_to_v2[k])
<1>1. CASE k = 1
  <2>1. Fit(21, d)
    BY <1>1 DEF Point
  <2>2. \A c \in {} \cup {Whole} : ~Has(d, "block_parent", c)
    BY <2>1 DEF Fit, Lacks
  <2> QED BY <1>1, <2>2, CreateFits DEF v1_to_v2
<1>2. CASE k = 2
  <2>1. Fit(22, d)
    BY <1>2 DEF Point
  <2> DEFINE copies == {<<"parents", <<"blocks", "parents">>, Table("block_parent")>>}
  <2>2. Has(d, "blocks", "parents") /\ Has(d, "block_parent", Whole)
    BY <2>1 DEF Fit
  <2>3. \A c \in copies : c[2] \in d.objects /\ c[3] \in d.objects
    BY <2>2 DEF Has, Table
  <2>4. \A h \in {} : h \in d.held /\ h[1] \notin NoRows
    OBVIOUS
  <2>5. v1_to_v2[k] = Copy(copies, {})
    BY <1>2 DEF v1_to_v2
  <2> HIDE DEF copies
  <2> QED BY <2>3, <2>4, <2>5, CopyFits
<1>3. CASE k = 3
  <2>1. Fit(23, d)
    BY <1>3 DEF Point
  <2>2. Has(d, "block_parent", Whole) /\ ~Has(d, "block_parent", "pkey")
    BY <2>1 DEF Fit
  <2> QED BY <1>3, <2>2, AddFits DEF v1_to_v2
<1>4. CASE k = 4
  <2>1. Fit(24, d)
    BY <1>4 DEF Point
  <2>2. Has(d, "blocks", "parents")
    BY <2>1 DEF Fit
  <2> QED BY <1>4, <2>2, DropColumnFits DEF v1_to_v2, Whole
<1>5. CASE k = 5
  <2>1. Fit(25, d)
    BY <1>5 DEF Point
  <2>2. Has(d, Vars, Whole)
    BY <2>1 DEF Fit
  <2> QED BY <1>5, <2>2, SetVersionFits DEF v1_to_v2
<1> QED BY <1>1, <1>2, <1>3, <1>4, <1>5

\* v2_to_v3, statement by statement: none fails where Fit holds.
LEMMA v2_to_v3_Fits ==
  ASSUME NEW d, NEW k \in 1..1, Fit(Point(2, k), d)
  PROVE  ~Fails(d, v2_to_v3[k])
<1>1. CASE k = 1
  <2>1. Fit(41, d)
    BY <1>1 DEF Point
  <2>2. Has(d, Vars, Whole)
    BY <2>1 DEF Fit
  <2> QED BY <1>1, <2>2, SetVersionFits DEF v2_to_v3
<1> QED BY <1>1

\* v3_to_v4, statement by statement: none fails where Fit holds.
LEMMA v3_to_v4_Fits ==
  ASSUME NEW d, NEW k \in 1..3, Fit(Point(3, k), d)
  PROVE  ~Fails(d, v3_to_v4[k])
<1>1. CASE k = 1
  <2>1. Fit(61, d)
    BY <1>1 DEF Point
  <2>2. Has(d, "subnetworks", Whole)
    BY <2>1 DEF Fit
  <2> QED BY <1>1, <2>2, AlterFits DEF v3_to_v4
<1>2. CASE k = 2
  <2>1. Fit(62, d)
    BY <1>2 DEF Point
  <2>2. Has(d, "transactions", Whole)
    BY <2>1 DEF Fit
  <2> QED BY <1>2, <2>2, AlterFits DEF v3_to_v4
<1>3. CASE k = 3
  <2>1. Fit(63, d)
    BY <1>3 DEF Point
  <2>2. Has(d, Vars, Whole)
    BY <2>1 DEF Fit
  <2> QED BY <1>3, <2>2, SetVersionFits DEF v3_to_v4
<1> QED BY <1>1, <1>2, <1>3

\* v4_to_v5, statement by statement: none fails where Fit holds.
LEMMA v4_to_v5_Fits ==
  ASSUME NEW d, NEW k \in 1..3, Fit(Point(4, k), d)
  PROVE  ~Fails(d, v4_to_v5[k])
<1>1. CASE k = 1
  <2>1. Fit(81, d)
    BY <1>1 DEF Point
  <2>2. Has(d, "chain_blocks", Whole)
    BY <2>1 DEF Fit
  <2> QED BY <1>1, <2>2, DropTableFits DEF v4_to_v5
<1>2. CASE k = 2
  <2>1. Fit(82, d)
    BY <1>2 DEF Point
  <2>2. Has(d, "blocks", "difficulty")
    BY <2>1 DEF Fit
  <2> QED BY <1>2, <2>2, DropColumnFits DEF v4_to_v5, Whole
<1>3. CASE k = 3
  <2>1. Fit(83, d)
    BY <1>3 DEF Point
  <2>2. Has(d, Vars, Whole)
    BY <2>1 DEF Fit
  <2> QED BY <1>3, <2>2, SetVersionFits DEF v4_to_v5
<1> QED BY <1>1, <1>2, <1>3

\* v5_to_v6, statement by statement: none fails where Fit holds.
LEMMA v5_to_v6_Fits ==
  ASSUME NEW d, NEW k \in 1..3, Fit(Point(5, k), d)
  PROVE  ~Fails(d, v5_to_v6[k])
<1>1. CASE k = 1
  <2>1. Fit(101, d)
    BY <1>1 DEF Point
  <2>2. Has(d, "transactions_inputs", Whole) /\ ~Has(d, "transactions_inputs", "block_time")
    BY <2>1 DEF Fit
  <2> QED BY <1>1, <2>2, AddFits DEF v5_to_v6
<1>2. CASE k = 2
  <2>1. Fit(102, d)
    BY <1>2 DEF Point
  <2>2. Has(d, "transactions_outputs", Whole) /\ ~Has(d, "transactions_outputs", "block_time")
    BY <2>1 DEF Fit
  <2> QED BY <1>2, <2>2, AddFits DEF v5_to_v6
<1>3. CASE k = 3
  <2>1. Fit(103, d)
    BY <1>3 DEF Point
  <2>2. Has(d, Vars, Whole)
    BY <2>1 DEF Fit
  <2> QED BY <1>3, <2>2, SetVersionFits DEF v5_to_v6
<1> QED BY <1>1, <1>2, <1>3

\* v6_to_v7, statement by statement: none fails where Fit holds.
LEMMA v6_to_v7_Fits ==
  ASSUME NEW d, NEW k \in 1..3, Fit(Point(6, k), d)
  PROVE  ~Fails(d, v6_to_v7[k])
<1>1. CASE k = 1
  <2>1. Fit(121, d)
    BY <1>1 DEF Point
  <2>2. Has(d, "transactions_acceptances", "pkey")
    BY <2>1 DEF Fit
  <2> QED BY <1>1, <2>2, DropColumnFits DEF v6_to_v7, Whole
<1>2. CASE k = 2
  <2>1. Fit(122, d)
    BY <1>2 DEF Point
  <2>2. /\ Has(d, "transactions_acceptances", Whole)
        /\ ~Has(d, "transactions_acceptances", "unique")
    BY <2>1 DEF Fit
  <2> QED BY <1>2, <2>2, AddFits DEF v6_to_v7
<1>3. CASE k = 3
  <2>1. Fit(123, d)
    BY <1>3 DEF Point
  <2>2. Has(d, Vars, Whole)
    BY <2>1 DEF Fit
  <2> QED BY <1>3, <2>2, SetVersionFits DEF v6_to_v7
<1> QED BY <1>1, <1>2, <1>3

\* v7_to_v8, statement by statement: none fails where Fit holds.
LEMMA v7_to_v8_Fits ==
  ASSUME NEW d, NEW k \in 1..2, Fit(Point(7, k), d)
  PROVE  ~Fails(d, v7_to_v8[k])
<1>1. CASE k = 1
  <2>1. Fit(141, d)
    BY <1>1 DEF Point
  <2>2. \A c \in {"pkey_without_time"} \cup {Whole} : ~Has(d, "scripts_transactions", c)
    BY <2>1 DEF Fit, Lacks
  <2> QED BY <1>1, <2>2, CreateFits DEF v7_to_v8
<1>2. CASE k = 2
  <2>1. Fit(142, d)
    BY <1>2 DEF Point
  <2>2. Has(d, Vars, Whole)
    BY <2>1 DEF Fit
  <2> QED BY <1>2, <2>2, SetVersionFits DEF v7_to_v8
<1> QED BY <1>1, <1>2

\* v8_to_v9, statement by statement: none fails where Fit holds.
LEMMA v8_to_v9_Fits ==
  ASSUME NEW d, NEW k \in 1..4, Fit(Point(8, k), d)
  PROVE  ~Fails(d, v8_to_v9[k])
<1>1. CASE k = 1
  <2>1. Fit(161, d)
    BY <1>1 DEF Point
  <2>2. Has(d, "transactions_acceptances", Whole)
    BY <2>1 DEF Fit
  <2> QED BY <1>1, <2>2, AlterFits DEF v8_to_v9
<1>2. CASE k = 2
  <2>1. Fit(162, d)
    BY <1>2 DEF Point
  <2>2. /\ Has(d, "transactions_inputs", Whole)
        /\ ~Has(d, "transactions_inputs", "previous_outpoint_script")
    BY <2>1 DEF Fit
  <2> QED BY <1>2, <2>2, AddFits DEF v8_to_v9
<1>3. CASE k = 3
  <2>1. Fit(163, d)
    BY <1>3 DEF Point
  <2>2. /\ Has(d, "transactions_inputs", Whole)
        /\ ~Has(d, "transactions_inputs", "previous_outpoint_amount")
    BY <2>1 DEF Fit
  <2> QED BY <1>3, <2>2, AddFits DEF v8_to_v9
<1>4. CASE k = 4
  <2>1. Fit(164, d)
    BY <1>4 DEF Point
  <2>2. Has(d, Vars, Whole)
    BY <2>1 DEF Fit
  <2> QED BY <1>4, <2>2, SetVersionFits DEF v8_to_v9
<1> QED BY <1>1, <1>2, <1>3, <1>4

\* v9_to_v10, statement by statement: none fails where Fit holds.
LEMMA v9_to_v10_Fits ==
  ASSUME NEW d, NEW k \in 1..1, Fit(Point(9, k), d)
  PROVE  ~Fails(d, v9_to_v10[k])
<1>1. CASE k = 1
  <2>1. Fit(181, d)
    BY <1>1 DEF Point
  <2>2. Has(d, Vars, Whole)
    BY <2>1 DEF Fit
  <2> QED BY <1>1, <2>2, SetVersionFits DEF v9_to_v10
<1> QED BY <1>1

\* v10_to_v20, statement by statement: none fails where Fit holds.
LEMMA v10_to_v20_Fits ==
  ASSUME NEW d, NEW k \in 1..15, Fit(Point(10, k), d)
  PROVE  ~Fails(d, v10_to_v20[k])
<1>1. CASE k = 1
  <2>1. Fit(201, d)
    BY <1>1 DEF Point
  <2>2. Has(d, Vars, Whole)
    BY <2>1 DEF Fit
  <2> QED BY <1>1, <2>2, SetVersionFits DEF v10_to_v20
<1>2. CASE k = 2
  <2>1. Fit(202, d)
    BY <1>2 DEF Point
  <2>2. \A c \in {} \cup {Whole} : ~Has(d, "utxos", c)
    BY <2>1 DEF Fit, Lacks
  <2> QED BY <1>2, <2>2, CreateFits DEF v10_to_v20
<1>3. CASE k = 3
  <2>1. Fit(203, d)
    BY <1>3 DEF Point
  <2>2. Has(d, "transactions_outputs", Whole)
    BY <2>1 DEF Fit
  <2> QED BY <1>3, <2>2, AlterFits DEF v10_to_v20
<1>4. CASE k = 4
  <2>1. Fit(204, d)
    BY <1>4 DEF Point
  <2>2. Has(d, "addresses_transactions", Whole)
    BY <2>1 DEF Fit
  <2> QED BY <1>4, <2>2, AlterFits DEF v10_to_v20
<1>5. CASE k = 5
  <2>1. Fit(205, d)
    BY <1>5 DEF Point
  <2>2. Has(d, "transactions", Whole) /\ ~Has(d, "transactions_old", Whole)
    BY <2>1 DEF Fit, Lacks
  <2> QED BY <1>5, <2>2, RenameFits DEF v10_to_v20, Table
<1>6. CASE k = 6
  <2>1. Fit(206, d)
    BY <1>6 DEF Point
  <2>2. Has(d, "transactions_inputs", Whole) /\ ~Has(d, "transactions_inputs_old", Whole)
    BY <2>1 DEF Fit, Lacks
  <2> QED BY <1>6, <2>2, RenameFits DEF v10_to_v20, Table
<1>7. CASE k = 7
  <2>1. Fit(207, d)
    BY <1>7 DEF Point
  <2>2. Has(d, "transactions_outputs", Whole) /\ ~Has(d, "transactions_outputs_old", Whole)
    BY <2>1 DEF Fit, Lacks
  <2> QED BY <1>7, <2>2, RenameFits DEF v10_to_v20, Table
<1>8. CASE k = 8
  <2>1. Fit(208, d)
    BY <1>8 DEF Point
  <2>2. \A c \in {"type", "previous_outpoint_script", "previous_outpoint_amount"}
          \cup {Whole} : ~Has(d, "transactions_inputs", c)
    BY <2>1 DEF Fit, Lacks
  <2> QED BY <1>8, <2>2, CreateFits DEF v10_to_v20
<1>9. CASE k = 9
  <2>1. Fit(209, d)
    BY <1>9 DEF Point
  <2>2. \A c \in {"type"} \cup {Whole} : ~Has(d, "transactions_outputs", c)
    BY <2>1 DEF Fit, Lacks
  <2> QED BY <1>9, <2>2, CreateFits DEF v10_to_v20
<1>10. CASE k = 10
  <2>1. Fit(210, d)
    BY <1>10 DEF Point
  <2>2. \A c \in {"subnetwork_id", "inputs", "outputs", "outputs_spent"} \cup {Whole} :
          ~Has(d, "transactions", c)
    BY <2>1 DEF Fit, Lacks
  <2> QED BY <1>10, <2>2, CreateFits DEF v10_to_v20
<1>11. CASE k = 11
  <2>1. Fit(211, d)
    BY <1>11 DEF Point
  <2> DEFINE copies == {<<"transaction", Table("transactions_old"), Table("transactions")>>,
                        <<"subnetwork", <<"transactions_old", "subnetwork_id">>,
                          <<"transactions", "subnetwork_id">> >>,
                        <<"inputs", Table("transactions_inputs_old"),
                          <<"transactions", "inputs">> >>,
                        <<"outputs", Table("transactions_outputs_old"),
                          <<"transactions", "outputs">> >>}
  <2>2. /\ Has(d, "transactions_old", Whole) /\ Has(d, "transactions", Whole)
        /\ Has(d, "transactions_old", "subnetwork_id")
        /\ Has(d, "transactions", "subnetwork_id")
        /\ Has(d, "transactions_inputs_old", Whole)
        /\ Has(d, "transactions", "inputs")
        /\ Has(d, "transactions_outputs_old", Whole)
        /\ Has(d, "transactions", "outputs")
    BY <2>1 DEF Fit
  <2>3. \A c \in copies : c[2] \in d.objects /\ c[3] \in d.objects
    BY <2>2 DEF Has, Table
  <2>4. \A h \in {} : h \in d.held /\ h[1] \notin NoRows
    OBVIOUS
  <2>5. v10_to_v20[k] = Copy(copies, {})
    BY <1>11 DEF v10_to_v20
  <2> HIDE DEF copies
  <2> QED BY <2>3, <2>4, <2>5, CopyFits
<1>12. CASE k = 12
  <2>1. Fit(212, d)
    BY <1>12 DEF Point
  <2>2. Has(d, "transactions_old", Whole)
    BY <2>1 DEF Fit
  <2> QED BY <1>12, <2>2, DropTableFits DEF v10_to_v20
<1>13. CASE k = 13
  <2>1. Fit(213, d)
    BY <1>13 DEF Point
  <2>2. Has(d, "transactions_inputs_old", Whole)
    BY <2>1 DEF Fit
  <2> QED BY <1>13, <2>2, DropTableFits DEF v10_to_v20
<1>14. CASE k = 14
  <2>1. Fit(214, d)
    BY <1>14 DEF Point
  <2>2. Has(d, "transactions_outputs_old", Whole)
    BY <2>1 DEF Fit
  <2> QED BY <1>14, <2>2, DropTableFits DEF v10_to_v20
<1>15. CASE k = 15
  <2>1. Fit(215, d)
    BY <1>15 DEF Point
  <2>2. Has(d, "transactions", Whole) /\ ~Has(d, "transactions", "pkey")
    BY <2>1 DEF Fit
  <2> QED BY <1>15, <2>2, AddFits DEF v10_to_v20
<1> QED BY <1>1, <1>2, <1>3, <1>4, <1>5, <1>6, <1>7, <1>8, <1>9, <1>10, <1>11, <1>12,
           <1>13, <1>14, <1>15

\* v20_to_v21, statement by statement: none fails where Fit holds and there are
\* transactions.
LEMMA v20_to_v21_Fits ==
  ASSUME NEW d, NEW k \in 1..11, Fit(Point(20, k), d), "transaction" \notin NoRows
  PROVE  ~Fails(d, v20_to_v21[k])
<1>1. CASE k = 1
  <2>1. Fit(221, d)
    BY <1>1 DEF Point
  <2>2. Has(d, "transactions", "outputs_spent")
    BY <2>1 DEF Fit
  <2> QED BY <1>1, <2>2, DropColumnFits DEF v20_to_v21, Whole
<1>2. CASE k = 2
  <2>1. Fit(222, d)
    BY <1>2 DEF Point
  <2>2. Has(d, "utxos", Whole)
    BY <2>1 DEF Fit
  <2> QED BY <1>2, <2>2, DropTableFits DEF v20_to_v21
<1>3. CASE k = 3
  <2>1. Fit(223, d)
    BY <1>3 DEF Point
  <2>2. Has(d, "transactions", Whole) /\ ~Has(d, "transactions", "version")
    BY <2>1 DEF Fit
  <2> QED BY <1>3, <2>2, AddFits DEF v20_to_v21
<1>4. CASE k = 4
  <2>1. Fit(224, d)
    BY <1>4 DEF Point
  <2> DEFINE copies == {<<"subnetwork_names", Table("subnetworks"),
                        Table("subnetwork_compressed")>>}
  <2>2. Has(d, "subnetworks", Whole)
    BY <2>1 DEF Fit
  <2>3. \A c \in copies : c[2] \in d.objects
    BY <2>2 DEF Has, Table
  <2>4. \A c \in {} \cup {Whole} : ~Has(d, "subnetwork_compressed", c)
    BY <2>1 DEF Fit, Lacks
  <2>5. v20_to_v21[k] = CreateAs("subnetwork_compressed", {}, copies)
    BY <1>4 DEF v20_to_v21
  <2> HIDE DEF copies
  <2> QED BY <2>3, <2>4, <2>5, CreateAsFits
<1>5. CASE k = 5
  <2>1. Fit(225, d)
    BY <1>5 DEF Point
  <2>2. Has(d, "transactions", Whole) /\ ~Has(d, "transactions", "subnetwork_id_new")
    BY <2>1 DEF Fit
  <2> QED BY <1>5, <2>2, AddFits DEF v20_to_v21
<1>6. CASE k = 6
  <2>1. Fit(226, d)
    BY <1>6 DEF Point
  <2> DEFINE copies == {<<"subnetwork", <<"transactions", "subnetwork_id">>,
                        <<"transactions", "subnetwork_id_new">> >>,
                        <<"subnetwork_names", Table("subnetwork_compressed"),
                          <<"transactions", "subnetwork_id_new">> >>}
  <2>2. /\ Has(d, "transactions", "subnetwork_id")
        /\ Has(d, "transactions", "subnetwork_id_new")
        /\ Has(d, "subnetwork_compressed", Whole)
        /\ At(d, "transaction", "transactions", Whole)
    BY <2>1 DEF Fit
  <2>3. \A c \in copies : c[2] \in d.objects /\ c[3] \in d.objects
    BY <2>2 DEF Has, Table
  <2>4. \A h \in {<<"transaction", Table("transactions")>>} :
           h \in d.held /\ h[1] \notin NoRows
    BY <2>2 DEF At, Table
  <2>5. v20_to_v21[k] = Copy(copies, {<<"transaction", Table("transactions")>>})
    BY <1>6 DEF v20_to_v21
  <2> HIDE DEF copies
  <2> QED BY <2>3, <2>4, <2>5, CopyFits
<1>7. CASE k = 7
  <2>1. Fit(227, d)
    BY <1>7 DEF Point
  <2>2. Has(d, "subnetwork_compressed", Whole)
    BY <2>1 DEF Fit
  <2> QED BY <1>7, <2>2, DropTableFits DEF v20_to_v21
<1>8. CASE k = 8
  <2>1. Fit(228, d)
    BY <1>8 DEF Point
  <2>2. Has(d, "transactions", "subnetwork_id")
    BY <2>1 DEF Fit
  <2> QED BY <1>8, <2>2, DropColumnFits DEF v20_to_v21, Whole
<1>9. CASE k = 9
  <2>1. Fit(229, d)
    BY <1>9 DEF Point
  <2>2. Has(d, "transactions", "subnetwork_id_new") /\ ~Has(d, "transactions", "subnetwork_id")
    BY <2>1 DEF Fit
  <2> QED BY <1>9, <2>2, RenameFits DEF v20_to_v21
<1>10. CASE k = 10
  <2>1. Fit(230, d)
    BY <1>10 DEF Point
  <2>2. Has(d, "subnetworks", Whole)
    BY <2>1 DEF Fit
  <2> QED BY <1>10, <2>2, DropTableFits DEF v20_to_v21
<1>11. CASE k = 11
  <2>1. Fit(231, d)
    BY <1>11 DEF Point
  <2>2. Has(d, Vars, Whole)
    BY <2>1 DEF Fit
  <2> QED BY <1>11, <2>2, SetVersionFits DEF v20_to_v21
<1> QED BY <1>1, <1>2, <1>3, <1>4, <1>5, <1>6, <1>7, <1>8, <1>9, <1>10, <1>11

\* v21_to_v22, statement by statement: none fails where Fit holds.
LEMMA v21_to_v22_Fits ==
  ASSUME NEW d, NEW k \in 1..5, Fit(Point(21, k), d)
  PROVE  ~Fails(d, v21_to_v22[k])
<1>1. CASE k = 1
  <2>1. Fit(241, d)
    BY <1>1 DEF Point
  <2>2. Has(d, "transactions_inputs", Whole) /\ ~Has(d, "transactions_inputs", "compute_budget")
    BY <2>1 DEF Fit
  <2> QED BY <1>1, <2>2, AddFits DEF v21_to_v22
<1>2. CASE k = 2
  <2>1. Fit(242, d)
    BY <1>2 DEF Point
  <2>2. Has(d, "transactions_inputs", Whole) /\ ~Has(d, "transactions_inputs", "covenant_id")
    BY <2>1 DEF Fit
  <2> QED BY <1>2, <2>2, AddFits DEF v21_to_v22
<1>3. CASE k = 3
  <2>1. Fit(243, d)
    BY <1>3 DEF Point
  <2>2. /\ Has(d, "transactions_outputs", Whole)
        /\ ~Has(d, "transactions_outputs", "covenant_authorizing_input")
    BY <2>1 DEF Fit
  <2> QED BY <1>3, <2>2, AddFits DEF v21_to_v22
<1>4. CASE k = 4
  <2>1. Fit(244, d)
    BY <1>4 DEF Point
  <2>2. Has(d, "transactions_outputs", Whole) /\ ~Has(d, "transactions_outputs", "covenant_id")
    BY <2>1 DEF Fit
  <2> QED BY <1>4, <2>2, AddFits DEF v21_to_v22
<1>5. CASE k = 5
  <2>1. Fit(245, d)
    BY <1>5 DEF Point
  <2>2. Has(d, Vars, Whole)
    BY <2>1 DEF Fit
  <2> QED BY <1>5, <2>2, SetVersionFits DEF v21_to_v22
<1> QED BY <1>1, <1>2, <1>3, <1>4, <1>5

\* v22_to_v23, statement by statement: none fails where Fit holds.
LEMMA v22_to_v23_Fits ==
  ASSUME NEW d, NEW k \in 1..12, Fit(Point(22, k), d)
  PROVE  ~Fails(d, v22_to_v23[k])
<1>1. CASE k = 1
  <2>1. Fit(261, d)
    BY <1>1 DEF Point
  <2> DEFINE copies == {<<"block_transactions", Table("blocks_transactions"),
                        Table("blocks_transactions_dedup")>>,
                        <<"block", Table("blocks"), Table("blocks_transactions_dedup")>>}
  <2>2. Has(d, "blocks_transactions", Whole) /\ Has(d, "blocks", Whole)
    BY <2>1 DEF Fit
  <2>3. \A c \in copies : c[2] \in d.objects
    BY <2>2 DEF Has, Table
  <2>4. \A c \in {} \cup {Whole} : ~Has(d, "blocks_transactions_dedup", c)
    BY <2>1 DEF Fit, Lacks
  <2>5. v22_to_v23[k] = CreateAs("blocks_transactions_dedup", {}, copies)
    BY <1>1 DEF v22_to_v23
  <2> HIDE DEF copies
  <2> QED BY <2>3, <2>4, <2>5, CreateAsFits
<1>2. CASE k = 2
  <2>1. Fit(262, d)
    BY <1>2 DEF Point
  <2> DEFINE copies == {<<"transaction", Table("transactions"), Table("transactions_new")>>,
                        <<"subnetwork", <<"transactions", "subnetwork_id">>,
                          <<"transactions_new", "subnetwork_id">> >>,
                        <<"subnetwork_names", <<"transactions", "subnetwork_id">>,
                          <<"transactions_new", "subnetwork_id">> >>,
                        <<"inputs", <<"transactions", "inputs">>,
                          <<"transactions_new", "inputs">> >>,
                        <<"outputs", <<"transactions", "outputs">>,
                          <<"transactions_new", "outputs">> >>,
                        <<"block_transactions", Table("blocks_transactions_dedup"),
                          <<"transactions_new", "block_hash">> >>}
  <2>2. /\ Has(d, "transactions", Whole)
        /\ Has(d, "transactions", "subnetwork_id")
        /\ Has(d, "transactions", "inputs")
        /\ Has(d, "transactions", "outputs")
        /\ Has(d, "blocks_transactions_dedup", Whole)
    BY <2>1 DEF Fit
  <2>3. \A c \in copies : c[2] \in d.objects
    BY <2>2 DEF Has, Table
  <2>4. \A c \in {"subnetwork_id", "version", "inputs", "outputs", "block_hash"}
          \cup {Whole} : ~Has(d, "transactions_new", c)
    BY <2>1 DEF Fit, Lacks
  <2>5. v22_to_v23[k] = CreateAs("transactions_new",
          {"subnetwork_id", "version", "inputs", "outputs", "block_hash"}, copies)
    BY <1>2 DEF v22_to_v23
  <2> HIDE DEF copies
  <2> QED BY <2>3, <2>4, <2>5, CreateAsFits
<1>3. CASE k = 3
  <2>1. Fit(263, d)
    BY <1>3 DEF Point
  <2>2. Has(d, "transactions", Whole)
    BY <2>1 DEF Fit
  <2> QED BY <1>3, <2>2, DropTableFits DEF v22_to_v23
<1>4. CASE k = 4
  <2>1. Fit(264, d)
    BY <1>4 DEF Point
  <2>2. Has(d, "transactions_new", Whole) /\ ~Has(d, "transactions", Whole)
    BY <2>1 DEF Fit, Lacks
  <2> QED BY <1>4, <2>2, RenameFits DEF v22_to_v23, Table
<1>5. CASE k = 5
  <2>1. Fit(265, d)
    BY <1>5 DEF Point
  <2>2. Has(d, "transactions", Whole) /\ ~Has(d, "transactions", "pkey")
    BY <2>1 DEF Fit
  <2> QED BY <1>5, <2>2, AddFits DEF v22_to_v23
<1>6. CASE k = 6
  <2>1. Fit(266, d)
    BY <1>6 DEF Point
  <2>2. Has(d, "blocks_transactions_dedup", Whole)
    BY <2>1 DEF Fit
  <2> QED BY <1>6, <2>2, DropTableFits DEF v22_to_v23
<1>7. CASE k = 7
  <2>1. Fit(267, d)
    BY <1>7 DEF Point
  <2> DEFINE copies == {<<"block", Table("blocks"), Table("blocks_new")>>,
                        <<"block_transactions", Table("blocks_transactions"),
                          <<"blocks_new", "transaction_ids">> >>}
  <2>2. Has(d, "blocks", Whole) /\ Has(d, "blocks_transactions", Whole)
    BY <2>1 DEF Fit
  <2>3. \A c \in copies : c[2] \in d.objects
    BY <2>2 DEF Has, Table
  <2>4. \A c \in {"transaction_ids"} \cup {Whole} : ~Has(d, "blocks_new", c)
    BY <2>1 DEF Fit, Lacks
  <2>5. v22_to_v23[k] = CreateAs("blocks_new", {"transaction_ids"}, copies)
    BY <1>7 DEF v22_to_v23
  <2> HIDE DEF copies
  <2> QED BY <2>3, <2>4, <2>5, CreateAsFits
<1>8. CASE k = 8
  <2>1. Fit(268, d)
    BY <1>8 DEF Point
  <2>2. Has(d, "blocks", Whole)
    BY <2>1 DEF Fit
  <2> QED BY <1>8, <2>2, DropTableFits DEF v22_to_v23
<1>9. CASE k = 9
  <2>1. Fit(269, d)
    BY <1>9 DEF Point
  <2>2. Has(d, "blocks_new", Whole) /\ ~Has(d, "blocks", Whole)
    BY <2>1 DEF Fit, Lacks
  <2> QED BY <1>9, <2>2, RenameFits DEF v22_to_v23, Table
<1>10. CASE k = 10
  <2>1. Fit(270, d)
    BY <1>10 DEF Point
  <2>2. Has(d, "blocks", Whole) /\ ~Has(d, "blocks", "pkey")
    BY <2>1 DEF Fit
  <2> QED BY <1>10, <2>2, AddFits DEF v22_to_v23
<1>11. CASE k = 11
  <2>1. Fit(271, d)
    BY <1>11 DEF Point
  <2>2. Has(d, "blocks_transactions", Whole)
    BY <2>1 DEF Fit
  <2> QED BY <1>11, <2>2, DropTableFits DEF v22_to_v23
<1>12. CASE k = 12
  <2>1. Fit(272, d)
    BY <1>12 DEF Point
  <2>2. Has(d, Vars, Whole)
    BY <2>1 DEF Fit
  <2> QED BY <1>12, <2>2, SetVersionFits DEF v22_to_v23
<1> QED BY <1>1, <1>2, <1>3, <1>4, <1>5, <1>6, <1>7, <1>8, <1>9, <1>10, <1>11, <1>12

-----------------------------------------------------------------------------
(***************************************************************************)
(* up.sql and down.sql                                                     *)
(***************************************************************************)

\* What up.sql made before statement k, as far as an upgrade makes it too.
UpMade(k, d) ==
    /\ k > 1 => Has(d, Vars, Whole)
    /\ k > 3 => HasAll(d, "blocks", {Whole, "pkey", "transaction_ids"})
    /\ k > 4 => HasAll(d, "block_parent", {Whole, "pkey"})
    /\ k > 5 => HasAll(d, "transactions_inputs",
                       {Whole, "type", "previous_outpoint_script",
                        "previous_outpoint_amount", "compute_budget", "covenant_id"})
    /\ k > 6 => HasAll(d, "transactions_outputs",
                       {Whole, "type", "covenant_authorizing_input", "covenant_id"})
    /\ k > 7 => HasAll(d, "transactions", TxColumns \cup {"pkey"})
    /\ k > 8 => HasAll(d, "transactions_acceptances", {Whole, "unique"})
    /\ k > 9 => Has(d, "addresses_transactions", Whole)
    /\ k > 10 => /\ Has(d, "scripts_transactions", Whole)
                 /\ \/ Has(d, "scripts_transactions", "pkey")
                    \/ Has(d, "scripts_transactions", "pkey_without_time")

\* Nothing is in the way of the statements of up.sql from k on.
UpFree(k, d) ==
    /\ k <= 1 => Lacks(d, Vars)
    /\ k <= 3 => Lacks(d, "blocks")
    /\ k <= 4 => Lacks(d, "block_parent")
    /\ k <= 5 => Lacks(d, "transactions_inputs")
    /\ k <= 6 => Lacks(d, "transactions_outputs")
    /\ k <= 7 => Lacks(d, "transactions")
    /\ k <= 8 => Lacks(d, "transactions_acceptances")
    /\ k <= 9 => Lacks(d, "addresses_transactions")
    /\ k <= 10 => Lacks(d, "scripts_transactions")

\* What down.sql dropped before statement k.
DownGone(k, d) ==
    /\ k > 1 => Lacks(d, "scripts_transactions")
    /\ k > 2 => Lacks(d, "addresses_transactions")
    /\ k > 3 => Lacks(d, "transactions_acceptances")
    /\ k > 4 => Lacks(d, "transactions")
    /\ k > 5 => Lacks(d, "transactions_inputs")
    /\ k > 6 => Lacks(d, "transactions_outputs")
    /\ k > 8 => Lacks(d, "block_parent")
    /\ k > 9 => Lacks(d, "blocks")
    /\ k > 10 => Lacks(d, Vars)

\* Types that down.sql may drop are not row types of tables.
RowTyped(d) ==
    /\ Has(d, "transactions_inputs", Whole) => Has(d, "transactions_inputs", "type")
    /\ Has(d, "transactions_outputs", Whole) => Has(d, "transactions_outputs", "type")

\* A statement of up.sql adds to what is made, and leaves what comes after it
\* free; the first one is refused where vars is.
LEMMA up_Step ==
  ASSUME NEW d, Database(d), NEW k \in 1..10, ~Fails(d, up[k]), NEW e, e = Execute(d, up[k])
  PROVE  /\ Database(e)
         /\ e.version = IF k = 2 THEN SCHEMA_VERSION ELSE d.version
         /\ k = 1 => ~Has(d, Vars, Whole)
         /\ Has(d, Vars, Whole) => Has(e, Vars, Whole)
         /\ UpMade(k, d) => UpMade(k + 1, e)
         /\ UpFree(k, d) => UpFree(k + 1, e)
         /\ RowTyped(d) => RowTyped(e)
<1>1. CASE k = 1
  <2>1. Created(d, e, Vars, {})
    BY <1>1, CreateEffect DEF up, Vars
  <2>2. /\ Database(e) /\ (Has(d, Vars, Whole) => Has(e, Vars, Whole))
        /\ e.version = d.version
        /\ ~Has(d, Vars, Whole)
    BY <2>1 DEF Created
  <2>3. UpMade(1, d) => UpMade(2, e)
    BY <2>1 DEF Created, UpMade, HasAll, TxColumns, Vars
  <2>4. UpFree(1, d) => UpFree(2, e)
    BY <2>1 DEF Created, UpFree, Lacks, Vars
  <2>5. RowTyped(d) => RowTyped(e)
    BY <2>1 DEF Created, RowTyped, Vars
  <2> QED BY <1>1, <2>2, <2>3, <2>4, <2>5
<1>2. CASE k = 2
  <2>1. VersionSet(d, e, SCHEMA_VERSION)
    BY <1>2, SetVersionEffect DEF up, SCHEMA_VERSION
  <2>2. /\ Database(e) /\ (Has(d, Vars, Whole) => Has(e, Vars, Whole))
        /\ e.version = SCHEMA_VERSION
    BY <2>1 DEF VersionSet
  <2>3. UpMade(2, d) => UpMade(3, e)
    BY <2>1 DEF VersionSet, UpMade, HasAll, TxColumns, Vars
  <2>4. UpFree(2, d) => UpFree(3, e)
    BY <2>1 DEF VersionSet, UpFree, Lacks, Vars
  <2>5. RowTyped(d) => RowTyped(e)
    BY <2>1 DEF VersionSet, RowTyped, Vars
  <2> QED BY <1>2, <2>2, <2>3, <2>4, <2>5
<1>3. CASE k = 3
  <2>1. Created(d, e, "blocks", {"pkey", "transaction_ids"})
    BY <1>3, CreateEffect DEF up
  <2>2. /\ Database(e) /\ (Has(d, Vars, Whole) => Has(e, Vars, Whole))
        /\ e.version = d.version
    BY <2>1 DEF Created
  <2>3. UpMade(3, d) => UpMade(4, e)
    BY <2>1 DEF Created, UpMade, HasAll, TxColumns, Vars
  <2>4. UpFree(3, d) => UpFree(4, e)
    BY <2>1 DEF Created, UpFree, Lacks, Vars
  <2>5. RowTyped(d) => RowTyped(e)
    BY <2>1 DEF Created, RowTyped, Vars
  <2> QED BY <1>3, <2>2, <2>3, <2>4, <2>5
<1>4. CASE k = 4
  <2>1. Created(d, e, "block_parent", {"pkey"})
    BY <1>4, CreateEffect DEF up
  <2>2. /\ Database(e) /\ (Has(d, Vars, Whole) => Has(e, Vars, Whole))
        /\ e.version = d.version
    BY <2>1 DEF Created
  <2>3. UpMade(4, d) => UpMade(5, e)
    BY <2>1 DEF Created, UpMade, HasAll, TxColumns, Vars
  <2>4. UpFree(4, d) => UpFree(5, e)
    BY <2>1 DEF Created, UpFree, Lacks, Vars
  <2>5. RowTyped(d) => RowTyped(e)
    BY <2>1 DEF Created, RowTyped, Vars
  <2> QED BY <1>4, <2>2, <2>3, <2>4, <2>5
<1>5. CASE k = 5
  <2>1. Created(d, e, "transactions_inputs",
          {"type", "previous_outpoint_script", "previous_outpoint_amount",
            "compute_budget", "covenant_id"})
    BY <1>5, CreateEffect DEF up
  <2>2. /\ Database(e) /\ (Has(d, Vars, Whole) => Has(e, Vars, Whole))
        /\ e.version = d.version
    BY <2>1 DEF Created
  <2>3. UpMade(5, d) => UpMade(6, e)
    BY <2>1 DEF Created, UpMade, HasAll, TxColumns, Vars
  <2>4. UpFree(5, d) => UpFree(6, e)
    BY <2>1 DEF Created, UpFree, Lacks, Vars
  <2>5. RowTyped(d) => RowTyped(e)
    BY <2>1 DEF Created, RowTyped, Vars
  <2> QED BY <1>5, <2>2, <2>3, <2>4, <2>5
<1>6. CASE k = 6
  <2>1. Created(d, e, "transactions_outputs",
          {"type", "covenant_authorizing_input", "covenant_id"})
    BY <1>6, CreateEffect DEF up
  <2>2. /\ Database(e) /\ (Has(d, Vars, Whole) => Has(e, Vars, Whole))
        /\ e.version = d.version
    BY <2>1 DEF Created
  <2>3. UpMade(6, d) => UpMade(7, e)
    BY <2>1 DEF Created, UpMade, HasAll, TxColumns, Vars
  <2>4. UpFree(6, d) => UpFree(7, e)
    BY <2>1 DEF Created, UpFree, Lacks, Vars
  <2>5. RowTyped(d) => RowTyped(e)
    BY <2>1 DEF Created, RowTyped, Vars
  <2> QED BY <1>6, <2>2, <2>3, <2>4, <2>5
<1>7. CASE k = 7
  <2>1. Created(d, e, "transactions",
          {"pkey", "subnetwork_id", "version", "inputs", "outputs", "block_hash"})
    BY <1>7, CreateEffect DEF up
  <2>2. /\ Database(e) /\ (Has(d, Vars, Whole) => Has(e, Vars, Whole))
        /\ e.version = d.version
    BY <2>1 DEF Created
  <2>3. UpMade(7, d) => UpMade(8, e)
    BY <2>1 DEF Created, UpMade, HasAll, TxColumns, Vars
  <2>4. UpFree(7, d) => UpFree(8, e)
    BY <2>1 DEF Created, UpFree, Lacks, Vars
  <2>5. RowTyped(d) => RowTyped(e)
    BY <2>1 DEF Created, RowTyped, Vars
  <2> QED BY <1>7, <2>2, <2>3, <2>4, <2>5
<1>8. CASE k = 8
  <2>1. Created(d, e, "transactions_acceptances", {"unique"})
    BY <1>8, CreateEffect DEF up
  <2>2. /\ Database(e) /\ (Has(d, Vars, Whole) => Has(e, Vars, Whole))
        /\ e.version = d.version
    BY <2>1 DEF Created
  <2>3. UpMade(8, d) => UpMade(9, e)
    BY <2>1 DEF Created, UpMade, HasAll, TxColumns, Vars
  <2>4. UpFree(8, d) => UpFree(9, e)
    BY <2>1 DEF Created, UpFree, Lacks, Vars
  <2>5. RowTyped(d) => RowTyped(e)
    BY <2>1 DEF Created, RowTyped, Vars
  <2> QED BY <1>8, <2>2, <2>3, <2>4, <2>5
<1>9. CASE k = 9
  <2>1. Created(d, e, "addresses_transactions", {"pkey"})
    BY <1>9, CreateEffect DEF up
  <2>2. /\ Database(e) /\ (Has(d, Vars, Whole) => Has(e, Vars, Whole))
        /\ e.version = d.version
    BY <2>1 DEF Created
  <2>3. UpMade(9, d) => UpMade(10, e)
    BY <2>1 DEF Created, UpMade, HasAll, TxColumns, Vars
  <2>4. UpFree(9, d) => UpFree(10, e)
    BY <2>1 DEF Created, UpFree, Lacks, Vars
  <2>5. RowTyped(d) => RowTyped(e)
    BY <2>1 DEF Created, RowTyped, Vars
  <2> QED BY <1>9, <2>2, <2>3, <2>4, <2>5
<1>10. CASE k = 10
  <2>1. Created(d, e, "scripts_transactions", {"pkey"})
    BY <1>10, CreateEffect DEF up
  <2>2. /\ Database(e) /\ (Has(d, Vars, Whole) => Has(e, Vars, Whole))
        /\ e.version = d.version
    BY <2>1 DEF Created
  <2>3. UpMade(10, d) => UpMade(11, e)
    BY <2>1 DEF Created, UpMade, HasAll, TxColumns, Vars
  <2>4. UpFree(10, d) => UpFree(11, e)
    BY <2>1 DEF Created, UpFree, Lacks, Vars
  <2>5. RowTyped(d) => RowTyped(e)
    BY <2>1 DEF Created, RowTyped, Vars
  <2> QED BY <1>10, <2>2, <2>3, <2>4, <2>5
<1> QED BY <1>1, <1>2, <1>3, <1>4, <1>5, <1>6, <1>7, <1>8, <1>9, <1>10

\* up.sql is accepted where none of its tables is.
LEMMA up_Fits ==
  ASSUME NEW d, NEW k \in 1..10, UpMade(k, d), UpFree(k, d)
  PROVE  ~Fails(d, up[k])
<1>1. CASE k = 1
  <2>1. \A c \in {} \cup {Whole} : ~Has(d, Vars, c)
    BY <1>1 DEF UpFree, Lacks
  <2> QED BY <1>1, <2>1, CreateFits DEF up, Vars
<1>2. CASE k = 2
  <2>1. Has(d, Vars, Whole)
    BY <1>2 DEF UpMade
  <2> QED BY <1>2, <2>1, SetVersionFits DEF up
<1>3. CASE k = 3
  <2>1. \A c \in {"pkey", "transaction_ids"} \cup {Whole} : ~Has(d, "blocks", c)
    BY <1>3 DEF UpFree, Lacks
  <2> QED BY <1>3, <2>1, CreateFits DEF up
<1>4. CASE k = 4
  <2>1. \A c \in {"pkey"} \cup {Whole} : ~Has(d, "block_parent", c)
    BY <1>4 DEF UpFree, Lacks
  <2> QED BY <1>4, <2>1, CreateFits DEF up
<1>5. CASE k = 5
  <2>1. \A c \in {"type", "previous_outpoint_script", "previous_outpoint_amount",
          "compute_budget", "covenant_id"} \cup {Whole} : ~Has(d, "transactions_inputs", c)
    BY <1>5 DEF UpFree, Lacks
  <2> QED BY <1>5, <2>1, CreateFits DEF up
<1>6. CASE k = 6
  <2>1. \A c \in {"type", "covenant_authorizing_input", "covenant_id"} \cup {Whole} :
          ~Has(d, "transactions_outputs", c)
    BY <1>6 DEF UpFree, Lacks
  <2> QED BY <1>6, <2>1, CreateFits DEF up
<1>7. CASE k = 7
  <2>1. \A c \in {"pkey", "subnetwork_id", "version", "inputs", "outputs",
          "block_hash"} \cup {Whole} : ~Has(d, "transactions", c)
    BY <1>7 DEF UpFree, Lacks
  <2> QED BY <1>7, <2>1, CreateFits DEF up
<1>8. CASE k = 8
  <2>1. \A c \in {"unique"} \cup {Whole} : ~Has(d, "transactions_acceptances", c)
    BY <1>8 DEF UpFree, Lacks
  <2> QED BY <1>8, <2>1, CreateFits DEF up
<1>9. CASE k = 9
  <2>1. \A c \in {"pkey"} \cup {Whole} : ~Has(d, "addresses_transactions", c)
    BY <1>9 DEF UpFree, Lacks
  <2> QED BY <1>9, <2>1, CreateFits DEF up
<1>10. CASE k = 10
  <2>1. \A c \in {"pkey"} \cup {Whole} : ~Has(d, "scripts_transactions", c)
    BY <1>10 DEF UpFree, Lacks
  <2> QED BY <1>10, <2>1, CreateFits DEF up
<1> QED BY <1>1, <1>2, <1>3, <1>4, <1>5, <1>6, <1>7, <1>8, <1>9, <1>10

\* A statement of down.sql drops one table more, vars last.
LEMMA down_Step ==
  ASSUME NEW d, Database(d), NEW k \in 1..10, ~Fails(d, down[k]), NEW e, e = Execute(d, down[k])
  PROVE  /\ Database(e)
         /\ e.version = IF k = 10 THEN NoVersion ELSE d.version
         /\ k # 10 => (Has(d, Vars, Whole) => Has(e, Vars, Whole))
         /\ DownGone(k, d) => DownGone(k + 1, e)
         /\ RowTyped(d) => RowTyped(e)
<1>1. CASE k = 1
  <2>1. DroppedIfExists(d, e, "scripts_transactions")
    BY <1>1, DropIfExistsEffect DEF down
  <2>2. Database(e) /\ e.version = d.version /\ (Has(d, Vars, Whole) => Has(e, Vars, Whole))
    BY <2>1 DEF DroppedIfExists, Vars
  <2>3. DownGone(1, d) => DownGone(2, e)
    BY <2>1 DEF DroppedIfExists, DownGone, Lacks, Vars
  <2>4. RowTyped(d) => RowTyped(e)
    BY <2>1 DEF DroppedIfExists, RowTyped, Vars
  <2> QED BY <1>1, <2>2, <2>3, <2>4
<1>2. CASE k = 2
  <2>1. DroppedIfExists(d, e, "addresses_transactions")
    BY <1>2, DropIfExistsEffect DEF down
  <2>2. Database(e) /\ e.version = d.version /\ (Has(d, Vars, Whole) => Has(e, Vars, Whole))
    BY <2>1 DEF DroppedIfExists, Vars
  <2>3. DownGone(2, d) => DownGone(3, e)
    BY <2>1 DEF DroppedIfExists, DownGone, Lacks, Vars
  <2>4. RowTyped(d) => RowTyped(e)
    BY <2>1 DEF DroppedIfExists, RowTyped, Vars
  <2> QED BY <1>2, <2>2, <2>3, <2>4
<1>3. CASE k = 3
  <2>1. DroppedIfExists(d, e, "transactions_acceptances")
    BY <1>3, DropIfExistsEffect DEF down
  <2>2. Database(e) /\ e.version = d.version /\ (Has(d, Vars, Whole) => Has(e, Vars, Whole))
    BY <2>1 DEF DroppedIfExists, Vars
  <2>3. DownGone(3, d) => DownGone(4, e)
    BY <2>1 DEF DroppedIfExists, DownGone, Lacks, Vars
  <2>4. RowTyped(d) => RowTyped(e)
    BY <2>1 DEF DroppedIfExists, RowTyped, Vars
  <2> QED BY <1>3, <2>2, <2>3, <2>4
<1>4. CASE k = 4
  <2>1. DroppedIfExists(d, e, "transactions")
    BY <1>4, DropIfExistsEffect DEF down
  <2>2. Database(e) /\ e.version = d.version /\ (Has(d, Vars, Whole) => Has(e, Vars, Whole))
    BY <2>1 DEF DroppedIfExists, Vars
  <2>3. DownGone(4, d) => DownGone(5, e)
    BY <2>1 DEF DroppedIfExists, DownGone, Lacks, Vars
  <2>4. RowTyped(d) => RowTyped(e)
    BY <2>1 DEF DroppedIfExists, RowTyped, Vars
  <2> QED BY <1>4, <2>2, <2>3, <2>4
<1>5. CASE k = 5
  <2>1. DroppedIfExists(d, e, "transactions_inputs")
    BY <1>5, DropIfExistsEffect DEF down
  <2>2. Database(e) /\ e.version = d.version /\ (Has(d, Vars, Whole) => Has(e, Vars, Whole))
    BY <2>1 DEF DroppedIfExists, Vars
  <2>3. DownGone(5, d) => DownGone(6, e)
    BY <2>1 DEF DroppedIfExists, DownGone, Lacks, Vars
  <2>4. RowTyped(d) => RowTyped(e)
    BY <2>1 DEF DroppedIfExists, RowTyped, Vars
  <2> QED BY <1>5, <2>2, <2>3, <2>4
<1>6. CASE k = 6
  <2>1. DroppedIfExists(d, e, "transactions_outputs")
    BY <1>6, DropIfExistsEffect DEF down
  <2>2. Database(e) /\ e.version = d.version /\ (Has(d, Vars, Whole) => Has(e, Vars, Whole))
    BY <2>1 DEF DroppedIfExists, Vars
  <2>3. DownGone(6, d) => DownGone(7, e)
    BY <2>1 DEF DroppedIfExists, DownGone, Lacks, Vars
  <2>4. RowTyped(d) => RowTyped(e)
    BY <2>1 DEF DroppedIfExists, RowTyped, Vars
  <2> QED BY <1>6, <2>2, <2>3, <2>4
<1>7. CASE k = 7
  <2>1. DroppedIfExists(d, e, "subnetworks")
    BY <1>7, DropIfExistsEffect DEF down
  <2>2. Database(e) /\ e.version = d.version /\ (Has(d, Vars, Whole) => Has(e, Vars, Whole))
    BY <2>1 DEF DroppedIfExists, Vars
  <2>3. DownGone(7, d) => DownGone(8, e)
    BY <2>1 DEF DroppedIfExists, DownGone, Lacks, Vars
  <2>4. RowTyped(d) => RowTyped(e)
    BY <2>1 DEF DroppedIfExists, RowTyped, Vars
  <2> QED BY <1>7, <2>2, <2>3, <2>4
<1>8. CASE k = 8
  <2>1. DroppedIfExists(d, e, "block_parent")
    BY <1>8, DropIfExistsEffect DEF down
  <2>2. Database(e) /\ e.version = d.version /\ (Has(d, Vars, Whole) => Has(e, Vars, Whole))
    BY <2>1 DEF DroppedIfExists, Vars
  <2>3. DownGone(8, d) => DownGone(9, e)
    BY <2>1 DEF DroppedIfExists, DownGone, Lacks, Vars
  <2>4. RowTyped(d) => RowTyped(e)
    BY <2>1 DEF DroppedIfExists, RowTyped, Vars
  <2> QED BY <1>8, <2>2, <2>3, <2>4
<1>9. CASE k = 9
  <2>1. DroppedIfExists(d, e, "blocks")
    BY <1>9, DropIfExistsEffect DEF down
  <2>2. Database(e) /\ e.version = d.version /\ (Has(d, Vars, Whole) => Has(e, Vars, Whole))
    BY <2>1 DEF DroppedIfExists, Vars
  <2>3. DownGone(9, d) => DownGone(10, e)
    BY <2>1 DEF DroppedIfExists, DownGone, Lacks, Vars
  <2>4. RowTyped(d) => RowTyped(e)
    BY <2>1 DEF DroppedIfExists, RowTyped, Vars
  <2> QED BY <1>9, <2>2, <2>3, <2>4
<1>10. CASE k = 10
  <2>1. DroppedIfExists(d, e, Vars)
    BY <1>10, DropIfExistsEffect DEF down, Vars
  <2>2. Database(e) /\ e.version = NoVersion
    BY <2>1 DEF DroppedIfExists, NoVersion
  <2>3. DownGone(10, d) => DownGone(11, e)
    BY <2>1 DEF DroppedIfExists, DownGone, Lacks, Vars
  <2>4. RowTyped(d) => RowTyped(e)
    BY <2>1 DEF DroppedIfExists, RowTyped, Vars
  <2> QED BY <1>10, <2>2, <2>3, <2>4
<1> QED BY <1>1, <1>2, <1>3, <1>4, <1>5, <1>6, <1>7, <1>8, <1>9, <1>10

\* down.sql is accepted where the two types are types of their own.
LEMMA down_Fits ==
  ASSUME NEW d, NEW k \in 1..10, RowTyped(d)
  PROVE  ~Fails(d, down[k])
<1>1. \A t : <<t, Whole>> \notin RowTypes(d)
  BY DEF RowTypes, RowTyped, Has, Table
<1>2. CASE k = 1
  BY <1>2, <1>1, DropIfExistsFits DEF down
<1>3. CASE k = 2
  BY <1>3, <1>1, DropIfExistsFits DEF down
<1>4. CASE k = 3
  BY <1>4, <1>1, DropIfExistsFits DEF down
<1>5. CASE k = 4
  BY <1>5, <1>1, DropIfExistsFits DEF down
<1>6. CASE k = 5
  BY <1>6, <1>1, DropIfExistsFits DEF down
<1>7. CASE k = 6
  BY <1>7, <1>1, DropIfExistsFits DEF down
<1>8. CASE k = 7
  BY <1>8, <1>1, DropIfExistsFits DEF down
<1>9. CASE k = 8
  BY <1>9, <1>1, DropIfExistsFits DEF down
<1>10. CASE k = 9
  BY <1>10, <1>1, DropIfExistsFits DEF down
<1>11. CASE k = 10
  BY <1>11, <1>1, DropIfExistsFits DEF down
<1> QED BY <1>2, <1>3, <1>4, <1>5, <1>6, <1>7, <1>8, <1>9, <1>10, <1>11

\* After down.sql nothing is in the way of up.sql.
LEMMA DownToUp ==
  ASSUME NEW d, DownGone(11, d)
  PROVE  UpFree(1, d)
  BY DEF DownGone, UpFree

\* After up.sql the schema has all that version 23 guarantees.
LEMMA UpToObjects ==
  ASSUME NEW d, UpMade(11, d)
  PROVE  Objects(d) /\ RowTyped(d)
  BY DEF UpMade, Objects, TxTypes, HasAll, RowTyped, TxColumns

-----------------------------------------------------------------------------
(***************************************************************************)
(* Between the scripts                                                     *)
(***************************************************************************)

\* The end of the session drops its temporary table and nothing else.
LEMMA EndOfSession ==
  ASSUME NEW d, Database(d), NEW e,
         e = Execute(d, DropIfExists(Table("subnetwork_compressed")))
  PROVE  DroppedIfExists(d, e, "subnetwork_compressed")
<1>1. <<"subnetwork_compressed", Whole>> \notin RowTypes(d)
  BY DEF RowTypes, Table
<1> QED BY <1>1, DropIfExistsFits, DropIfExistsEffect

\* The end of the session keeps the version and everything else.
LEMMA EndOfSessionKeeps ==
  ASSUME NEW d, NEW e, DroppedIfExists(d, e, "subnetwork_compressed")
  PROVE  /\ Database(e) /\ e.version = d.version
         /\ Has(d, Vars, Whole) => Has(e, Vars, Whole)
         /\ Objects(d) => Objects(e)
         /\ FactsOf(d) => FactsOf(e)
         /\ UpFree(1, d) => UpFree(1, e)
         /\ RowTyped(d) => RowTyped(e)
         /\ \A v \in Migrated : Fit(Point(v, 1), d) => Fit(Point(v, 1), e)
<1>1. Database(e) /\ e.version = d.version /\ (Has(d, Vars, Whole) => Has(e, Vars, Whole))
  BY DEF DroppedIfExists, Vars
<1>2. Objects(d) => Objects(e)
  BY <1>1 DEF DroppedIfExists, Objects, HasAll, TxTypes, TxColumns
<1>3. FactsOf(d) => FactsOf(e)
  BY <1>1 DEF DroppedIfExists, FactsOf, TxOld, TxRows, TxAll, TxKept
<1>4. UpFree(1, d) => UpFree(1, e)
  BY DEF DroppedIfExists, UpFree, Lacks
<1>5. RowTyped(d) => RowTyped(e)
  BY DEF DroppedIfExists, RowTyped
<1>6. ASSUME NEW v \in Migrated, Fit(Point(v, 1), d)
      PROVE  Fit(Point(v, 1), e)
  <2>1. Point(v, 1) \in Nat /\ Point(v, 1) \notin 225..227
    BY DEF Point, Migrated
  <2> DEFINE p == Point(v, 1)
  <2> HIDE DEF p
  <2>2. Fit(p, d) => Fit(p, e)
    BY <2>1 DEF DroppedIfExists, Fit, Lacks, Vars, p
  <2> QED BY <1>6, <2>2 DEF p
<1> QED BY <1>1, <1>2, <1>3, <1>4, <1>5, <1>6

\* Where a migration ends the next one starts.
LEMMA NextScriptFits ==
  ASSUME NEW v \in Migrated, NEW d, Fit(Point(v, Size(v) + 1), d)
  PROVE  /\ v # 22 => Fit(Point(NextVersion(v), 1), d)
         /\ v >= 10 => RowTyped(d)
<1>1. CASE v = 1
  <2>1. Fit(26, d)
    BY <1>1, Sizes DEF Point
  <2>2. Fit(41, d)
    BY <2>1 DEF Fit
  <2>3. Point(NextVersion(v), 1) = 41
    BY <1>1 DEF Point, NextVersion
  <2> QED BY <1>1, <2>2, <2>3
<1>2. CASE v = 2
  <2>1. Fit(42, d)
    BY <1>2, Sizes DEF Point
  <2>2. Fit(61, d)
    BY <2>1 DEF Fit
  <2>3. Point(NextVersion(v), 1) = 61
    BY <1>2 DEF Point, NextVersion
  <2> QED BY <1>2, <2>2, <2>3
<1>3. CASE v = 3
  <2>1. Fit(64, d)
    BY <1>3, Sizes DEF Point
  <2>2. Fit(81, d)
    BY <2>1 DEF Fit
  <2>3. Point(NextVersion(v), 1) = 81
    BY <1>3 DEF Point, NextVersion
  <2> QED BY <1>3, <2>2, <2>3
<1>4. CASE v = 4
  <2>1. Fit(84, d)
    BY <1>4, Sizes DEF Point
  <2>2. Fit(101, d)
    BY <2>1 DEF Fit
  <2>3. Point(NextVersion(v), 1) = 101
    BY <1>4 DEF Point, NextVersion
  <2> QED BY <1>4, <2>2, <2>3
<1>5. CASE v = 5
  <2>1. Fit(104, d)
    BY <1>5, Sizes DEF Point
  <2>2. Fit(121, d)
    BY <2>1 DEF Fit
  <2>3. Point(NextVersion(v), 1) = 121
    BY <1>5 DEF Point, NextVersion
  <2> QED BY <1>5, <2>2, <2>3
<1>6. CASE v = 6
  <2>1. Fit(124, d)
    BY <1>6, Sizes DEF Point
  <2>2. Fit(141, d)
    BY <2>1 DEF Fit
  <2>3. Point(NextVersion(v), 1) = 141
    BY <1>6 DEF Point, NextVersion
  <2> QED BY <1>6, <2>2, <2>3
<1>7. CASE v = 7
  <2>1. Fit(143, d)
    BY <1>7, Sizes DEF Point
  <2>2. Fit(161, d)
    BY <2>1 DEF Fit
  <2>3. Point(NextVersion(v), 1) = 161
    BY <1>7 DEF Point, NextVersion
  <2> QED BY <1>7, <2>2, <2>3
<1>8. CASE v = 8
  <2>1. Fit(165, d)
    BY <1>8, Sizes DEF Point
  <2>2. Fit(181, d)
    BY <2>1 DEF Fit
  <2>3. Point(NextVersion(v), 1) = 181
    BY <1>8 DEF Point, NextVersion
  <2> QED BY <1>8, <2>2, <2>3
<1>9. CASE v = 9
  <2>1. Fit(182, d)
    BY <1>9, Sizes DEF Point
  <2>2. Fit(201, d)
    BY <2>1 DEF Fit
  <2>3. Point(NextVersion(v), 1) = 201
    BY <1>9 DEF Point, NextVersion
  <2> QED BY <1>9, <2>2, <2>3
<1>10. CASE v = 10
  <2>1. Fit(216, d)
    BY <1>10, Sizes DEF Point
  <2>2. Fit(221, d)
    BY <2>1 DEF Fit
  <2>3. Point(NextVersion(v), 1) = 221
    BY <1>10 DEF Point, NextVersion
  <2>4. RowTyped(d)
    BY <2>1 DEF Fit, RowTyped
  <2> QED BY <1>10, <2>2, <2>3, <2>4
<1>11. CASE v = 20
  <2>1. Fit(232, d)
    BY <1>11, Sizes DEF Point
  <2>2. Fit(241, d)
    BY <2>1 DEF Fit
  <2>3. Point(NextVersion(v), 1) = 241
    BY <1>11 DEF Point, NextVersion
  <2>4. RowTyped(d)
    BY <2>1 DEF Fit, RowTyped
  <2> QED BY <1>11, <2>2, <2>3, <2>4
<1>12. CASE v = 21
  <2>1. Fit(246, d)
    BY <1>12, Sizes DEF Point
  <2>2. Fit(261, d)
    BY <2>1 DEF Fit
  <2>3. Point(NextVersion(v), 1) = 261
    BY <1>12 DEF Point, NextVersion
  <2>4. RowTyped(d)
    BY <2>1 DEF Fit, RowTyped
  <2> QED BY <1>12, <2>2, <2>3, <2>4
<1>13. CASE v = 22
  <2>1. Fit(273, d)
    BY <1>13, Sizes DEF Point
  <2>4. RowTyped(d)
    BY <2>1 DEF Fit, RowTyped
  <2> QED BY <1>13, <2>4
<1> QED BY <1>1, <1>2, <1>3, <1>4, <1>5, <1>6, <1>7, <1>8, <1>9, <1>10, <1>11, <1>12,
           <1>13 DEF Migrated

\* The scripts and their lengths.
LEMMA Scripts ==
  /\ Statements(<<"up", NoVersion>>) = up
  /\ Statements(<<"down", NoVersion>>) = down
  /\ \A v \in Migrated : Statements(<<"migrate", v>>) = Migration(v)
  BY DEF Statements

\* Statements and lengths of the scripts the program runs.
LEMMA ScriptLengths ==
  /\ Len(up) = 10 /\ Len(down) = 10
  /\ \A v \in Migrated : Size(v) \in Nat \ {0}
<1>1. Len(up) = 10
  BY DEF up
<1>2. Len(down) = 10
  BY DEF down
<1>3. \A v \in Migrated : Size(v) \in Nat \ {0}
  BY Sizes DEF Migrated
<1> QED BY <1>1, <1>2, <1>3

\* Any statement of any migration.
LEMMA MigrationStep ==
  ASSUME NEW v \in Migrated, NEW k \in 1..Size(v), NEW d, Database(d),
         d.version = VersionAt(v, k), ~Fails(d, Migration(v)[k]),
         NEW e, e = Execute(d, Migration(v)[k])
  PROVE  StepTo(v, k, d, e)
<1>1. CASE v = 1
  BY <1>1, v1_to_v2_Step, Sizes, MigrationOf
<1>2. CASE v = 2
  BY <1>2, v2_to_v3_Step, Sizes, MigrationOf
<1>3. CASE v = 3
  BY <1>3, v3_to_v4_Step, Sizes, MigrationOf
<1>4. CASE v = 4
  BY <1>4, v4_to_v5_Step, Sizes, MigrationOf
<1>5. CASE v = 5
  BY <1>5, v5_to_v6_Step, Sizes, MigrationOf
<1>6. CASE v = 6
  BY <1>6, v6_to_v7_Step, Sizes, MigrationOf
<1>7. CASE v = 7
  BY <1>7, v7_to_v8_Step, Sizes, MigrationOf
<1>8. CASE v = 8
  BY <1>8, v8_to_v9_Step, Sizes, MigrationOf
<1>9. CASE v = 9
  BY <1>9, v9_to_v10_Step, Sizes, MigrationOf
<1>10. CASE v = 10
  BY <1>10, v10_to_v20_Step, Sizes, MigrationOf
<1>11. CASE v = 20
  BY <1>11, v20_to_v21_Step, Sizes, MigrationOf
<1>12. CASE v = 21
  BY <1>12, v21_to_v22_Step, Sizes, MigrationOf
<1>13. CASE v = 22
  BY <1>13, v22_to_v23_Step, Sizes, MigrationOf
<1> QED BY <1>1, <1>2, <1>3, <1>4, <1>5, <1>6, <1>7, <1>8, <1>9, <1>10, <1>11, <1>12,
           <1>13 DEF Migrated

\* No statement of a migration fails at the point Fit describes, but for v20_to_v21
\* without transactions.
LEMMA MigrationFits ==
  ASSUME NEW v \in Migrated, NEW k \in 1..Size(v), NEW d, Fit(Point(v, k), d),
         v = 20 => "transaction" \notin NoRows
  PROVE  ~Fails(d, Migration(v)[k])
<1>1. CASE v = 1
  BY <1>1, v1_to_v2_Fits, Sizes, MigrationOf
<1>2. CASE v = 2
  BY <1>2, v2_to_v3_Fits, Sizes, MigrationOf
<1>3. CASE v = 3
  BY <1>3, v3_to_v4_Fits, Sizes, MigrationOf
<1>4. CASE v = 4
  BY <1>4, v4_to_v5_Fits, Sizes, MigrationOf
<1>5. CASE v = 5
  BY <1>5, v5_to_v6_Fits, Sizes, MigrationOf
<1>6. CASE v = 6
  BY <1>6, v6_to_v7_Fits, Sizes, MigrationOf
<1>7. CASE v = 7
  BY <1>7, v7_to_v8_Fits, Sizes, MigrationOf
<1>8. CASE v = 8
  BY <1>8, v8_to_v9_Fits, Sizes, MigrationOf
<1>9. CASE v = 9
  BY <1>9, v9_to_v10_Fits, Sizes, MigrationOf
<1>10. CASE v = 10
  BY <1>10, v10_to_v20_Fits, Sizes, MigrationOf
<1>11. CASE v = 20
  BY <1>11, v20_to_v21_Fits, Sizes, MigrationOf
<1>12. CASE v = 21
  BY <1>12, v21_to_v22_Fits, Sizes, MigrationOf
<1>13. CASE v = 22
  BY <1>13, v22_to_v23_Fits, Sizes, MigrationOf
<1> QED BY <1>1, <1>2, <1>3, <1>4, <1>5, <1>6, <1>7, <1>8, <1>9, <1>10, <1>11, <1>12,
           <1>13 DEF Migrated

\* A migration starts from what its version guarantees.
LEMMA MigrationStarts ==
  ASSUME NEW v \in Migrated, NEW d, d.version = v
  PROVE  /\ VersionAt(v, 1) = v
         /\ ObjectsIn(v, 1, d)
         /\ FactsOf(d) => FactsIn(v, 1, d)
<1>1. VersionAt(v, 1) = v
  BY ScriptLengths DEF VersionAt
<1>2. ObjectsIn(v, 1, d)
  BY DEF ObjectsIn
<1>3. FactsOf(d) => FactsIn(v, 1, d)
  BY DEF FactsOf, FactsIn, Migrated
<1> QED BY <1>1, <1>2, <1>3

\* After its last statement, a migration is at the start of the next one.
LEMMA MigrationEnds ==
  ASSUME NEW v \in Migrated
  PROVE  /\ VersionAt(v, Size(v) + 1) = NextVersion(v)
         /\ NextVersion(v) \in Nat \ {0}
         /\ NextVersion(v) >= 20 => v >= 10
         /\ NextVersion(v) \in Migrated => v # 22
<1>1. VersionAt(v, Size(v) + 1) = NextVersion(v)
  BY ScriptLengths DEF VersionAt, NextVersion
<1> QED BY <1>1 DEF NextVersion, Migrated

-----------------------------------------------------------------------------
(***************************************************************************)
(* The databases at first                                                  *)
(***************************************************************************)

\* What the statements of up.sql make.
LEMMA UpMakes ==
  /\ DOMAIN up = 1..10
  /\ up[1].makes = {<<Vars, c>> : c \in {Whole}}
  /\ up[2].makes = {}
  /\ up[3].makes = {<<"blocks", c>> : c \in {Whole, "pkey", "transaction_ids"}}
  /\ up[4].makes = {<<"block_parent", c>> : c \in {Whole, "pkey"}}
  /\ up[5].makes = {<<"transactions_inputs", c>> :
                       c \in {Whole, "type", "previous_outpoint_script",
                              "previous_outpoint_amount", "compute_budget", "covenant_id"}}
  /\ up[6].makes = {<<"transactions_outputs", c>> :
                       c \in {Whole, "type", "covenant_authorizing_input", "covenant_id"}}
  /\ up[7].makes = {<<"transactions", c>> : c \in TxColumns \cup {"pkey"}}
  /\ up[8].makes = {<<"transactions_acceptances", c>> : c \in {Whole, "unique"}}
  /\ up[9].makes = {<<"addresses_transactions", c>> : c \in {Whole, "pkey"}}
  /\ up[10].makes = {<<"scripts_transactions", c>> : c \in {Whole, "pkey"}}
<1>1. \A t, cs : Create(t, cs).makes = {<<t, c>> : c \in cs \cup {Whole}}
  BY DEF Create, Statement, Columns, Table
<1>2. DOMAIN up = 1..10
  BY DEF up
<1>3. up[1].makes = {<<Vars, c>> : c \in {Whole}}
  <2>1. up[1] = Create(Vars, {})
    BY DEF up, Vars
  <2>2. up[1].makes = {<<Vars, c>> : c \in {} \cup {Whole}}
    BY <1>1, <2>1
  <2> QED BY <2>2
<1>4. up[2].makes = {}
  BY DEF up, SetVersion, Statement
<1>5. up[3].makes = {<<"blocks", c>> : c \in {Whole, "pkey", "transaction_ids"}}
  <2>1. up[3] = Create("blocks", {"pkey", "transaction_ids"})
    BY DEF up
  <2>2. up[3].makes = {<<"blocks", c>> : c \in {"pkey", "transaction_ids"} \cup {Whole}}
    BY <1>1, <2>1
  <2> QED BY <2>2
<1>6. up[4].makes = {<<"block_parent", c>> : c \in {Whole, "pkey"}}
  <2>1. up[4] = Create("block_parent", {"pkey"})
    BY DEF up
  <2>2. up[4].makes = {<<"block_parent", c>> : c \in {"pkey"} \cup {Whole}}
    BY <1>1, <2>1
  <2> QED BY <2>2
<1>7. up[5].makes = {<<"transactions_inputs", c>> :
                       c \in {Whole, "type", "previous_outpoint_script",
                              "previous_outpoint_amount", "compute_budget", "covenant_id"}}
  <2> DEFINE cs == {"type", "previous_outpoint_script", "previous_outpoint_amount",
                    "compute_budget", "covenant_id"}
  <2>1. up[5] = Create("transactions_inputs", cs)
    BY DEF up
  <2>2. up[5].makes = {<<"transactions_inputs", c>> : c \in cs \cup {Whole}}
    BY <1>1, <2>1
  <2> QED BY <2>2
<1>8. up[6].makes = {<<"transactions_outputs", c>> :
                       c \in {Whole, "type", "covenant_authorizing_input", "covenant_id"}}
  <2> DEFINE cs == {"type", "covenant_authorizing_input", "covenant_id"}
  <2>1. up[6] = Create("transactions_outputs", cs)
    BY DEF up
  <2>2. up[6].makes = {<<"transactions_outputs", c>> : c \in cs \cup {Whole}}
    BY <1>1, <2>1
  <2> QED BY <2>2
<1>9. up[7].makes = {<<"transactions", c>> : c \in TxColumns \cup {"pkey"}}
  <2> DEFINE cs == {"pkey", "subnetwork_id", "version", "inputs", "outputs", "block_hash"}
  <2>1. up[7] = Create("transactions", cs)
    BY DEF up
  <2>2. up[7].makes = {<<"transactions", c>> : c \in cs \cup {Whole}}
    BY <1>1, <2>1
  <2> QED BY <2>2 DEF TxColumns
<1>10. up[8].makes = {<<"transactions_acceptances", c>> : c \in {Whole, "unique"}}
  <2>1. up[8] = Create("transactions_acceptances", {"unique"})
    BY DEF up
  <2>2. up[8].makes = {<<"transactions_acceptances", c>> : c \in {"unique"} \cup {Whole}}
    BY <1>1, <2>1
  <2> QED BY <2>2
<1>11. up[9].makes = {<<"addresses_transactions", c>> : c \in {Whole, "pkey"}}
  <2>1. up[9] = Create("addresses_transactions", {"pkey"})
    BY DEF up
  <2>2. up[9].makes = {<<"addresses_transactions", c>> : c \in {"pkey"} \cup {Whole}}
    BY <1>1, <2>1
  <2> QED BY <2>2
<1>12. up[10].makes = {<<"scripts_transactions", c>> : c \in {Whole, "pkey"}}
  <2>1. up[10] = Create("scripts_transactions", {"pkey"})
    BY DEF up
  <2>2. up[10].makes = {<<"scripts_transactions", c>> : c \in {"pkey"} \cup {Whole}}
    BY <1>1, <2>1
  <2> QED BY <2>2
<1> QED BY <1>2, <1>3, <1>4, <1>5, <1>6, <1>7, <1>8, <1>9, <1>10, <1>11, <1>12

\* Having what up.sql makes, with a key of scripts_transactions, is having the
\* current schema.
LEMMA CurrentObjects ==
  ASSUME NEW d
  PROVE  /\ UpMade(11, d) <=> Current \subseteq d.objects /\ Keyed(d)
         /\ Fresh \subseteq d.objects => UpMade(11, d)
         /\ \A o \in Fresh : \E t, c : o = <<t, c>>
<1> DEFINE keys == {<<"addresses_transactions", "pkey">>, <<"scripts_transactions", "pkey">>}
<1>1. /\ \A o : o \in Fresh <=> \E n \in 1..10 : o \in up[n].makes
      /\ \A o : o \in Current <=> o \in Fresh /\ o \notin keys
  BY UpMakes DEF Current, Fresh
<1>4. /\ \A n \in 1..8 : \A o \in up[n].makes : o \notin keys
      /\ \A t : <<t, Whole>> \notin keys
  <2>1. \A n \in 1..8 : \A o \in up[n].makes :
           \E t, c : /\ o = <<t, c>>
                     /\ t \notin {"addresses_transactions", "scripts_transactions"}
    BY UpMakes DEF Vars
  <2>2. "pkey" # Whole
    BY NotWhole
  <2> QED BY <2>1, <2>2
<1> HIDE DEF keys
<1>2. ASSUME Current \subseteq d.objects, Keyed(d)
      PROVE  UpMade(11, d)
  <2>1. \A n \in 1..8 : \A o \in up[n].makes : o \in d.objects
    BY <1>1, <1>2, <1>4
  <2>2. Has(d, Vars, Whole)
    BY <2>1, UpMakes DEF Has
  <2>3. HasAll(d, "blocks", {Whole, "pkey", "transaction_ids"})
    BY <2>1, UpMakes DEF Has, HasAll
  <2>4. HasAll(d, "block_parent", {Whole, "pkey"})
    BY <2>1, UpMakes DEF Has, HasAll
  <2>5. HasAll(d, "transactions_inputs",
               {Whole, "type", "previous_outpoint_script", "previous_outpoint_amount",
                "compute_budget", "covenant_id"})
    BY <2>1, UpMakes DEF Has, HasAll
  <2>6. HasAll(d, "transactions_outputs",
               {Whole, "type", "covenant_authorizing_input", "covenant_id"})
    BY <2>1, UpMakes DEF Has, HasAll
  <2>7. HasAll(d, "transactions", TxColumns \cup {"pkey"})
    BY <2>1, UpMakes DEF Has, HasAll
  <2>8. HasAll(d, "transactions_acceptances", {Whole, "unique"})
    BY <2>1, UpMakes DEF Has, HasAll
  <2>9. Has(d, "addresses_transactions", Whole) /\ Has(d, "scripts_transactions", Whole)
    <3>1. /\ <<"addresses_transactions", Whole>> \in up[9].makes
          /\ <<"scripts_transactions", Whole>> \in up[10].makes
      BY UpMakes
    <3> QED BY <3>1, <1>1, <1>2, <1>4 DEF Has
  <2>10. \/ Has(d, "scripts_transactions", "pkey")
         \/ Has(d, "scripts_transactions", "pkey_without_time")
    BY <1>2 DEF Keyed, Has
  <2> QED BY <2>2, <2>3, <2>4, <2>5, <2>6, <2>7, <2>8, <2>9, <2>10 DEF UpMade
<1>3. ASSUME NEW n \in 1..10, NEW o \in up[n].makes
      PROVE  /\ \E t, c : o = <<t, c>>
             /\ UpMade(11, d) /\ o \notin keys => o \in d.objects
  <2>1. CASE n = 1
    BY <1>3, <2>1, UpMakes DEF UpMade, Has
  <2>2. CASE n = 2
    BY <1>3, <2>2, UpMakes
  <2>3. CASE n = 3
    BY <1>3, <2>3, UpMakes DEF UpMade, Has, HasAll
  <2>4. CASE n = 4
    BY <1>3, <2>4, UpMakes DEF UpMade, Has, HasAll
  <2>5. CASE n = 5
    BY <1>3, <2>5, UpMakes DEF UpMade, Has, HasAll
  <2>6. CASE n = 6
    BY <1>3, <2>6, UpMakes DEF UpMade, Has, HasAll
  <2>7. CASE n = 7
    BY <1>3, <2>7, UpMakes DEF UpMade, Has, HasAll
  <2>8. CASE n = 8
    BY <1>3, <2>8, UpMakes DEF UpMade, Has, HasAll
  <2>9. CASE n = 9
    BY <1>3, <2>9, UpMakes DEF UpMade, Has, keys
  <2>10. CASE n = 10
    BY <1>3, <2>10, UpMakes DEF UpMade, Has, keys
  <2> QED BY <2>1, <2>2, <2>3, <2>4, <2>5, <2>6, <2>7, <2>8, <2>9, <2>10
<1>5. UpMade(11, d) => Keyed(d)
  BY DEF UpMade, Keyed, Has
<1>6. Fresh \subseteq d.objects => Keyed(d)
  <2>1. <<"scripts_transactions", "pkey">> \in Fresh
    BY <1>1, UpMakes
  <2> QED BY <2>1 DEF Keyed
<1> QED BY <1>1, <1>2, <1>3, <1>5, <1>6

\* The objects of version 1.
LEMMA Version1Objects ==
  /\ Database(Version1) /\ Version1.version = 1
  /\ \A t, c : Has(Version1, t, c) <=>
        \/ /\ t \in {"vars", "subnetworks", "blocks", "chain_blocks", "transactions",
                     "transactions_inputs", "transactions_outputs", "blocks_transactions",
                     "transactions_acceptances", "addresses_transactions"}
           /\ c = Whole
        \/ t = "blocks" /\ c \in {"pkey", "parents", "difficulty"}
        \/ t = "transactions" /\ c \in {"pkey", "subnetwork_id"}
        \/ t = "transactions_acceptances" /\ c = "pkey"
<1> DEFINE ts == {"vars", "subnetworks", "blocks", "chain_blocks", "transactions",
                  "transactions_inputs", "transactions_outputs", "blocks_transactions",
                  "transactions_acceptances", "addresses_transactions"}
<1>1. Version1.objects =
         {<<t, Whole>> : t \in ts}
            \cup {<<"blocks", c>> : c \in {"pkey", "parents", "difficulty"}}
            \cup {<<"transactions", c>> : c \in {"pkey", "subnetwork_id"}}
            \cup {<<"transactions_acceptances", c>> : c \in {"pkey"}}
  BY DEF Version1, Table, Columns
<1>2. Version1.version = 1
  BY DEF Version1
<1>3. \A h \in Version1.held : \E f, t, c : h = <<f, <<t, c>> >>
  BY DEF Version1, Table
<1>4. \A o \in Version1.objects : \E t, c : o = <<t, c>>
  BY <1>1
<1>5. \A t, c : <<t, c>> \in Version1.objects <=>
        \/ t \in ts /\ c = Whole
        \/ t = "blocks" /\ c \in {"pkey", "parents", "difficulty"}
        \/ t = "transactions" /\ c \in {"pkey", "subnetwork_id"}
        \/ t = "transactions_acceptances" /\ c = "pkey"
  <2> HIDE DEF ts
  <2> QED BY <1>1
<1> QED BY <1>2, <1>3, <1>4, <1>5 DEF Database, Has

\* Version 1 satisfies all that is required of a version 1.
LEMMA Version1Inv ==
  Objects(Version1) /\ FactsOf(Version1) /\ Fit(Point(1, 1), Version1)
<1> DEFINE d == Version1
<1>1. /\ At(d, "block", "blocks", Whole) /\ At(d, "parents", "blocks", "parents")
      /\ At(d, "transaction", "transactions", Whole)
      /\ At(d, "subnetwork", "transactions", "subnetwork_id")
      /\ At(d, "subnetwork_names", "subnetworks", Whole)
      /\ At(d, "inputs", "transactions_inputs", Whole)
      /\ At(d, "outputs", "transactions_outputs", Whole)
      /\ At(d, "block_transactions", "blocks_transactions", Whole)
      /\ At(d, "acceptance", "transactions_acceptances", Whole)
      /\ At(d, "address", "addresses_transactions", Whole)
  BY DEF Version1, At, Table
<1>2. d.version = 1
  BY Version1Objects
<1>3. \A t, c : Has(d, t, c) <=>
        \/ /\ t \in {"vars", "subnetworks", "blocks", "chain_blocks", "transactions",
                     "transactions_inputs", "transactions_outputs", "blocks_transactions",
                     "transactions_acceptances", "addresses_transactions"}
           /\ c = Whole
        \/ t = "blocks" /\ c \in {"pkey", "parents", "difficulty"}
        \/ t = "transactions" /\ c \in {"pkey", "subnetwork_id"}
        \/ t = "transactions_acceptances" /\ c = "pkey"
  BY Version1Objects
<1> HIDE DEF d
<1>4. ~Has(d, "transactions", "outputs_spent")
  <2>1. "outputs_spent" # Whole
    BY DEF Whole
  <2> QED BY <1>3, <2>1
<1>5. Objects(d)
  BY <1>2, <1>3, <1>4 DEF Objects
<1>6. FactsOf(d)
  BY <1>1, <1>2, <1>3, <1>4 DEF FactsOf, TxOld, Migrated
<1>7. Fit(21, d)
  <2>1. \A c : c \in {"pkey", "block_time", "unique", "previous_outpoint_script",
                      "previous_outpoint_amount"} => c # Whole
    BY DEF Whole
  <2> QED BY <1>1, <1>3, <2>1 DEF Fit, Lacks, Vars
<1>8. Point(1, 1) = 21
  BY DEF Point
<1> QED BY <1>5, <1>6, <1>7, <1>8 DEF d

-----------------------------------------------------------------------------
(***************************************************************************)
(* The inductive invariant                                                 *)
(***************************************************************************)

\* The values of script, and which of them is running.
Up         == <<"up", NoVersion>>
Down       == <<"down", NoVersion>>
Migrate(v) == <<"migrate", v>>

Running(s) == pc = "ddl" /\ script = s

\* The version in the database, the local of create_schema and the place in a
\* script agree.
ControlInv ==
    /\ Database(db)
    /\ db.version # NoVersion => Has(db, Vars, Whole)
    /\ pc = "ladder" => version = db.version
    /\ Ready => db.version = SCHEMA_VERSION
    /\ pc = "ddl" => script = Up \/ script = Down \/ \E v \in Migrated : script = Migrate(v)
    /\ Running(Up) => at \in 1..11 /\ (at > 2 => db.version = SCHEMA_VERSION)
    /\ Running(Down) => at \in 1..11 /\ (at > 10 => db.version = NoVersion)
    /\ \A v \in Migrated :
          Running(Migrate(v)) => at \in 1..Size(v) + 1 /\ db.version = VersionAt(v, at)

\* up.sql and down.sql are neither half done nor under way.
Settled ==
    /\ Up \notin interrupted /\ Down \notin interrupted
    /\ Running(Up) \/ Running(Down) => at = 1

\* No object is missing that the version, and the place in a script, promise.
ObjectsInv ==
    /\ Settled => Objects(db)
    /\ Settled => \A v \in Migrated : Running(Migrate(v)) => ObjectsIn(v, at, db)
    /\ Running(Up) => UpMade(at, db)
    /\ Running(Down) => DownGone(at, db)

\* initialize_db was never asked for.
Kept == first = 1 /\ ~initialized

\* ... and no fact, unless initialize_db was asked for.
FactsInv ==
    Kept => /\ FactsOf(db)
            /\ ~Running(Down)
            /\ Running(Up) => at = 1
            /\ \A v \in Migrated : Running(Migrate(v)) => FactsIn(v, at, db)

\* No script is half done.
AtRest == pc = "ddl" => at = 1

\* As long as no script was interrupted, the next statement finds the database
\* that the script was written for.
FitInv ==
    interrupted = {} =>
       /\ AtRest => \A v \in Migrated : db.version = v => Fit(Point(v, 1), db)
       /\ \A v \in Migrated : Running(Migrate(v)) => Fit(Point(v, at), db)
       /\ (\A v \in Migrated : ~Running(Migrate(v))) /\ db.version >= 20 => RowTyped(db)
       /\ AtRest /\ db.version = NoVersion => UpFree(1, db)
       /\ Running(Up) /\ at > 1 => UpFree(at, db)

\* The inductive invariant.
Inv == ControlInv /\ ObjectsInv /\ FactsInv /\ FitInv

\* Every database the program may start from satisfies the invariant.
LEMMA InitInv ==
  ASSUME Init
  PROVE  Inv
<1>1. /\ pc = "down" /\ interrupted = {} /\ initialized = FALSE /\ first \in Nat
      /\ first \notin 2..23
  BY LifecycleAssumption DEF Init, SCHEMA_VERSION
<1>2. ~Ready
  BY <1>1 DEF Ready
<1>3. CASE first = 0
  <2>1. db = Empty
    BY <1>3 DEF Init, NoVersion
  <2>2. db.objects = {} /\ db.held = {} /\ db.version = 0
    BY <2>1 DEF Empty, NoVersion
  <2>3. Database(db) /\ \A t, c : ~Has(db, t, c)
    BY <2>2 DEF Database, Has
  <2>4. ControlInv
    BY <1>1, <1>2, <2>2, <2>3 DEF ControlInv, Running, NoVersion
  <2>5. ObjectsInv
    BY <1>1, <2>2, <2>3 DEF ObjectsInv, Running, Objects
  <2>6. FactsInv
    BY <1>3 DEF FactsInv, Kept
  <2>7. FitInv
    BY <1>1, <2>2, <2>3 DEF FitInv, Running, UpFree, Lacks, NoVersion, Migrated
  <2> QED BY <2>4, <2>5, <2>6, <2>7 DEF Inv
<1>4. CASE first = 1
  <2>1. db = Version1
    BY <1>4 DEF Init, NoVersion
  <2>2. Database(db) /\ db.version = 1 /\ Has(db, Vars, Whole)
    BY <2>1, Version1Objects DEF Vars
  <2>3. Objects(db) /\ FactsOf(db) /\ Fit(Point(1, 1), db)
    BY <2>1, Version1Inv
  <2>4. ControlInv
    BY <1>1, <1>2, <2>2 DEF ControlInv, Running
  <2>5. ObjectsInv
    BY <1>1, <2>3 DEF ObjectsInv, Running
  <2>6. FactsInv
    BY <1>1, <2>3 DEF FactsInv, Running
  <2>7. FitInv
    BY <1>1, <2>2, <2>3 DEF FitInv, Running, NoVersion
  <2> QED BY <2>4, <2>5, <2>6, <2>7 DEF Inv
<1>5. CASE first > 23
  <2>1. db = [objects |-> Fresh, held |-> {}, version |-> first]
    BY <1>5 DEF Init, NoVersion
  <2>2. db.objects = Fresh /\ db.held = {} /\ db.version = first
    BY <2>1
  <2>3. Database(db) /\ UpMade(11, db)
    BY <1>1, <2>2, CurrentObjects DEF Database
  <2>4. Objects(db) /\ RowTyped(db) /\ Has(db, Vars, Whole)
    BY <2>3, UpToObjects DEF UpMade
  <2>5. ControlInv
    BY <1>1, <1>2, <2>3, <2>4 DEF ControlInv, Running
  <2>6. ObjectsInv
    BY <1>1, <2>4 DEF ObjectsInv, Running
  <2>7. FactsInv
    BY <1>5 DEF FactsInv, Kept
  <2>8. FitInv
    BY <1>1, <1>5, <2>2, <2>4 DEF FitInv, Running, NoVersion, Migrated
  <2> QED BY <2>5, <2>6, <2>7, <2>8 DEF Inv
<1> QED BY <1>1, <1>3, <1>4, <1>5

\* A step that touches neither the database nor create_schema.
Elsewhere ==
    /\ UNCHANGED <<db, script, at, version, interrupted, first, initialized>>
    /\ pc' = pc \/ (Ready /\ Ready')

\* What a step is to the database.
LEMMA StepCases ==
  ASSUME [Next]_vars
  PROVE  \/ \E f \in Flags : Start(f)
         \/ \E ok \in BOOLEAN : SelectVersion(ok)
         \/ Ladder
         \/ ExecuteStatement
         \/ ScriptDone
         \/ UpToDate
         \/ pc # "down" /\ ProcessEnds
         \/ Elsewhere
<1>1. CASE UNCHANGED vars
  BY <1>1 DEF vars, mainVars, schemaVars, history, Elsewhere
<1>2. CASE Main
  <2>1. CASE Outdated \/ StatementFails \/ Unsupported \/ ConnectStops \/ TryJoinAll
    BY <2>1 DEF Outdated, StatementFails, Unsupported, ConnectStops, TryJoinAll
  <2>2. CASE SpawnTasks
    BY <2>2 DEF SpawnTasks, Elsewhere, Ready, schemaVars, history
  <2> QED BY <1>2, <2>1, <2>2 DEF Main
<1>3. CASE Connect
  BY <1>3 DEF Connect, Elsewhere, Ready, schemaVars, history
<1>4. CASE InstallHandler
  BY <1>4 DEF InstallHandler, Elsewhere, mainVars, schemaVars, history
<1>5. CASE HandleSignal
  BY <1>5 DEF HandleSignal, Elsewhere, mainVars, schemaVars, history
<1>6. CASE ForcedClose \/ Crash
  BY <1>6 DEF ForcedClose, Crash
<1>7. ASSUME NEW t \in Tasks, Task(t) \/ QueueFull(t) \/ TaskPanics(t)
      PROVE  Elsewhere
  <2>1. CASE TaskStarts(t)
    BY <2>1 DEF TaskStarts, Elsewhere, mainVars, schemaVars, history
  <2>2. CASE QueueRoom(t)
    BY <2>2 DEF QueueRoom, Elsewhere, mainVars, schemaVars, history
  <2>3. CASE TaskEnds(t)
    BY <2>3 DEF TaskEnds, Elsewhere, mainVars, schemaVars, history
  <2>4. CASE QueueFull(t)
    BY <2>4 DEF QueueFull, Elsewhere, mainVars, schemaVars, history
  <2>5. CASE TaskPanics(t)
    BY <2>5 DEF TaskPanics, Elsewhere, mainVars, schemaVars, history
  <2> QED BY <1>7, <2>1, <2>2, <2>3, <2>4, <2>5 DEF Task
<1> QED BY <1>1, <1>2, <1>3, <1>4, <1>5, <1>6, <1>7 DEF Next

\* No two scripts are the same.
LEMMA ScriptsDiffer ==
  /\ Up # Down
  /\ \A v : Migrate(v) # Up /\ Migrate(v) # Down
  /\ \A v, w : Migrate(v) = Migrate(w) => v = w
  /\ Up[1] = "up" /\ Down[1] = "down"
  /\ \A v : Migrate(v)[1] = "migrate" /\ Migrate(v)[2] = v
  BY DEF Up, Down, Migrate

\* A change of pc outside the scripts keeps the invariant.
LEMMA ElsewhereInv ==
  ASSUME Inv, Elsewhere
  PROVE  Inv'
<1>1. /\ db' = db /\ script' = script /\ at' = at /\ version' = version
      /\ interrupted' = interrupted /\ first' = first /\ initialized' = initialized
  BY DEF Elsewhere
<1>2. CASE pc' = pc
  <2>1. ControlInv'
    BY <1>1, <1>2 DEF Inv, ControlInv, Running, Ready
  <2>2. ObjectsInv'
    BY <1>1, <1>2 DEF Inv, ObjectsInv, Settled, Running
  <2>3. FactsInv'
    BY <1>1, <1>2 DEF Inv, FactsInv, Kept, Running
  <2>4. FitInv'
    BY <1>1, <1>2 DEF Inv, FitInv, AtRest, Running
  <2> QED BY <2>1, <2>2, <2>3, <2>4 DEF Inv
<1>3. CASE Ready /\ Ready'
  <2>1. pc # "ddl" /\ pc' # "ddl" /\ pc' # "ladder"
    BY <1>3 DEF Ready
  <2>2. ControlInv'
    BY <1>1, <1>3, <2>1 DEF Inv, ControlInv, Running
  <2>3. ObjectsInv'
    BY <1>1, <2>1 DEF Inv, ObjectsInv, Settled, Running
  <2>4. FactsInv'
    BY <1>1, <2>1 DEF Inv, FactsInv, Kept, Running
  <2>5. FitInv'
    BY <1>1, <2>1 DEF Inv, FitInv, AtRest, Running
  <2> QED BY <2>2, <2>3, <2>4, <2>5 DEF Inv
<1> QED BY <1>2, <1>3 DEF Elsewhere

\* "Schema is up to date" is said of version 23.
LEMMA UpToDateInv ==
  ASSUME Inv, UpToDate
  PROVE  Inv'
<1>1. /\ pc = "recheck" /\ pc' = "connect" /\ db' = db /\ db.version = SCHEMA_VERSION
      /\ interrupted' = interrupted /\ first' = first /\ initialized' = initialized
  BY DEF UpToDate, history
<1>2. ControlInv'
  BY <1>1 DEF Inv, ControlInv, Running
<1>3. ObjectsInv'
  BY <1>1 DEF Inv, ObjectsInv, Settled, Running
<1>4. FactsInv'
  BY <1>1 DEF Inv, FactsInv, Kept, Running
<1>5. FitInv'
  BY <1>1 DEF Inv, FitInv, AtRest, Running
<1> QED BY <1>2, <1>3, <1>4, <1>5 DEF Inv

\* A start reads the version or, with initialize_db, begins down.sql.
LEMMA StartInv ==
  ASSUME Inv, NEW f \in Flags, Start(f)
  PROVE  Inv'
<1>1. /\ pc = "down" /\ db' = db /\ version' = version
      /\ interrupted' = interrupted /\ first' = first
  BY DEF Start
<1>2. Kept' => Kept /\ ~f.initialize_db
  BY DEF Start, Kept
<1>3. CASE f.initialize_db
  <2>1. pc' = "ddl" /\ script' = Down /\ at' = 1
    BY <1>3 DEF Start, RunScript, Down
  <2>2. Running(Down)' /\ ~Running(Up)' /\ \A v : ~Running(Migrate(v))'
    BY <2>1, ScriptsDiffer DEF Running
  <2>3. ControlInv'
    BY <1>1, <2>1, <2>2 DEF Inv, ControlInv, Ready, Running
  <2>4. ObjectsInv'
    <3>1. DownGone(1, db)
      BY DEF DownGone
    <3> QED BY <1>1, <2>1, <2>2, <3>1 DEF Inv, ObjectsInv, Settled, Running
  <2>5. FactsInv'
    BY <1>2, <1>3 DEF FactsInv
  <2>6. FitInv'
    BY <1>1, <2>1, <2>2 DEF Inv, FitInv, AtRest, Running
  <2> QED BY <2>3, <2>4, <2>5, <2>6 DEF Inv
<1>4. CASE ~f.initialize_db
  <2>1. pc' = "select"
    BY <1>4 DEF Start
  <2>2. ControlInv'
    BY <1>1, <2>1 DEF Inv, ControlInv, Ready, Running
  <2>3. ObjectsInv'
    BY <1>1, <2>1 DEF Inv, ObjectsInv, Settled, Running
  <2>4. FactsInv'
    BY <1>1, <1>2, <2>1 DEF Inv, FactsInv, Running
  <2>5. FitInv'
    BY <1>1, <2>1 DEF Inv, FitInv, AtRest, Running
  <2> QED BY <2>2, <2>3, <2>4, <2>5 DEF Inv
<1> QED BY <1>3, <1>4

\* The version read is the one of the database; else up.sql begins.
LEMMA SelectVersionInv ==
  ASSUME Inv, NEW ok \in BOOLEAN, SelectVersion(ok)
  PROVE  Inv'
<1>1. /\ pc = "select" /\ db' = db
      /\ interrupted' = interrupted /\ first' = first /\ initialized' = initialized
  BY DEF SelectVersion, history
<1>2. CASE ok /\ db.version # NoVersion
  <2>1. pc' = "ladder" /\ version' = db.version
    BY <1>2 DEF SelectVersion
  <2>2. ControlInv'
    BY <1>1, <2>1 DEF Inv, ControlInv, Ready, Running
  <2>3. ObjectsInv'
    BY <1>1, <2>1 DEF Inv, ObjectsInv, Settled, Running
  <2>4. FactsInv'
    BY <1>1, <2>1 DEF Inv, FactsInv, Kept, Running
  <2>5. FitInv'
    BY <1>1, <2>1 DEF Inv, FitInv, AtRest, Running
  <2> QED BY <2>2, <2>3, <2>4, <2>5 DEF Inv
<1>3. CASE ~(ok /\ db.version # NoVersion)
  <2>1. pc' = "ddl" /\ script' = Up /\ at' = 1
    BY <1>3 DEF SelectVersion, RunScript, Up
  <2>2. Running(Up)' /\ ~Running(Down)' /\ \A v : ~Running(Migrate(v))'
    BY <2>1, ScriptsDiffer DEF Running
  <2>3. ControlInv'
    BY <1>1, <2>1, <2>2 DEF Inv, ControlInv, Ready, Running
  <2>4. ObjectsInv'
    <3>1. UpMade(1, db)
      BY DEF UpMade
    <3> QED BY <1>1, <2>1, <2>2, <3>1 DEF Inv, ObjectsInv, Settled, Running
  <2>5. FactsInv'
    BY <1>1, <2>1, <2>2 DEF Inv, FactsInv, Kept
  <2>6. FitInv'
    BY <1>1, <2>1, <2>2 DEF Inv, FitInv, AtRest, Running
  <2> QED BY <2>3, <2>4, <2>5, <2>6 DEF Inv
<1> QED BY <1>2, <1>3

\* The ladder runs the migration of the version that the database has.
LEMMA LadderInv ==
  ASSUME Inv, Ladder
  PROVE  Inv'
<1>1. /\ pc = "ladder" /\ db' = db /\ version' = version /\ version = db.version
      /\ interrupted' = interrupted /\ first' = first /\ initialized' = initialized
  BY DEF Ladder, history, Inv, ControlInv
<1>2. CASE version \in Migrated
  <2>1. pc' = "ddl" /\ script' = Migrate(version) /\ at' = 1
    BY <1>2 DEF Ladder, RunScript, Migrate
  <2>2. /\ Running(Migrate(version))' /\ ~Running(Up)' /\ ~Running(Down)'
        /\ \A v : Running(Migrate(v))' => v = version
    BY <1>1, <2>1, ScriptsDiffer DEF Running
  <2>3. /\ VersionAt(version, 1) = version
        /\ ObjectsIn(version, 1, db)
        /\ FactsOf(db) => FactsIn(version, 1, db)
    BY <1>1, <1>2, MigrationStarts
  <2>4. ControlInv'
    <3>1. 1 \in 1..Size(version) + 1
      BY <1>2, ScriptLengths
    <3> QED BY <1>1, <1>2, <2>1, <2>2, <2>3, <3>1 DEF Inv, ControlInv, Ready
  <2>5. ObjectsInv'
    BY <1>1, <2>1, <2>2, <2>3 DEF Inv, ObjectsInv, Settled, Running
  <2>6. FactsInv'
    BY <1>1, <2>1, <2>2, <2>3 DEF Inv, FactsInv, Kept
  <2>7. FitInv'
    BY <1>1, <1>2, <2>1, <2>2 DEF Inv, FitInv, AtRest
  <2> QED BY <2>4, <2>5, <2>6, <2>7 DEF Inv
<1>3. CASE version \notin Migrated
  <2>1. pc' = "recheck"
    BY <1>3 DEF Ladder
  <2>2. ControlInv'
    BY <1>1, <2>1 DEF Inv, ControlInv, Ready, Running
  <2>3. ObjectsInv'
    BY <1>1, <2>1 DEF Inv, ObjectsInv, Settled, Running
  <2>4. FactsInv'
    BY <1>1, <2>1 DEF Inv, FactsInv, Kept, Running
  <2>5. FitInv'
    BY <1>1, <2>1 DEF Inv, FitInv, AtRest, Running
  <2> QED BY <2>2, <2>3, <2>4, <2>5 DEF Inv
<1> QED BY <1>2, <1>3

\* A script is one of up.sql, down.sql and the migrations, at one of its places.
LEMMA ScriptCases ==
  ASSUME Inv, pc = "ddl"
  PROVE  \/ Running(Up) /\ Statements(script) = up /\ Len(Statements(script)) = 10
         \/ Running(Down) /\ Statements(script) = down /\ Len(Statements(script)) = 10
         \/ \E v \in Migrated : /\ Running(Migrate(v)) /\ Statements(script) = Migration(v)
                                /\ Len(Statements(script)) = Size(v)
<1>1. CASE script = Up
  BY <1>1, Scripts, ScriptLengths DEF Running, Up
<1>2. CASE script = Down
  BY <1>2, Scripts, ScriptLengths DEF Running, Down
<1>3. ASSUME NEW v \in Migrated, script = Migrate(v)
      PROVE  /\ Running(Migrate(v)) /\ Statements(script) = Migration(v)
             /\ Len(Statements(script)) = Size(v)
  BY <1>3, Scripts DEF Running, Migrate, Size
<1> QED BY <1>1, <1>2, <1>3 DEF Inv, ControlInv

\* A statement of a script keeps the invariant, whichever script it is.
LEMMA ExecuteStatementInv ==
  ASSUME Inv, ExecuteStatement
  PROVE  Inv'
<1>1. /\ pc = "ddl" /\ pc' = "ddl" /\ script' = script /\ at' = at + 1
      /\ interrupted' = interrupted /\ first' = first /\ initialized' = initialized
      /\ version' = version
  BY DEF ExecuteStatement, history
<1>2. /\ at <= Len(Statements(script)) /\ ~Fails(db, Statements(script)[at])
      /\ db' = Execute(db, Statements(script)[at])
  BY DEF ExecuteStatement
<1>3. Database(db)
  BY DEF Inv, ControlInv
<1>4. ~Ready'
  BY <1>1 DEF Ready
<1>5. CASE Running(Up) /\ Statements(script) = up /\ Len(Statements(script)) = 10
  <2>1. at \in 1..10
    BY <1>2, <1>5 DEF Inv, ControlInv
  <2>2. /\ Database(db')
        /\ db'.version = IF at = 2 THEN SCHEMA_VERSION ELSE db.version
        /\ at = 1 => ~Has(db, Vars, Whole)
        /\ Has(db, Vars, Whole) => Has(db', Vars, Whole)
        /\ UpMade(at, db) => UpMade(at + 1, db')
        /\ UpFree(at, db) => UpFree(at + 1, db')
        /\ RowTyped(db) => RowTyped(db')
    BY <1>2, <1>3, <1>5, <2>1, up_Step
  <2>3. Running(Up)' /\ ~Running(Down)' /\ \A v : ~Running(Migrate(v)) /\ ~Running(Migrate(v))'
    BY <1>1, <1>5, ScriptsDiffer DEF Running
  <2>4. at = 1 => db.version = NoVersion
    BY <2>2 DEF Inv, ControlInv
  <2>5. UpMade(at + 1, db')
    BY <1>5, <2>2 DEF Inv, ObjectsInv
  <2>6. Has(db', Vars, Whole)
    BY <2>1, <2>5 DEF UpMade
  <2>7. ControlInv'
    BY <1>1, <1>4, <1>5, <2>1, <2>2, <2>3, <2>4, <2>6 DEF Inv, ControlInv, Running
  <2>8. ObjectsInv'
    <3>1. ~Settled'
      BY <1>1, <2>1, <2>3 DEF Settled
    <3> QED BY <1>1, <2>3, <2>5, <3>1 DEF ObjectsInv
  <2>9. FactsInv'
    <3>1. Kept => at = 1 /\ db.version # NoVersion
      BY <1>5 DEF Inv, FactsInv, FactsOf, NoVersion, Migrated, SCHEMA_VERSION
    <3>2. Kept' => Kept
      BY <1>1 DEF Kept
    <3> QED BY <2>4, <3>1, <3>2 DEF FactsInv
  <2>10. FitInv'
    <3>1. SUFFICES ASSUME interrupted = {}
                   PROVE  UpFree(at + 1, db') /\ RowTyped(db')
      BY <1>1, <2>1, <2>3 DEF FitInv, AtRest
    <3>2. UpFree(at, db)
      BY <1>1, <1>5, <2>1, <2>4, <3>1 DEF Inv, FitInv, AtRest
    <3>3. RowTyped(db)
      <4>1. CASE at <= 2
        BY <2>1, <3>2, <4>1 DEF UpFree, RowTyped, Lacks
      <4>2. CASE at > 2
        BY <1>5, <2>3, <3>1, <4>2 DEF Inv, ControlInv, FitInv, SCHEMA_VERSION
      <4> QED BY <2>1, <4>1, <4>2
    <3> QED BY <2>2, <3>2, <3>3
  <2> QED BY <2>7, <2>8, <2>9, <2>10 DEF Inv
<1>6. CASE Running(Down) /\ Statements(script) = down /\ Len(Statements(script)) = 10
  <2>1. at \in 1..10
    BY <1>2, <1>6 DEF Inv, ControlInv
  <2>2. /\ Database(db')
        /\ db'.version = IF at = 10 THEN NoVersion ELSE db.version
        /\ at # 10 => (Has(db, Vars, Whole) => Has(db', Vars, Whole))
        /\ DownGone(at, db) => DownGone(at + 1, db')
        /\ RowTyped(db) => RowTyped(db')
    BY <1>2, <1>3, <1>6, <2>1, down_Step
  <2>3. Running(Down)' /\ ~Running(Up)' /\ \A v : ~Running(Migrate(v)) /\ ~Running(Migrate(v))'
    BY <1>1, <1>6, ScriptsDiffer DEF Running
  <2>4. ControlInv'
    BY <1>1, <1>4, <1>6, <2>1, <2>2, <2>3 DEF Inv, ControlInv, Running
  <2>5. ObjectsInv'
    <3>1. ~Settled'
      BY <1>1, <2>1, <2>3 DEF Settled
    <3> QED BY <1>1, <1>6, <2>2, <2>3, <3>1 DEF Inv, ObjectsInv
  <2>6. FactsInv'
    BY <1>1, <1>6 DEF Inv, FactsInv, Kept
  <2>7. FitInv'
    <3>1. SUFFICES ASSUME interrupted = {}, db'.version >= 20
                   PROVE  RowTyped(db')
      BY <1>1, <2>1, <2>3 DEF FitInv, AtRest
    <3>2. db.version >= 20
      BY <2>2, <3>1 DEF NoVersion
    <3> QED BY <2>2, <2>3, <3>1, <3>2 DEF Inv, FitInv
  <2> QED BY <2>4, <2>5, <2>6, <2>7 DEF Inv
<1>7. ASSUME NEW v \in Migrated, Running(Migrate(v)), Statements(script) = Migration(v),
             Len(Statements(script)) = Size(v)
      PROVE  Inv'
  <2>1. at \in 1..Size(v) /\ db.version = VersionAt(v, at) /\ Size(v) \in Nat
    BY <1>2, <1>7, ScriptLengths DEF Inv, ControlInv
  <2>2. StepTo(v, at, db, db')
    BY <1>2, <1>3, <1>7, <2>1, MigrationStep
  <2>3. /\ Running(Migrate(v))' /\ \A w : Running(Migrate(w))' => w = v
        /\ ~Running(Up)' /\ ~Running(Down)' /\ ~Running(Up) /\ ~Running(Down)
    BY <1>1, <1>7, ScriptsDiffer DEF Running
  <2>4. VersionAt(v, at) # NoVersion
    BY <2>1, ScriptLengths DEF VersionAt, NextVersion, NoVersion, Migrated
  <2>5. ControlInv'
    <3>1. Has(db', Vars, Whole)
      BY <2>1, <2>2, <2>4 DEF Inv, ControlInv, StepTo
    <3>2. at' \in 1..Size(v) + 1 /\ db'.version = VersionAt(v, at')
      BY <1>1, <2>1, <2>2 DEF StepTo
    <3> QED BY <1>1, <1>4, <1>7, <2>2, <2>3, <3>1, <3>2 DEF ControlInv, Running, StepTo
  <2>6. ObjectsInv'
    <3>1. Settled' => Settled
      BY <1>1, <2>3 DEF Settled
    <3>2. Settled => Objects(db') /\ ObjectsIn(v, at', db')
      BY <1>1, <1>7, <2>2 DEF Inv, ObjectsInv, StepTo
    <3> QED BY <2>3, <3>1, <3>2 DEF ObjectsInv
  <2>7. FactsInv'
    <3>1. Kept' => Kept
      BY <1>1 DEF Kept
    <3>2. Kept => FactsOf(db') /\ FactsIn(v, at', db')
      BY <1>1, <1>7, <2>2 DEF Inv, FactsInv, StepTo
    <3> QED BY <2>3, <3>1, <3>2 DEF FactsInv
  <2>8. FitInv'
    <3>1. interrupted = {} => Fit(Point(v, at'), db')
      BY <1>1, <1>7, <2>2 DEF Inv, FitInv, StepTo
    <3>2. ~AtRest'
      BY <1>1, <2>1 DEF AtRest
    <3> QED BY <1>1, <2>3, <3>1, <3>2 DEF FitInv
  <2> QED BY <2>5, <2>6, <2>7, <2>8 DEF Inv
<1> QED BY <1>1, <1>5, <1>6, <1>7, ScriptCases

\* The end of a script: a finished up.sql or down.sql settles the schema, and a
\* finished migration leaves the version whose migration comes next.
LEMMA ScriptDoneInv ==
  ASSUME Inv, ScriptDone
  PROVE  Inv'
<1>1. /\ pc = "ddl" /\ db' = db /\ first' = first /\ initialized' = initialized
      /\ at > Len(Statements(script))
      /\ interrupted' = IF script[1] = "down" THEN {} ELSE interrupted
  BY DEF ScriptDone
<1>2. CASE Running(Up) /\ Len(Statements(script)) = 10
  <2>1. script[1] = "up" /\ at = 11
    BY <1>1, <1>2, ScriptsDiffer DEF Inv, ControlInv, Running
  <2>2. pc' = "connect" /\ interrupted' = interrupted
    BY <1>1, <2>1 DEF ScriptDone
  <2>3. UpMade(11, db) /\ db.version = SCHEMA_VERSION
    BY <1>2, <2>1 DEF Inv, ControlInv, ObjectsInv
  <2>4. Objects(db) /\ RowTyped(db)
    BY <2>3, UpToObjects
  <2>5. ControlInv'
    BY <1>1, <2>2, <2>3 DEF Inv, ControlInv, Running
  <2>6. ObjectsInv'
    BY <1>1, <2>2, <2>4 DEF ObjectsInv, Running
  <2>7. FactsInv'
    BY <1>1, <1>2, <2>1 DEF Inv, FactsInv, Kept
  <2>8. FitInv'
    BY <1>1, <2>2, <2>3, <2>4 DEF FitInv, Running, SCHEMA_VERSION, NoVersion, Migrated
  <2> QED BY <2>5, <2>6, <2>7, <2>8 DEF Inv
<1>3. CASE Running(Down) /\ Len(Statements(script)) = 10
  <2>1. script[1] = "down" /\ at = 11
    BY <1>1, <1>3, ScriptsDiffer DEF Inv, ControlInv, Running
  <2>2. pc' = "select" /\ interrupted' = {}
    BY <1>1, <2>1 DEF ScriptDone
  <2>3. DownGone(11, db) /\ db.version = NoVersion
    BY <1>3, <2>1 DEF Inv, ControlInv, ObjectsInv
  <2>4. UpFree(1, db)
    BY <2>3, DownToUp
  <2>5. ControlInv'
    BY <1>1, <2>2, <2>3 DEF Inv, ControlInv, Running, Ready
  <2>6. ObjectsInv'
    <3>1. Objects(db)
      BY <2>3 DEF DownGone, Lacks, Objects, NoVersion
    <3> QED BY <1>1, <2>2, <3>1 DEF ObjectsInv, Running
  <2>7. FactsInv'
    BY <1>1, <1>3 DEF Inv, FactsInv, Kept
  <2>8. FitInv'
    BY <1>1, <2>2, <2>3, <2>4 DEF FitInv, Running, NoVersion, Migrated
  <2> QED BY <2>5, <2>6, <2>7, <2>8 DEF Inv
<1>4. ASSUME NEW v \in Migrated, Running(Migrate(v)), Len(Statements(script)) = Size(v)
      PROVE  Inv'
  <2>1. script[1] = "migrate" /\ script[2] = v
    BY <1>4, ScriptsDiffer DEF Running
  <2>2. at = Size(v) + 1
    BY <1>1, <1>4, ScriptLengths DEF Inv, ControlInv
  <2>3. pc' = "ladder" /\ version' = NextVersion(v) /\ interrupted' = interrupted
    BY <1>1, <2>1 DEF ScriptDone
  <2>4. db.version = NextVersion(v)
    BY <1>4, <2>2, MigrationEnds DEF Inv, ControlInv
  <2>5. ~Running(Up) /\ ~Running(Down)
    BY <1>4, ScriptsDiffer DEF Running
  <2>6. ControlInv'
    BY <1>1, <2>3, <2>4 DEF Inv, ControlInv, Running, Ready
  <2>7. ObjectsInv'
    BY <1>1, <2>3, <2>5 DEF Inv, ObjectsInv, Settled, Running
  <2>8. FactsInv'
    BY <1>1, <2>3 DEF Inv, FactsInv, Kept, Running
  <2>9. FitInv'
    <3>1. interrupted = {} => Fit(Point(v, Size(v) + 1), db)
      BY <1>4, <2>2 DEF Inv, FitInv
    <3>2. interrupted = {} /\ db.version \in Migrated => Fit(Point(db.version, 1), db)
      BY <2>4, <3>1, NextScriptFits, MigrationEnds
    <3>3. interrupted = {} /\ db.version >= 20 => RowTyped(db)
      BY <2>4, <3>1, NextScriptFits, MigrationEnds
    <3>4. db.version # NoVersion
      BY <2>4, MigrationEnds DEF NoVersion
    <3> QED BY <1>1, <2>3, <3>2, <3>3, <3>4 DEF FitInv, Running
  <2> QED BY <2>6, <2>7, <2>8, <2>9 DEF Inv
<1> QED BY <1>1, <1>2, <1>3, <1>4, ScriptCases

\* The end of the process, anywhere: a script that was not through is recorded,
\* and what it left is what its version guarantees.
LEMMA ProcessEndsInv ==
  ASSUME Inv, ProcessEnds
  PROVE  Inv'
<1>1. pc' = "down" /\ first' = first /\ initialized' = initialized
  BY DEF ProcessEnds
<1>2. interrupted' = IF pc = "ddl" /\ 1 < at /\ at <= Len(Statements(script))
                     THEN interrupted \cup {script} ELSE interrupted
  BY DEF ProcessEnds
<1>3. DroppedIfExists(db, db', "subnetwork_compressed")
  BY EndOfSession DEF ProcessEnds, Inv, ControlInv
<1>4. /\ Database(db') /\ db'.version = db.version
      /\ Has(db, Vars, Whole) => Has(db', Vars, Whole)
      /\ Objects(db) => Objects(db')
      /\ FactsOf(db) => FactsOf(db')
      /\ UpFree(1, db) => UpFree(1, db')
      /\ RowTyped(db) => RowTyped(db')
      /\ \A v \in Migrated : Fit(Point(v, 1), db) => Fit(Point(v, 1), db')
  BY <1>3, EndOfSessionKeeps
<1>5. ControlInv'
  BY <1>1, <1>4 DEF Inv, ControlInv, Running, Ready
<1>6. FactsInv'
  BY <1>1, <1>4 DEF Inv, FactsInv, Kept, Running
<1>7. ObjectsInv'
  <2>1. SUFFICES ASSUME Up \notin interrupted', Down \notin interrupted'
                 PROVE  Objects(db)
    BY <1>1, <1>4 DEF ObjectsInv, Settled, Running
  <2>2. Up \notin interrupted /\ Down \notin interrupted
    BY <1>2, <2>1
  <2>3. CASE Settled
    BY <2>3 DEF Inv, ObjectsInv
  <2>4. CASE Running(Up) /\ at # 1
    <3>1. Len(Statements(script)) = 10
      BY <2>4, Scripts, ScriptLengths DEF Running, Up
    <3>2. at = 11
      BY <1>2, <2>1, <2>4, <3>1 DEF Running, Inv, ControlInv
    <3> QED BY <2>4, <3>2, UpToObjects DEF Inv, ObjectsInv
  <2>5. CASE Running(Down) /\ at # 1
    <3>1. Len(Statements(script)) = 10
      BY <2>5, Scripts, ScriptLengths DEF Running, Down
    <3>2. at = 11
      BY <1>2, <2>1, <2>5, <3>1 DEF Running, Inv, ControlInv
    <3>3. DownGone(11, db) /\ db.version = NoVersion
      BY <2>5, <3>2 DEF Inv, ControlInv, ObjectsInv
    <3> QED BY <3>3 DEF DownGone, Lacks, Objects, NoVersion
  <2> QED BY <2>2, <2>3, <2>4, <2>5 DEF Settled
<1>8. FitInv'
  <2>1. SUFFICES ASSUME interrupted' = {}
                 PROVE  /\ \A v \in Migrated : db.version = v => Fit(Point(v, 1), db)
                        /\ db.version >= 20 => RowTyped(db)
                        /\ db.version = NoVersion => UpFree(1, db)
    BY <1>1, <1>4 DEF FitInv, Running
  <2>2. interrupted = {} /\ ~(pc = "ddl" /\ 1 < at /\ at <= Len(Statements(script)))
    BY <1>2, <2>1
  <2>3. CASE pc # "ddl"
    BY <2>2, <2>3 DEF Inv, FitInv, AtRest, Running
  <2>4. CASE Running(Up) /\ Len(Statements(script)) = 10
    <3>1. \A v : ~Running(Migrate(v))
      BY <2>4, ScriptsDiffer DEF Running
    <3>2. CASE at = 1
      BY <2>2, <3>1, <3>2 DEF Inv, FitInv, AtRest
    <3>3. CASE at = 11
      <4>1. UpMade(11, db) /\ db.version = SCHEMA_VERSION
        BY <2>4, <3>3 DEF Inv, ControlInv, ObjectsInv
      <4> QED BY <4>1, UpToObjects DEF SCHEMA_VERSION, NoVersion, Migrated
    <3> QED BY <2>2, <2>4, <3>2, <3>3 DEF Running, Inv, ControlInv
  <2>5. CASE Running(Down) /\ Len(Statements(script)) = 10
    <3>1. \A v : ~Running(Migrate(v))
      BY <2>5, ScriptsDiffer DEF Running
    <3>2. CASE at = 1
      BY <2>2, <3>1, <3>2 DEF Inv, FitInv, AtRest
    <3>3. CASE at = 11
      <4>1. DownGone(11, db) /\ db.version = NoVersion
        BY <2>5, <3>3 DEF Inv, ControlInv, ObjectsInv
      <4> QED BY <4>1, DownToUp DEF NoVersion, Migrated
    <3> QED BY <2>2, <2>5, <3>2, <3>3 DEF Running, Inv, ControlInv
  <2>6. ASSUME NEW v \in Migrated, Running(Migrate(v)), Len(Statements(script)) = Size(v)
        PROVE  /\ \A w \in Migrated : db.version = w => Fit(Point(w, 1), db)
               /\ db.version >= 20 => RowTyped(db)
               /\ db.version = NoVersion => UpFree(1, db)
    <3>1. at \in 1..Size(v) + 1 /\ db.version = VersionAt(v, at) /\ Fit(Point(v, at), db)
      BY <2>2, <2>6 DEF Inv, ControlInv, FitInv
    <3>2. CASE at = 1
      <4>1. db.version = v /\ Fit(Point(v, 1), db)
        BY <3>1, <3>2, ScriptLengths DEF VersionAt
      <4>2. v >= 20 => RowTyped(db)
        <5> DEFINE p == Point(v, 1)
        <5>1. p \in Nat /\ (v >= 20 => p > 209)
          BY DEF Point, Migrated
        <5>2. Fit(p, db)
          BY <4>1
        <5> HIDE DEF p
        <5> QED BY <5>1, <5>2 DEF Fit, RowTyped
      <4> QED BY <4>1, <4>2 DEF NoVersion, Migrated
    <3>3. CASE at = Size(v) + 1
      <4>1. db.version = NextVersion(v) /\ Fit(Point(v, Size(v) + 1), db)
        BY <3>1, <3>3, MigrationEnds
      <4> QED BY <4>1, NextScriptFits, MigrationEnds DEF NoVersion
    <3> QED BY <2>2, <2>6, <3>1, <3>2, <3>3, ScriptLengths DEF Running
  <2> QED BY <2>3, <2>4, <2>5, <2>6, ScriptCases
<1> QED BY <1>5, <1>6, <1>7, <1>8 DEF Inv

\* Every step preserves the invariant.
LEMMA NextInv ==
  ASSUME Inv, [Next]_vars
  PROVE  Inv'
  BY StepCases, StartInv, SelectVersionInv, LadderInv, ExecuteStatementInv, ScriptDoneInv,
     UpToDateInv, ProcessEndsInv, ElsewhereInv

-----------------------------------------------------------------------------
(***************************************************************************)
(* What the invariant shows                                                *)
(***************************************************************************)

\* Version 23, as its guarantees have it, is the current schema.
LEMMA Version23IsCurrent ==
  ASSUME NEW d, Objects(d), d.version = SCHEMA_VERSION, Has(d, Vars, Whole)
  PROVE  Current \subseteq d.objects /\ Keyed(d)
<1>1. d.version = 23
  BY DEF SCHEMA_VERSION
<1>2. UpMade(11, d)
  BY <1>1 DEF Objects, UpMade, TxTypes, HasAll
<1> QED BY <1>2, CurrentObjects

\* ... and holds every fact where the current version looks for it, but for
\* transactions of blocks that are not stored.
LEMMA Version23IsHome ==
  ASSUME NEW d, Objects(d), FactsOf(d), d.version = SCHEMA_VERSION
  PROVE  \A h \in Home : Joined(h[1]) => h \in d.held
<1>1. d.version = 23
  BY DEF SCHEMA_VERSION
<1>2. Has(d, "transactions", Whole) /\ Has(d, "blocks", Whole)
  BY <1>1 DEF Objects, HasAll, TxColumns
<1>3. /\ At(d, "block", "blocks", Whole)
      /\ At(d, "parents", "block_parent", Whole)
      /\ TxAll(d, "transactions")
      /\ Joined("block_transactions")
            => At(d, "block_transactions", "blocks", "transaction_ids")
      /\ At(d, "acceptance", "transactions_acceptances", Whole)
      /\ At(d, "address", "addresses_transactions", Whole)
  BY <1>1, <1>2 DEF FactsOf
<1> QED BY <1>3 DEF Home, At, TxAll, Table

\* Each fact is somewhere, whatever the version, with the same exception.
LEMMA FactsAreHeld ==
  ASSUME NEW d, FactsOf(d), NEW f \in Facts, Joined(f)
  PROVE  \E h \in d.held : h[1] = f
<1>1. f \in {"block", "parents", "transaction", "subnetwork", "subnetwork_names", "inputs",
             "outputs", "block_transactions", "acceptance", "address"}
  BY DEF Facts, Version1
<1>2. \/ d.version = 1
      \/ d.version >= 2 /\ d.version <= 10
      \/ d.version = 20
      \/ d.version >= 21
  BY DEF FactsOf, Migrated, SCHEMA_VERSION
<1>3. \E t, c : At(d, "parents", t, c)
  <2>1. d.version = 1 \/ d.version >= 2
    BY DEF FactsOf, Migrated, SCHEMA_VERSION
  <2>2. At(d, "parents", "blocks", "parents") \/ At(d, "parents", "block_parent", Whole)
    BY <2>1 DEF FactsOf
  <2> QED BY <2>2
<1>4. \E t, c : At(d, "transaction", t, c)
  BY <1>2 DEF FactsOf, TxOld, TxKept, TxAll
<1>5. \E t, c : At(d, "subnetwork", t, c)
  BY <1>2 DEF FactsOf, TxOld, TxKept, TxAll
<1>6. \E t, c : At(d, "subnetwork_names", t, c)
  BY <1>2 DEF FactsOf, TxKept, TxAll
<1>7. \E t, c : At(d, "inputs", t, c)
  BY <1>2 DEF FactsOf, TxOld, TxKept, TxAll
<1>8. \E t, c : At(d, "outputs", t, c)
  BY <1>2 DEF FactsOf, TxOld, TxKept, TxAll
<1>9. /\ \E t, c : At(d, "block", t, c)
      /\ Joined("block_transactions") => \E t, c : At(d, "block_transactions", t, c)
      /\ \E t, c : At(d, "acceptance", t, c)
      /\ \E t, c : At(d, "address", t, c)
  BY DEF FactsOf
<1>10. PICK t, c : At(d, f, t, c)
  BY <1>1, <1>3, <1>4, <1>5, <1>6, <1>7, <1>8, <1>9
<1>11. <<f, <<t, c>> >> \in d.held /\ <<f, <<t, c>> >>[1] = f
  BY <1>10 DEF At
<1> QED BY <1>11

\* The invariant implies that what the tasks work on is complete,
LEMMA InvComplete ==
  ASSUME Inv
  PROVE  UpgradeIsComplete
<1>1. SUFFICES ASSUME Up \notin interrupted, Down \notin interrupted, Ready
               PROVE  Complete
  BY DEF UpgradeIsComplete, Up, Down
<1>2. pc # "ddl" /\ db.version = SCHEMA_VERSION
  BY <1>1 DEF Inv, ControlInv, Ready
<1>3. Settled
  BY <1>1, <1>2 DEF Settled, Running
<1>4. Objects(db) /\ Has(db, Vars, Whole)
  BY <1>2, <1>3 DEF Inv, ControlInv, ObjectsInv, SCHEMA_VERSION, NoVersion
<1>5. Current \subseteq db.objects /\ Keyed(db)
  BY <1>2, <1>4, Version23IsCurrent
<1>6. Kept => \A h \in Home : Joined(h[1]) => h \in db.held
  BY <1>2, <1>4, Version23IsHome DEF Inv, FactsInv
<1> QED BY <1>5, <1>6 DEF Complete, Kept

\* ... that no fact is lost,
LEMMA InvDataKept ==
  ASSUME Inv
  PROVE  DataKept
  BY FactsAreHeld DEF Inv, FactsInv, Kept, DataKept

\* ... and that no script stops half way.
LEMMA InvFit ==
  ASSUME Inv
  PROVE  MigrationsFit
<1>1. SUFFICES ASSUME pc = "ddl", at <= Len(Statements(script)),
                      Fails(db, Statements(script)[at]), interrupted = {}
               PROVE  \/ script[1] = "up" /\ at = 1 /\ db.version # NoVersion
                      \/ script[1] = "down" /\ db.version < 20
                      \/ script = <<"migrate", 20>> /\ "transaction" \in NoRows
  BY DEF MigrationsFit, Refused
<1>2. db.version \in Nat
  BY DEF Inv, ControlInv, Database
<1>3. CASE Running(Up) /\ Statements(script) = up /\ Len(Statements(script)) = 10
  <2>1. at \in 1..10 /\ UpMade(at, db)
    BY <1>1, <1>3 DEF Inv, ControlInv, ObjectsInv
  <2>2. ~UpFree(at, db)
    BY <1>1, <1>3, <2>1, up_Fits
  <2>3. at = 1 /\ db.version # NoVersion
    BY <1>1, <1>3, <2>1, <2>2 DEF Inv, FitInv, AtRest
  <2>4. script[1] = "up"
    BY <1>3, ScriptsDiffer DEF Running
  <2> QED BY <2>3, <2>4
<1>4. CASE Running(Down) /\ Statements(script) = down /\ Len(Statements(script)) = 10
  <2>1. at \in 1..10
    BY <1>1, <1>4 DEF Inv, ControlInv
  <2>2. ~RowTyped(db)
    BY <1>1, <1>4, <2>1, down_Fits
  <2>3. \A v : ~Running(Migrate(v))
    BY <1>4, ScriptsDiffer DEF Running
  <2>4. db.version < 20
    BY <1>1, <1>2, <2>2, <2>3 DEF Inv, FitInv
  <2>5. script[1] = "down"
    BY <1>4, ScriptsDiffer DEF Running
  <2> QED BY <2>4, <2>5
<1>5. ASSUME NEW v \in Migrated, Running(Migrate(v)), Statements(script) = Migration(v),
             Len(Statements(script)) = Size(v)
      PROVE  script = <<"migrate", 20>> /\ "transaction" \in NoRows
  <2>1. at \in 1..Size(v)
    BY <1>1, <1>5, ScriptLengths DEF Inv, ControlInv
  <2>2. Fit(Point(v, at), db)
    BY <1>1, <1>5 DEF Inv, FitInv
  <2>3. v = 20 /\ "transaction" \in NoRows
    BY <1>1, <1>5, <2>1, <2>2, MigrationFits
  <2> QED BY <1>5, <2>3 DEF Running, Migrate
<1> QED BY <1>1, <1>3, <1>4, <1>5, ScriptCases

\* The invariant holds in every state.
THEOREM SchemaInvariant == Spec => []Inv
<1>1. Init => Inv
  BY InitInv
<1>2. Inv /\ [Next]_vars => Inv'
  BY NextInv
<1> QED BY <1>1, <1>2, PTL DEF Spec

\* The tasks start on a complete schema only, after any number of starts, crashes
\* and refused statements: version 23 has every object that the queries use, and
\* every fact of version 1 where they look for it, whichever tables have rows,
\* unless up.sql or down.sql was interrupted.
\* (create_schema, execute_ddl and the migration scripts)
THEOREM SchemaIsComplete == Spec => []UpgradeIsComplete
<1>1. Inv => UpgradeIsComplete
  BY InvComplete
<1> QED BY <1>1, SchemaInvariant, PTL

\* No sequence of crashes and repeated migrations loses a fact, but for transactions
\* of blocks that are not stored.
\* (the order of copies and drops in the migrations)
THEOREM NothingIsLost == Spec => []DataKept
<1>1. Inv => DataKept
  BY InvDataKept
<1> QED BY <1>1, SchemaInvariant, PTL

\* Without an interruption no statement of any migration is refused, from any
\* version on, but for the one of v20_to_v21 that needs a transaction.
\* (create_schema and the migration scripts)
THEOREM ScriptsFitTogether == Spec => []MigrationsFit
<1>1. Inv => MigrationsFit
  BY InvFit
<1> QED BY <1>1, SchemaInvariant, PTL

=============================================================================
