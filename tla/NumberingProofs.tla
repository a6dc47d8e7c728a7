--------------------------- MODULE NumberingProofs ---------------------------
(***************************************************************************)
(* What the unique index and the MAX + 1 idiom of Numbering guarantee for  *)
(* any number of requests and businesses.                                  *)
(***************************************************************************)
EXTENDS Numbering, FiniteSetTheorems, TLAPS

(* What a creation knows of its number once it has one: the numbers before *)
(* it are in the table.  It stays so because nothing is deleted.           *)
Kept == ~Counted /\ ~series.deletable
Preceded ==
  Kept => \A r \in Requests : pc[r] \in {"inserting", "inserted"} =>
            \A n \in 1 .. number[r] - 1 : n \in NumbersOf(business[r])

(* A row that is inserted but not committed clashes with no other row.     *)
Reserved ==
  /\ \A r \in Requests : pc[r] = "inserted" =>
       \A d \in documents : ~Clash(business[r], number[r], d.business, d.number)
  /\ \A r, s \in Requests : pc[r] = "inserted" /\ pc[s] = "inserted" /\ r # s =>
       ~ClashesWith(r, s)

(* Creations that never overlap number the documents in the order of their *)
(* dates, so that the newest has the highest number.                       *)
OneByOne == \A r, s \in Creating : r = s
InOrder ==
  /\ \A d \in documents : d.at < clock
  /\ \A d, e \in documents :
       d.business = e.business /\ d.at <= e.at => d.number <= e.number
Highest ==
  \A r \in Requests : pc[r] \in {"inserting", "inserted"} =>
    \A d \in Of(business[r]) : d.number < number[r]
Sequenced == Alone /\ ~Counted => OneByOne /\ InOrder /\ Highest

(* The inductive invariant: what creations rely on when they insert.       *)
Ordered == TypeOK /\ Reserved /\ Sequenced /\ NumbersDistinct

-----------------------------------------------------------------------------
(* Creations, in whatever order they run, keep the columns of their table  *)
(* and know their business and number when they insert.                    *)
THEOREM TypeCorrect == Spec => []TypeOK
<1>1. Init => TypeOK
  BY NumberingAssumption DEF Init, TypeOK
<1>2. TypeOK /\ [Next]_vars => TypeOK'
  <2> SUFFICES ASSUME TypeOK, [Next]_vars PROVE TypeOK'
    OBVIOUS
  <2>1. ASSUME NEW r \in Requests, Arrive(r) PROVE TypeOK'
    BY <2>1 DEF TypeOK, Arrive
  <2>2. ASSUME NEW r \in Requests, GenerateNumber(r) PROVE TypeOK'
    BY <2>2, NumberingAssumption DEF TypeOK, GenerateNumber, Numbers
  <2>3. ASSUME NEW r \in Requests, Insert(r) PROVE TypeOK'
    BY <2>3 DEF TypeOK, Insert
  <2>4. ASSUME NEW r \in Requests, Refuse(r) PROVE TypeOK'
    BY <2>4 DEF TypeOK, Refuse
  <2>5. ASSUME NEW r \in Requests, Commit(r) PROVE TypeOK'
    <3>1. [business |-> business[r], number |-> number[r], at |-> clock] \in Document
      BY <2>5 DEF TypeOK, Commit, Document
    <3> QED BY <2>5, <3>1 DEF TypeOK, Commit
  <2>6. ASSUME NEW r \in Requests, Abort(r) PROVE TypeOK'
    BY <2>6 DEF TypeOK, Abort, Creating
  <2>7. ASSUME NEW d \in documents, Delete(d) PROVE TypeOK'
    BY <2>7 DEF TypeOK, Delete
  <2>8. CASE UNCHANGED vars
    BY <2>8 DEF TypeOK, vars
  <2> QED BY <2>1, <2>2, <2>3, <2>4, <2>5, <2>6, <2>7, <2>8 DEF Next
<1> QED BY <1>1, <1>2, PTL DEF Spec

(* A number that MAX + 1 or the newest + 1 gives to a creation that is     *)
(* alone is higher than all the numbers of its business.                   *)
LEMMA NextIsHighest ==
  ASSUME TypeOK, InOrder, ~Counted, NEW b \in Businesses, NEW n \in Numbers, NextNumber(b, n)
  PROVE  \A d \in Of(b) : d.number < n
<1>1. \A d \in documents : d.number \in Nat /\ d.at \in Nat
  BY DEF TypeOK, Document, Numbers
<1>2. CASE NextAfterHighest(b, n)
  BY <1>2 DEF NextAfterHighest, Follows, NumbersOf
<1>3. CASE NextAfterNewest(b, n)
  <2> SUFFICES ASSUME NEW e \in Of(b) PROVE e.number < n
    OBVIOUS
  <2>1. PICK d \in Of(b) : Newest(d, Of(b)) /\ n = d.number + 1
    BY <1>3 DEF NextAfterNewest
  <2>2. e.number <= d.number
    BY <2>1 DEF InOrder, Newest, Of
  <2> QED BY <1>1, <2>1, <2>2 DEF Of
<1> QED BY <1>2, <1>3 DEF NextNumber, Counted

(* Creations that come one by one stay so.                                 *)
LEMMA ArriveAlone ==
  ASSUME TypeOK, Alone, NEW r \in Requests, Arrive(r)
  PROVE  OneByOne'
<1>1. IsFiniteSet(Creating)
  BY NumberingAssumption, FS_Subset DEF Creating
<1>2. Creating = {}
  <2>1. Cardinality(Creating) \in Nat /\ Cardinality(Creating) < 1
    BY <1>1, FS_CardinalityType DEF Arrive, Alone
  <2> QED BY <1>1, <2>1, FS_EmptySet
<1>3. \A s \in Requests : s # r => pc'[s] = pc[s]
  BY DEF Arrive, TypeOK
<1> QED BY <1>2, <1>3 DEF OneByOne, Creating

(* However creations overlap, abort and are deleted, a row that waits for  *)
(* its commit has a number no other row clashes with; and a creation that  *)
(* is alone has a number above all those of its business.                  *)
THEOREM NumbersOrdered == Spec => []Ordered
<1> USE DEF Ordered
<1>1. Init => Ordered
  <2>1. Init => TypeOK
    BY NumberingAssumption DEF Init, TypeOK
  <2> QED BY <2>1 DEF Init, Reserved, NumbersDistinct, Sequenced, OneByOne, InOrder, Highest, Creating
<1>2. TypeOK' /\ Ordered /\ [Next]_vars => Ordered'
  <2> SUFFICES ASSUME TypeOK', Ordered, [Next]_vars
               PROVE  Reserved' /\ Sequenced' /\ NumbersDistinct'
    OBVIOUS
  <2> USE DEF Alone, Counted, Indexed
  <2>1. ASSUME NEW r \in Requests, Arrive(r) PROVE Reserved' /\ Sequenced' /\ NumbersDistinct'
    <3>1. Reserved' /\ NumbersDistinct'
      BY <2>1 DEF TypeOK, Arrive, Reserved, NumbersDistinct, ClashesWith, Clash
    <3>2. Sequenced'
      BY <2>1, ArriveAlone DEF TypeOK, Arrive, Sequenced, InOrder, Highest, Of
    <3> QED BY <3>1, <3>2
  <2>2. ASSUME NEW r \in Requests, GenerateNumber(r) PROVE Reserved' /\ Sequenced' /\ NumbersDistinct'
    <3>1. Reserved' /\ NumbersDistinct'
      BY <2>2 DEF TypeOK, GenerateNumber, Reserved, NumbersDistinct, ClashesWith, Clash
    <3>2. PICK n \in Numbers : NextNumber(business[r], n) /\ number' = [number EXCEPT ![r] = n]
      BY <2>2 DEF GenerateNumber
    <3>3. /\ pc[r] = "numbering" /\ pc' = [pc EXCEPT ![r] = "inserting"]
          /\ UNCHANGED <<series, documents, business, clock>>
      BY <2>2 DEF GenerateNumber
    <3>4. ASSUME Alone, ~Counted PROVE OneByOne' /\ InOrder' /\ Highest'
      <4>1. Creating' = Creating /\ r \in Creating
        BY <3>3 DEF Creating, TypeOK
      <4>2. OneByOne' /\ InOrder'
        BY <3>3, <3>4, <4>1 DEF Sequenced, OneByOne, InOrder
      <4>3. \A d \in Of(business[r]) : d.number < n
        BY <3>2, <3>3, <3>4, NextIsHighest DEF Sequenced, TypeOK
      <4>4. \A s \in Requests : s # r => pc'[s] = pc[s] /\ number'[s] = number[s]
        BY <3>2, <3>3 DEF TypeOK
      <4>5. number'[r] = n
        BY <3>2 DEF TypeOK
      <4>6. Highest'
        BY <3>3, <3>4, <4>3, <4>4, <4>5 DEF Sequenced, Highest, Of
      <4> QED BY <4>2, <4>6
    <3>5. Sequenced'
      BY <3>3, <3>4 DEF Sequenced
    <3> QED BY <3>1, <3>5
  <2>3. ASSUME NEW r \in Requests, Insert(r) PROVE Reserved' /\ Sequenced' /\ NumbersDistinct'
    <3>1. Reserved' /\ NumbersDistinct'
      BY <2>3 DEF TypeOK, Insert, Reserved, NumbersDistinct, ClashesWith, Clash
    <3>2. Sequenced'
      BY <2>3 DEF TypeOK, Insert, Sequenced, OneByOne, InOrder, Highest, Of, Creating
    <3> QED BY <3>1, <3>2
  <2>4. ASSUME NEW r \in Requests, Refuse(r) PROVE Reserved' /\ Sequenced' /\ NumbersDistinct'
    <3>1. Reserved' /\ NumbersDistinct'
      BY <2>4 DEF TypeOK, Refuse, Reserved, NumbersDistinct, ClashesWith, Clash
    <3>2. Sequenced'
      BY <2>4 DEF TypeOK, Refuse, Sequenced, OneByOne, InOrder, Highest, Of, Creating
    <3> QED BY <3>1, <3>2
  <2>5. ASSUME NEW r \in Requests, Commit(r) PROVE Reserved' /\ Sequenced' /\ NumbersDistinct'
    <3> DEFINE new == [business |-> business[r], number |-> number[r], at |-> clock]
    <3>1. /\ pc[r] = "inserted" /\ pc' = [pc EXCEPT ![r] = "done"]
          /\ documents' = documents \cup {new} /\ clock' = clock + 1
          /\ series' = series /\ business' = business /\ number' = number
      BY <2>5 DEF Commit
    <3>2. /\ \A d \in documents : d.number \in Nat /\ d.at \in Nat
          /\ number[r] \in Nat /\ clock \in Nat
      BY DEF TypeOK, Document, Numbers
    <3>3. \A d \in documents : ~Clash(business[r], number[r], d.business, d.number)
      BY <3>1 DEF Reserved
    <3>4. ASSUME Alone, ~Counted
          PROVE  \A d \in documents : d.business = business[r] => d.number < number[r]
      BY <3>1, <3>4 DEF Sequenced, Highest, Of
    <3>5. NumbersDistinct'
      <4>1. CASE Indexed
        <5>1. series.index \in {"business", "global"}
          BY <4>1, NumberingAssumption DEF TypeOK
        <5> QED BY <3>1, <3>3, <4>1, <5>1 DEF NumbersDistinct, Clash
      <4>2. CASE Alone /\ ~Counted
        BY <3>1, <3>2, <3>4, <4>2 DEF NumbersDistinct
      <4>3. CASE ~(Indexed \/ (Alone /\ ~Counted))
        BY <3>1, <4>3 DEF NumbersDistinct
      <4> QED BY <4>1, <4>2, <4>3
    <3>6. Reserved'
      BY <3>1 DEF Reserved, ClashesWith, TypeOK, Clash
    <3>7. ASSUME Alone, ~Counted PROVE OneByOne' /\ InOrder' /\ Highest'
      <4>1. Creating' = Creating \ {r} /\ r \in Creating
        BY <3>1 DEF Creating, TypeOK
      <4>2. Creating' = {}
        BY <3>7, <4>1 DEF Sequenced, OneByOne
      <4>3. OneByOne' /\ Highest'
        BY <4>2 DEF OneByOne, Highest, Creating
      <4>4. InOrder'
        BY <3>1, <3>2, <3>4, <3>7 DEF Sequenced, InOrder
      <4> QED BY <4>3, <4>4
    <3>8. Sequenced'
      BY <3>1, <3>7 DEF Sequenced
    <3> QED BY <3>5, <3>6, <3>8
  <2>6. ASSUME NEW r \in Requests, Abort(r) PROVE Reserved' /\ Sequenced' /\ NumbersDistinct'
    <3>1. Reserved' /\ NumbersDistinct'
      BY <2>6 DEF TypeOK, Abort, Reserved, NumbersDistinct, ClashesWith, Clash
    <3>2. Sequenced'
      BY <2>6 DEF TypeOK, Abort, Sequenced, OneByOne, InOrder, Highest, Of, Creating
    <3> QED BY <3>1, <3>2
  <2>7. ASSUME NEW d \in documents, Delete(d) PROVE Reserved' /\ Sequenced' /\ NumbersDistinct'
    <3>1. Reserved' /\ NumbersDistinct'
      BY <2>7 DEF TypeOK, Delete, Reserved, NumbersDistinct, ClashesWith, Clash
    <3>2. Sequenced'
      BY <2>7 DEF TypeOK, Delete, Sequenced, OneByOne, InOrder, Highest, Of, Creating
    <3> QED BY <3>1, <3>2
  <2>8. CASE UNCHANGED vars
    BY <2>8 DEF vars, Reserved, NumbersDistinct, ClashesWith, Clash, Sequenced, OneByOne, InOrder,
                Highest, Of, Creating
  <2> QED BY <2>1, <2>2, <2>3, <2>4, <2>5, <2>6, <2>7, <2>8 DEF Next
<1> QED BY <1>1, <1>2, TypeCorrect, PTL DEF Spec

(* A unique index over the business and the number, or over the number     *)
(* alone, keeps the numbers of a business distinct; without one, creations *)
(* that never overlap do, if they follow the highest or the newest number. *)
THEOREM NumbersStayDistinct == Spec => []NumbersDistinct
<1>1. Ordered => NumbersDistinct
  BY DEF Ordered
<1> QED BY <1>1, NumbersOrdered, PTL

(* A creation that overlaps no other is not refused for its number, if the *)
(* index is no wider than the generator: MAX + 1, and the newest + 1, are  *)
(* above every number the index could hold against it.                     *)
THEOREM AloneIsNotRefused == Spec => []NeverRefused
<1>1. Init => NeverRefused
  BY DEF Init, NeverRefused
<1>2. Ordered /\ NeverRefused /\ [Next]_vars => NeverRefused'
  <2> SUFFICES ASSUME Ordered, NeverRefused, [Next]_vars PROVE NeverRefused'
    OBVIOUS
  <2> USE DEF Alone, Counted
  <2>1. ASSUME NEW r \in Requests, Refuse(r), Alone, ~Counted, series.index # "global"
        PROVE  FALSE
    <3>1. PICK d \in documents : Clash(business[r], number[r], d.business, d.number)
      BY <2>1 DEF Refuse
    <3>2. d \in Of(business[r]) /\ d.number = number[r]
      BY <2>1, <3>1 DEF Clash, Of
    <3>3. d.number < number[r]
      BY <2>1, <3>2 DEF Ordered, Sequenced, Highest, Refuse
    <3>4. d.number \in Nat
      BY <3>1 DEF Ordered, TypeOK, Document, Numbers
    <3> QED BY <3>2, <3>3, <3>4
  <2>2. ASSUME NEW r \in Requests, Refuse(r) PROVE NeverRefused'
    BY <2>1, <2>2 DEF NeverRefused, Refuse
  <2>3. ASSUME NEW r \in Requests,
               Arrive(r) \/ GenerateNumber(r) \/ Insert(r) \/ Commit(r) \/ Abort(r)
        PROVE  NeverRefused'
    <3>1. /\ series' = series
          /\ \E v \in {"numbering", "inserting", "inserted", "done"} : pc' = [pc EXCEPT ![r] = v]
      BY <2>3 DEF Arrive, GenerateNumber, Insert, Commit, Abort, Ordered, TypeOK
    <3> QED BY <3>1 DEF NeverRefused, Ordered, TypeOK
  <2>4. ASSUME NEW d \in documents, Delete(d) PROVE NeverRefused'
    BY <2>4 DEF Delete, NeverRefused
  <2>5. CASE UNCHANGED vars
    BY <2>5 DEF vars, NeverRefused
  <2> QED BY <2>2, <2>3, <2>4, <2>5 DEF Next
<1> QED BY <1>1, <1>2, NumbersOrdered, PTL DEF Spec

(* One more than the highest number, or than the newest, leaves no gap     *)
(* when nothing is deleted, whatever is refused or rolled back.            *)
THEOREM NoGapIsLeft == Spec => []NoGaps
<1> DEFINE Inv == TypeOK /\ Preceded /\ NoGaps
<1>1. Init => Inv
  <2>1. Init => TypeOK
    BY NumberingAssumption DEF Init, TypeOK
  <2> QED BY <2>1 DEF Init, Preceded, NoGaps
<1>2. TypeOK' /\ Inv /\ [Next]_vars => Inv'
  <2> SUFFICES ASSUME TypeOK', Inv, [Next]_vars PROVE Preceded' /\ NoGaps'
    OBVIOUS
  <2> USE DEF NumbersOf, Of, Kept, Counted
  <2>1. ASSUME NEW r \in Requests, Arrive(r) PROVE Preceded' /\ NoGaps'
    BY <2>1 DEF TypeOK, Arrive, Preceded, NoGaps
  <2>2. ASSUME NEW r \in Requests, GenerateNumber(r) PROVE Preceded' /\ NoGaps'
    <3>1. PICK n \in Numbers : NextNumber(business[r], n) /\ number' = [number EXCEPT ![r] = n]
      BY <2>2 DEF GenerateNumber
    <3>2. UNCHANGED <<series, documents, business>> /\ pc' = [pc EXCEPT ![r] = "inserting"]
      BY <2>2 DEF GenerateNumber
    <3>3. \A d \in documents : d.number \in Nat
      BY DEF TypeOK, Document, Numbers
    <3>4. ASSUME Kept PROVE \A m \in 1 .. n - 1 : m \in NumbersOf(business[r])
      <4>1. CASE n = 1
        BY <4>1
      <4>2. CASE \E d \in Of(business[r]) : n = d.number + 1
        BY <3>3, <3>4, <4>2 DEF NoGaps
      <4>3. n = 1 \/ \E d \in Of(business[r]) : n = d.number + 1
        <5>1. CASE NextAfterHighest(business[r], n)
          <6>1. n = 1 \/ \E d \in Of(business[r]) : n - 1 = d.number
            BY <5>1 DEF NextAfterHighest, Follows
          <6> QED BY <3>3, <6>1 DEF Numbers
        <5>2. CASE NextAfterNewest(business[r], n)
          BY <5>2 DEF NextAfterNewest
        <5> QED BY <3>1, <3>4, <5>1, <5>2 DEF NextNumber
      <4> QED BY <4>1, <4>2, <4>3
    <3>5. NoGaps'
      BY <3>2 DEF NoGaps
    <3>6. Preceded'
      BY <3>1, <3>2, <3>4 DEF Preceded, TypeOK, Numbers
    <3> QED BY <3>5, <3>6
  <2>3. ASSUME NEW r \in Requests, Insert(r) PROVE Preceded' /\ NoGaps'
    BY <2>3 DEF TypeOK, Insert, Preceded, NoGaps
  <2>4. ASSUME NEW r \in Requests, Refuse(r) PROVE Preceded' /\ NoGaps'
    BY <2>4 DEF TypeOK, Refuse, Preceded, NoGaps
  <2>5. ASSUME NEW r \in Requests, Commit(r) PROVE Preceded' /\ NoGaps'
    <3> DEFINE new == [business |-> business[r], number |-> number[r], at |-> clock]
    <3>1. /\ pc[r] = "inserted" /\ pc' = [pc EXCEPT ![r] = "done"]
          /\ documents' = documents \cup {new}
          /\ series' = series /\ business' = business /\ number' = number
      BY <2>5 DEF Commit
    <3>2. \A b : NumbersOf(b) \subseteq NumbersOf(b)'
      BY <3>1
    <3>3. Preceded'
      BY <3>1, <3>2 DEF Preceded, TypeOK
    <3>4. Kept => \A n \in 1 .. new.number - 1 : n \in NumbersOf(new.business)
      BY <3>1 DEF Preceded
    <3>5. NoGaps'
      BY <3>1, <3>2, <3>4 DEF NoGaps
    <3> QED BY <3>3, <3>5
  <2>6. ASSUME NEW r \in Requests, Abort(r) PROVE Preceded' /\ NoGaps'
    BY <2>6 DEF TypeOK, Abort, Preceded, NoGaps
  <2>7. ASSUME NEW d \in documents, Delete(d) PROVE Preceded' /\ NoGaps'
    BY <2>7 DEF Delete, Preceded, NoGaps
  <2>8. CASE UNCHANGED vars
    BY <2>8 DEF vars, Preceded, NoGaps
  <2> QED BY <2>1, <2>2, <2>3, <2>4, <2>5, <2>6, <2>7, <2>8 DEF Next
<1>3. Inv => NoGaps
  OBVIOUS
<1> QED BY <1>1, <1>2, <1>3, TypeCorrect, PTL DEF Spec
=============================================================================
