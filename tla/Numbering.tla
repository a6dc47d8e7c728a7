----------------------------- MODULE Numbering -----------------------------
(***************************************************************************)
(* How documents get their numbers.  Purchase orders (ACH-), goods         *)
(* receipts (BR-), supplier payments (PAY-), client invoices (FAC-, INV-), *)
(* quotes, sales orders and delivery notes take one more than the highest  *)
(* number their business has; purchase invoices (FACT-) one more than      *)
(* their newest; a test invoice one more than how many there are.  Some    *)
(* tables have a unique index over the business and the number, some over  *)
(* the number alone, some none.  A series is one table and one year: the   *)
(* year is part of the number.                                             *)
(***************************************************************************)
EXTENDS Integers, FiniteSets

CONSTANTS Requests, Businesses,
          Series,        \* the kinds of series there are
          MaxNumber,     \* bound: the highest number a run reaches
          NoBusiness

ASSUME NumberingAssumption ==
  /\ Series \subseteq
       [generator : {"max", "last", "count"},
        index : {"business", "global", "none"},   \* what the unique index covers
        deletable : BOOLEAN,                      \* whether its documents can be deleted
        atOnce : Nat]                             \* bound: creations served at once
  /\ IsFiniteSet(Requests)
  /\ MaxNumber \in Nat
  /\ NoBusiness \notin Businesses

VARIABLES
  series,      \* the series a behaviour is about
  documents,   \* the committed rows
  pc,          \* idle, numbering, inserting, inserted, done, refused
  business,    \* whose document each request creates
  number,      \* the number it took, 0 before
  clock        \* created_at of the next insert

vars == <<series, documents, pc, business, number, clock>>

Numbers == 1 .. MaxNumber
Document == [business : Businesses, number : Numbers, at : Nat]

Of(b) == {d \in documents : d.business = b}
NumbersOf(b) == {d.number : d \in Of(b)}

(* COALESCE(MAX(...), 0) + 1, over what is committed.                     *)
Follows(n, taken) == (n = 1 \/ n - 1 \in taken) /\ \A m \in taken : m < n
NextAfterHighest(b, n) == Follows(n, NumbersOf(b))

(* ORDER BY created_at DESC, the first, of the business; and without the   *)
(* business.                                                               *)
Newest(d, D) == \A e \in D : e.at <= d.at
NextAfterNewestOfAll(b, n) ==
  IF documents = {} THEN n = 1
  ELSE \E d \in documents : Newest(d, documents) /\ n = d.number + 1
NextAfterNewest(b, n) ==
  IF Of(b) = {} THEN n = 1 ELSE \E d \in Of(b) : Newest(d, Of(b)) /\ n = d.number + 1

NextAfterCount(b, n) == n = Cardinality(Of(b)) + 1

NextNumber(b, n) ==
  \/ series.generator = "max" /\ NextAfterHighest(b, n)
  \/ series.generator = "last" /\ NextAfterNewest(b, n)
  \/ series.generator = "count" /\ NextAfterCount(b, n)

(* Two rows the unique index does not let coexist; without an index, and   *)
(* with an index that forgets the business.                                *)
NoClash(b, n, c, m) == FALSE
ClashAnywhere(b, n, c, m) == n = m
Clash(b, n, c, m) ==
  \/ series.index = "business" /\ b = c /\ n = m
  \/ series.index = "global" /\ n = m

-----------------------------------------------------------------------------
Creating == {r \in Requests : pc[r] \in {"numbering", "inserting", "inserted"}}

Arrive(r) ==
  /\ pc[r] = "idle"
  /\ Cardinality(Creating) < series.atOnce
  /\ \E b \in Businesses : business' = [business EXCEPT ![r] = b]
  /\ pc' = [pc EXCEPT ![r] = "numbering"]
  /\ UNCHANGED <<series, documents, number, clock>>

(* The number is taken. *)
GenerateNumber(r) ==
  /\ pc[r] = "numbering"
  /\ \E n \in Numbers : NextNumber(business[r], n) /\ number' = [number EXCEPT ![r] = n]
  /\ pc' = [pc EXCEPT ![r] = "inserting"]
  /\ UNCHANGED <<series, documents, business, clock>>

ClashesWith(r, s) == Clash(business[r], number[r], business[s], number[s])

(* INSERT: waits while an uncommitted row has the number, is refused when  *)
(* a committed one has it.                                                 *)
Insert(r) ==
  /\ pc[r] = "inserting"
  /\ \A s \in Requests : pc[s] = "inserted" => ~ClashesWith(r, s)
  /\ \A d \in documents : ~Clash(business[r], number[r], d.business, d.number)
  /\ pc' = [pc EXCEPT ![r] = "inserted"]
  /\ UNCHANGED <<series, documents, business, number, clock>>

Refuse(r) ==
  /\ pc[r] = "inserting"
  /\ \E d \in documents : Clash(business[r], number[r], d.business, d.number)
  /\ pc' = [pc EXCEPT ![r] = "refused"]
  /\ UNCHANGED <<series, documents, business, number, clock>>

Commit(r) ==
  /\ pc[r] = "inserted"
  /\ documents' = documents \cup
       {[business |-> business[r], number |-> number[r], at |-> clock]}
  /\ clock' = clock + 1
  /\ pc' = [pc EXCEPT ![r] = "done"]
  /\ UNCHANGED <<series, business, number>>

(* A later statement of the transaction fails, or the process stops. *)
Abort(r) ==
  /\ r \in Creating
  /\ pc' = [pc EXCEPT ![r] = "done"]
  /\ UNCHANGED <<series, documents, business, number, clock>>

Delete(d) ==
  /\ series.deletable
  /\ documents' = documents \ {d}
  /\ UNCHANGED <<series, pc, business, number, clock>>

Next ==
  \/ \E r \in Requests : Arrive(r) \/ GenerateNumber(r) \/ Insert(r) \/ Refuse(r)
                           \/ Commit(r) \/ Abort(r)
  \/ \E d \in documents : Delete(d)

Init ==
  /\ series \in Series
  /\ documents = {}
  /\ pc = [r \in Requests |-> "idle"]
  /\ business = [r \in Requests |-> NoBusiness]
  /\ number = [r \in Requests |-> 0]
  /\ clock = 1

Spec == Init /\ [][Next]_vars

-----------------------------------------------------------------------------
(* Type invariant: a creation has a business from its arrival on, and a    *)
(* number from its numbering on.                                           *)
TypeOK ==
  /\ series \in Series
  /\ documents \subseteq Document
  /\ pc \in [Requests -> {"idle", "numbering", "inserting", "inserted", "done", "refused"}]
  /\ business \in [Requests -> Businesses \cup {NoBusiness}]
  /\ number \in [Requests -> Nat]
  /\ clock \in Nat
  /\ \A r \in Requests : pc[r] # "idle" => business[r] \in Businesses
  /\ \A r \in Requests : pc[r] \in {"inserting", "inserted"} => number[r] \in Numbers

Indexed == series.index # "none"
Alone == series.atOnce = 1
Counted == series.generator = "count"

(* Two documents of a business never have the same number, if an index     *)
(* watches over the numbers or if creations never overlap.                 *)
NumbersDistinct ==
  Indexed \/ (Alone /\ ~Counted) =>
    \A d, e \in documents : d.business = e.business /\ d.number = e.number => d = e

(* The numbers of a business whose documents stay have no gap: creations   *)
(* that lost a race, were refused or were rolled back leave none.          *)
NoGaps ==
  ~Counted /\ ~series.deletable =>
    \A d \in documents : \A n \in 1 .. d.number - 1 : n \in NumbersOf(d.business)

(* "evite ce probleme": a creation that overlaps no other is not refused   *)
(* for its number, if the index is no wider than the generator.            *)
NeverRefused ==
  Alone /\ ~Counted /\ series.index # "global" => \A r \in Requests : pc[r] # "refused"
=============================================================================
