------------------------------ MODULE Sessions ------------------------------
(***************************************************************************)
(* The database under every service of the back end: PostgreSQL at its     *)
(* default isolation (READ COMMITTED) seen through TypeORM, as the code    *)
(* under src/ uses it.  It is external code, modelled from its use.        *)
(*                                                                         *)
(* A request reads rows one statement at a time and keeps the entities it  *)
(* read in memory (view).  It then decides, and plans a sequence of        *)
(* saves.  A TypeORM save is two statements: it reads the row again to     *)
(* find which columns of the entity in memory differ, then UPDATEs these   *)
(* columns and no other.  The UPDATE waits for the row's lock, which is    *)
(* held until the transaction ends; nobody sees it before the COMMIT.      *)
(* Nothing compares the row with what the request had read, and no service *)
(* asks for a lock when it reads.                                          *)
(***************************************************************************)
EXTENDS Integers, Sequences, FiniteSets

CONSTANTS Requests,      \* the HTTP requests that will ever arrive
          MaxInFlight,   \* bound: how many of them are served at once (1 = one by one)
          PoolSize       \* connections in the pg pool

ASSUME SessionsAssumption ==
  /\ MaxInFlight \in Nat \ {0}
  /\ PoolSize \in Nat \ {0}

VARIABLES
  rows,     \* the committed rows: row identity -> record of its columns
  pc,       \* the phase of each request
  dto,      \* its validated input
  view,     \* the entities it has in memory, as it read them
  todo,     \* the saves it still has to make, in order
  diff,     \* during a save: the columns found to differ, per row
  pending,  \* its uncommitted UPDATEs: row -> entity and columns written
  conns     \* the requests that hold a connection of the pool

sessionVars == <<rows, pc, dto, view, todo, diff, pending, conns>>

Ended == {"done", "failed"}
Phases == {"idle", "reading", "saving", "updating", "recording"} \cup Ended
InFlight == {r \in Requests : pc[r] \notin {"idle"} \cup Ended}

(* Bounds of a module that sets them by behaviour: how many requests come  *)
(* in all, and how many of them are served at once.                        *)
Room(load) ==
  /\ Cardinality(InFlight) < load.atOnce
  /\ Cardinality({r \in Requests : pc[r] # "idle"}) < load.inAll

Nothing == [x \in {} |-> {}]

(* The entities in memory once the rows X have been read. *)
With(entities, X) ==
  [x \in DOMAIN entities \cup X |-> IF x \in X THEN rows[x] ELSE entities[x]]

(* One save: the entities it covers (the row and those its cascades reach) *)
(* and the columns that are in every UPDATE: a decimal is read as a string *)
(* and assigned as a number, which never compares equal.                   *)
Save(x, entity, decimals) ==
  [image |-> [y \in {x} |-> entity], decimals |-> decimals]

(* The columns of a row that an UPDATE of the given entity sets; the broken *)
(* form forgets what is not a decimal.                                     *)
DecimalsOnly(entity, decimals, row) == decimals \cap DOMAIN row
Differing(entity, decimals, row) ==
  {c \in DOMAIN row : c \in decimals \/ entity[c] # row[c]}

(* The row after an UPDATE that sets the columns cols. *)
Merge(row, entity, cols) ==
  [c \in DOMAIN row |-> IF c \in cols THEN entity[c] ELSE row[c]]

(* A row as the transaction of r sees it: with its own UPDATE applied. *)
Seen(r, x) ==
  IF x \in DOMAIN pending[r] THEN Merge(rows[x], pending[r][x].entity, pending[r][x].cols)
  ELSE rows[x]

LockedByOther(r, x) == \E s \in Requests \ {r} : x \in DOMAIN pending[s]

(* The rows the current save of r has to lock. *)
Needs(r) == {x \in DOMAIN diff[r] : diff[r][x] # {}}

-----------------------------------------------------------------------------
(* A request arrives; a transactional one takes a connection and BEGINs. *)
Open(r, d, transactional) ==
  /\ pc[r] = "idle"
  /\ Cardinality(InFlight) < MaxInFlight
  /\ transactional => Cardinality(conns) < PoolSize
  /\ pc' = [pc EXCEPT ![r] = "reading"]
  /\ dto' = [dto EXCEPT ![r] = d]
  /\ conns' = IF transactional THEN conns \cup {r} ELSE conns
  /\ UNCHANGED <<rows, view, todo, diff, pending>>

(* findOne, or find: one statement brings committed rows into memory. *)
Read(r, X) ==
  /\ view' = [view EXCEPT ![r] = With(@, X)]
  /\ UNCHANGED <<rows, pc, dto, todo, diff, pending, conns>>

(* The checks passed: the saves to make are settled. *)
Proceed(r, saves) ==
  /\ pc' = [pc EXCEPT ![r] = "saving"]
  /\ todo' = [todo EXCEPT ![r] = saves]
  /\ UNCHANGED <<rows, dto, view, diff, pending, conns>>

(* The request ends; its memory, locks and connection are given back. *)
End(r, outcome) ==
  /\ pc' = [pc EXCEPT ![r] = outcome]
  /\ view' = [view EXCEPT ![r] = Nothing]
  /\ todo' = [todo EXCEPT ![r] = << >>]
  /\ diff' = [diff EXCEPT ![r] = Nothing]
  /\ pending' = [pending EXCEPT ![r] = Nothing]
  /\ conns' = conns \ {r}
  /\ UNCHANGED dto

(* An exception, a lost connection or a killed process: ROLLBACK. *)
Rollback(r) == End(r, "failed") /\ UNCHANGED rows

(* First half of a save: the rows are read again and compared. *)
Reload(r) ==
  /\ pc[r] = "saving"
  /\ todo[r] # << >>
  /\ r \in conns \/ Cardinality(conns) < PoolSize
  /\ LET save == Head(todo[r]) IN
       diff' = [diff EXCEPT ![r] =
                  [x \in DOMAIN save.image |->
                     Differing(save.image[x], save.decimals, Seen(r, x))]]
  /\ pc' = [pc EXCEPT ![r] = "updating"]
  /\ conns' = conns \cup {r}
  /\ UNCHANGED <<rows, dto, view, todo, pending>>

(* Second half: the UPDATE, once the locks are free. *)
Update(r) ==
  /\ pc[r] = "updating"
  /\ \A x \in Needs(r) : ~LockedByOther(r, x)
  /\ pending' = [pending EXCEPT ![r] =
                   [x \in DOMAIN @ \cup Needs(r) |->
                      IF x \in Needs(r)
                      THEN [entity |-> Head(todo[r]).image[x], cols |-> diff[r][x]]
                      ELSE @[x]]]
  /\ todo' = [todo EXCEPT ![r] = Tail(@)]
  /\ diff' = [diff EXCEPT ![r] = Nothing]
  /\ pc' = [pc EXCEPT ![r] = "saving"]
  /\ UNCHANGED <<rows, dto, view, conns>>

(* An UPDATE written out by the service: it waits for the lock, and works  *)
(* on the row as it is then.                                               *)
SetColumns(r, x, entity, cols) ==
  /\ ~LockedByOther(r, x)
  /\ LET mine == pending[r]
         before == IF x \in DOMAIN mine THEN mine[x].cols ELSE {}
     IN pending' = [pending EXCEPT ![r] =
                      [y \in DOMAIN mine \cup {x} |->
                         IF y = x THEN [entity |-> entity, cols |-> before \cup cols]
                         ELSE mine[y]]]

AllSaved(r) == pc[r] = "saving" /\ todo[r] = << >>

(* COMMIT: the UPDATEs become visible together. *)
Commit(r) ==
  /\ AllSaved(r)
  /\ rows' = [x \in DOMAIN rows |-> Seen(r, x)]
  /\ End(r, "done")

(* Who waits for whom, and the victims of PostgreSQL's deadlock detector. *)
WaitsFor(r) ==
  {s \in Requests \ {r} : pc[r] = "updating" /\ Needs(r) \cap DOMAIN pending[s] # {}}

NeverDetected(r) == FALSE
Deadlocked(r) ==
  \E D \in SUBSET InFlight : r \in D /\ \A s \in D : WaitsFor(s) \cap D # {}

-----------------------------------------------------------------------------
SessionsInit ==
  /\ pc = [r \in Requests |-> "idle"]
  /\ dto = [r \in Requests |-> Nothing]
  /\ view = [r \in Requests |-> Nothing]
  /\ todo = [r \in Requests |-> << >>]
  /\ diff = [r \in Requests |-> Nothing]
  /\ pending = [r \in Requests |-> Nothing]
  /\ conns = {}
=============================================================================
