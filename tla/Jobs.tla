-------------------------------- MODULE Jobs --------------------------------
(***************************************************************************)
(* How the process serves requests, links opened from a mail and scheduled *)
(* jobs: several at once, each interrupted wherever its handler awaits the *)
(* database.  A lighter view than Sessions, for the services whose hazards *)
(* lie between their statements and commits: a find brings rows into the   *)
(* memory of the handler, a save writes the whole entity in memory back    *)
(* (TypeORM compares it with the row and updates what differs, or inserts  *)
(* it again when the row has gone), a transaction commits its saves at     *)
(* once.  Row locks, held from a write to the COMMIT, are not visible here.*)
(***************************************************************************)
EXTENDS Integers, Sequences, FiniteSets

CONSTANTS
  Workers,     \* bound: how many handlers run at once
  Mixes        \* bound: the sets of operations that are asked for together

ASSUME JobsAssumption == Workers # {} /\ IsFiniteSet(Workers)

VARIABLES
  job,    \* what each worker is doing: the operation, its input, the rows it has read
  marred, \* whether so far two handlers have overlapped, one has failed half way
  mix     \* the operations asked for in this behaviour

jobVars == <<job, marred, mix>>

Idle == [op |-> "idle"]
Absent == [status |-> "ABSENT"]

Free(w) == job[w] = Idle
Doing(w, op) == job[w].op = op
Asked(w, op) == op \in mix /\ Free(w)
Alone(w) == \A v \in Workers \ {w} : Free(v)

(* Nothing is being served, and so far handlers have run one by one; and   *)
(* none of them has failed half way either.                                *)
AllFree == \A w \in Workers : Free(w)
Apart == "overlap" \notin marred /\ AllFree
Settled == marred = {} /\ AllFree

Exists(table, x) == table[x] # Absent
Rows(table) == {x \in DOMAIN table : Exists(table, x)}

(* INSERT: a fresh identity for the row, while the instance has one left. *)
CanInsert(table) == \E x \in DOMAIN table : ~Exists(table, x)
Fresh(table) == CHOOSE x \in DOMAIN table : ~Exists(table, x)

Overlapped(w) == marred' = IF Alone(w) THEN marred ELSE marred \cup {"overlap"}

-----------------------------------------------------------------------------
(* A handler whose effect is a single statement. *)
AtOnce(w, op) ==
  /\ op \in mix /\ Free(w)
  /\ Overlapped(w)
  /\ UNCHANGED <<job, mix>>

(* A handler starts with what it has read, goes on, ends. *)
Begin(w, j) ==
  /\ j.op \in mix /\ Free(w)
  /\ job' = [job EXCEPT ![w] = j]
  /\ Overlapped(w)
  /\ UNCHANGED mix
Continue(w, j) == job' = [job EXCEPT ![w] = j] /\ UNCHANGED <<marred, mix>>
Finish(w) == job' = [job EXCEPT ![w] = Idle] /\ UNCHANGED <<marred, mix>>

(* An exception, a lost connection or a killed process between two steps. *)
Fail(w) ==
  /\ "fail" \in mix /\ ~Free(w)
  /\ job' = [job EXCEPT ![w] = Idle]
  /\ marred' = marred \cup {"failure"}
  /\ UNCHANGED mix

JobsInit == job = [w \in Workers |-> Idle] /\ marred = {} /\ mix \in Mixes
=============================================================================
