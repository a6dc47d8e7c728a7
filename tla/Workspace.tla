------------------------------- MODULE Workspace -------------------------------
(***************************************************************************)
(* Where a team works: the board of tasks with an order in each column,    *)
(* subtasks and the activities they leave, the discussion of a task with   *)
(* its threads, the daily check-in, and who is online.                     *)
(***************************************************************************)
EXTENDS Members

CONSTANTS
  Tasks, Subtasks, Messages, Sockets,   \* bound: the rows and connections there can be
  MaxOrder,                             \* bound: the last place in a column
  MaxReplies,                           \* bound: the count up to which a message is replied to
  LastDay                               \* bound: the days of check-ins

NoParent == "none"

ASSUME WorkspaceAssumption == IsFiniteSet(Tasks) /\ IsFiniteSet(Messages) /\ NoParent \notin Messages

VARIABLES
  tasks, subtasks, activities, messages, checkins,   \* the tables
  sockets, presence,                                 \* in the memory of the gateway
  today

workspaceVars == <<tasks, subtasks, activities, messages, checkins, sockets, presence, today>>

TaskStatus == {"TODO", "IN_PROGRESS", "DONE", "BLOCKED"}
Due == {"never", "past", "ahead"}
Task(b, column, order, due) ==
  [status |-> "HERE", business |-> b, column |-> column, order |-> order, due |-> due]
Subtask(t) == [status |-> "HERE", task |-> t, completed |-> FALSE, byTeamMember |-> FALSE]
Message(t, parent) == [status |-> "HERE", task |-> t, parent |-> parent, replyCount |-> 0]

WorkspaceTypeOK ==
  /\ tasks \in [Tasks -> {Absent} \cup [status : {"HERE"}, business : Businesses, column : TaskStatus,
                                        order : Int, due : Due]]
  /\ subtasks \in [Subtasks -> {Absent} \cup [status : {"HERE"}, task : Tasks, completed : BOOLEAN,
                                              byTeamMember : BOOLEAN]]
  /\ messages \in [Messages -> {Absent} \cup [status : {"HERE"}, task : Tasks,
                                              parent : Messages \cup {NoParent}, replyCount : Nat]]
  /\ checkins \subseteq [user : People, business : Businesses, day : 0 .. LastDay, skipped : BOOLEAN]
  /\ sockets \in [Sockets -> {Absent} \cup [status : {"OPEN"}, user : People, business : Businesses]]
  /\ today \in 0 .. LastDay

-----------------------------------------------------------------------------
(* The board. *)
Column(b, column) == {t \in Rows(tasks) : tasks[t].business = b /\ tasks[t].column = column}
Orders(b, column) == {tasks[t].order : t \in Column(b, column)}
NextOrder(b, column) ==
  IF Orders(b, column) = {} THEN 0
  ELSE 1 + CHOOSE k \in Orders(b, column) : \A j \in Orders(b, column) : j <= k

(* create: the highest order of the column is read, the task is saved below. *)
CreateTask(w, p, b) ==
  /\ Asked(w, "createTask")
  /\ HasAccess(p, b) /\ Exists(businesses, b) /\ CanInsert(tasks)
  /\ \E column \in TaskStatus \cap mix, due \in Due \cap mix :
       /\ NextOrder(b, column) <= MaxOrder
       /\ Begin(w, [op |-> "createTask", row |-> Task(b, column, NextOrder(b, column), due)])
  /\ UNCHANGED <<memberVars, workspaceVars>>

TaskSaved(w) ==
  /\ Doing(w, "createTask") /\ CanInsert(tasks)
  /\ tasks' = [tasks EXCEPT ![Fresh(tasks)] = job[w].row]
  /\ Finish(w)
  /\ UNCHANGED <<memberVars, subtasks, activities, messages, checkins, sockets, presence, today>>

(* update: any field but the order, the status among them. *)
UpdateTask(w, p, t) ==
  /\ Asked(w, "updateTask")
  /\ Exists(tasks, t) /\ HasAccess(p, tasks[t].business)
  /\ \E column \in {tasks[t].column} \cup (IF "restatus" \in mix THEN TaskStatus \cap mix ELSE {}) :
       \E due \in Due \cap mix :
         Begin(w, [op |-> "updateTask", at |-> t, row |-> [tasks[t] EXCEPT !.column = column, !.due = due]])
  /\ UNCHANGED <<memberVars, workspaceVars>>

TaskUpdated(w) ==
  /\ Doing(w, "updateTask")
  /\ tasks' = [tasks EXCEPT ![job[w].at] = job[w].row]
  /\ Finish(w)
  /\ UNCHANGED <<memberVars, subtasks, activities, messages, checkins, sockets, presence, today>>

(* moveTask: where the task stands is read before the transaction.  Bound:  *)
(* a column that reaches down to MaxOrder takes no task.                    *)
MoveTask(w, p, t) ==
  /\ Asked(w, "moveTask")
  /\ Exists(tasks, t) /\ HasAccess(p, tasks[t].business)
  /\ \E column \in TaskStatus \cap mix, order \in 0 .. MaxOrder :
       /\ NextOrder(tasks[t].business, column) <= MaxOrder
       /\ Begin(w, [op |-> "moveTask", at |-> t, old |-> tasks[t],
                    row |-> [tasks[t] EXCEPT !.column = column, !.order = order]])
  /\ UNCHANGED <<memberVars, workspaceVars>>

(* The two statements that make room: across columns, and within one. *)
Closing(x, old, row) == x.column = old.column /\ x.order > old.order
Opening(x, old, row) == x.column = row.column /\ x.order >= row.order
Across(x, old, row) ==
  IF Closing(x, old, row) THEN x.order - 1 ELSE IF Opening(x, old, row) THEN x.order + 1 ELSE x.order
(* Mutant: the place the task leaves is not closed. *)
LeftOpen(x, old, row) ==
  IF x.column # old.column THEN x.order
  ELSE IF row.order <= x.order /\ x.order < old.order THEN x.order + 1
  ELSE x.order

Within(x, old, row) ==
  IF x.column # old.column THEN x.order
  ELSE IF row.order <= x.order /\ x.order < old.order THEN x.order + 1
  ELSE IF old.order < x.order /\ x.order <= row.order THEN x.order - 1
  ELSE x.order

MakesRoom(old, row) ==
  [x \in Tasks |->
     IF ~Exists(tasks, x) \/ tasks[x].business # row.business THEN tasks[x]
     ELSE [tasks[x] EXCEPT !.order = IF old.column # row.column THEN Across(tasks[x], old, row)
                                     ELSE Within(tasks[x], old, row)]]

TaskMoved(w) ==
  LET old == job[w].old
      row == job[w].row
  IN /\ Doing(w, "moveTask")
     /\ tasks' = [MakesRoom(old, row) EXCEPT ![job[w].at] = row]
     /\ IF row.column = "BLOCKED" /\ old.column # "BLOCKED"
        THEN Continue(w, [op |-> "log", what |-> [type |-> "TASK_BLOCKED", of |-> job[w].at]])
        ELSE Finish(w)
     /\ UNCHANGED <<memberVars, subtasks, activities, messages, checkins, sockets, presence, today>>

(* createActivity, after the commit of what it tells: a failure is only logged. *)
ActivityLogged(w) ==
  /\ Doing(w, "log")
  /\ activities' = activities \cup {job[w].what}
  /\ Finish(w)
  /\ UNCHANGED <<memberVars, tasks, subtasks, messages, checkins, sockets, presence, today>>

(* remove, and what the foreign keys take with it: of the discussion, what  *)
(* belongs to the task and, with every message, the replies to it.          *)
Swept(t) ==
  {m \in Rows(messages) : \A gone \in SUBSET Messages :
     (\A x \in Rows(messages) : messages[x].task = t \/ messages[x].parent \in gone => x \in gone) => m \in gone}

RemoveTask(w, p, t) ==
  /\ AtOnce(w, "removeTask")
  /\ Exists(tasks, t) /\ HasAccess(p, tasks[t].business)
  /\ tasks' = [tasks EXCEPT ![t] = Absent]
  /\ subtasks' = [s \in Subtasks |-> IF Exists(subtasks, s) /\ subtasks[s].task = t THEN Absent ELSE subtasks[s]]
  /\ messages' = [m \in Messages |-> IF m \in Swept(t) THEN Absent ELSE messages[m]]
  /\ UNCHANGED <<memberVars, activities, checkins, sockets, presence, today>>

-----------------------------------------------------------------------------
(* Subtasks. *)
MaySubtask(p, t, key) ==
  Exists(tasks, t) /\ Exists(users, p)
    /\ SubtaskPermission(p, tasks[t].business, Demand("user", Anyone, "collaboration", key, Nobody))

CreateSubtask(w, p, t) ==
  /\ AtOnce(w, "createSubtask")
  /\ MaySubtask(p, t, "create_subtask") /\ CanInsert(subtasks)
  /\ subtasks' = [subtasks EXCEPT ![Fresh(subtasks)] = Subtask(t)]
  /\ UNCHANGED <<memberVars, tasks, activities, messages, checkins, sockets, presence, today>>

UpdateSubtask(w, p, s) ==
  /\ Asked(w, "updateSubtask")
  /\ Exists(subtasks, s) /\ MaySubtask(p, subtasks[s].task, "update_subtask")
  /\ \E completed \in BOOLEAN :
       Begin(w, [op |-> "updateSubtask", at |-> s, row |-> [subtasks[s] EXCEPT !.completed = completed]])
  /\ UNCHANGED <<memberVars, workspaceVars>>

(* isTaskOverdue, isTaskOnTime, and what is written of the completion. *)
IsTaskOverdue(task) == task.column = "BLOCKED" \/ task.due = "past"
IsTaskOnTime(task) == task.column # "BLOCKED" /\ task.due = "ahead"
Completion(task) ==
  CASE IsTaskOverdue(task) -> "SUBTASK_COMPLETED_OVERDUE"
    [] IsTaskOnTime(task) -> "SUBTASK_COMPLETED_ON_TIME"
    [] OTHER -> "SUBTASK_COMPLETED"

MarkComplete(w, p, s) ==
  /\ Asked(w, "markComplete")
  /\ Exists(subtasks, s) /\ MaySubtask(p, subtasks[s].task, "mark_complete_subtask")
  /\ Begin(w, [op |-> "markComplete", at |-> s, type |-> Completion(tasks[subtasks[s].task]),
               row |-> [subtasks[s] EXCEPT !.completed = TRUE, !.byTeamMember = TRUE]])
  /\ UNCHANGED <<memberVars, workspaceVars>>

SubtaskSaved(w) ==
  /\ job[w].op \in {"updateSubtask", "markComplete"} /\ Exists(tasks, job[w].row.task)
  /\ subtasks' = [subtasks EXCEPT ![job[w].at] = job[w].row]
  /\ IF Doing(w, "markComplete")
     THEN Continue(w, [op |-> "log", what |-> [type |-> job[w].type, of |-> job[w].at]])
     ELSE Finish(w)
  /\ UNCHANGED <<memberVars, tasks, activities, messages, checkins, sockets, presence, today>>

RemoveSubtask(w, p, s) ==
  /\ AtOnce(w, "removeSubtask")
  /\ Exists(subtasks, s) /\ MaySubtask(p, subtasks[s].task, "delete_subtask")
  /\ subtasks' = [subtasks EXCEPT ![s] = Absent]
  /\ UNCHANGED <<memberVars, tasks, activities, messages, checkins, sockets, presence, today>>

-----------------------------------------------------------------------------
(* The discussion: a reply first counts itself with its parent, then is     *)
(* inserted.  The identity of a removed message is not given again while a  *)
(* handler still holds it: in the database it never is.                     *)
Holds(w, m) == job[w].op \in {"reply", "replied"} /\ job[w].parent = m
Unheld == {m \in Messages : ~Exists(messages, m) /\ \A w \in Workers : ~Holds(w, m)}
NewMessage == CHOOSE m \in Unheld : TRUE

PostMessage(w, t) ==
  /\ AtOnce(w, "post")
  /\ Exists(tasks, t) /\ Unheld # {}
  /\ messages' = [messages EXCEPT ![NewMessage] = Message(t, NoParent)]
  /\ UNCHANGED <<memberVars, tasks, subtasks, activities, checkins, sockets, presence, today>>

(* The task of a reply is the client's, as its parent is: nothing compares  *)
(* it with the parent's.                                                    *)
Reply(w, m, t) ==
  /\ Asked(w, "reply")
  /\ Exists(messages, m) /\ CanInsert(messages)
  /\ messages[m].replyCount < MaxReplies
  /\ messages[m].task = t \/ "astray" \in mix
  /\ Begin(w, [op |-> "reply", parent |-> m, task |-> t])
  /\ UNCHANGED <<memberVars, workspaceVars>>

(* Mutant: the replies there are, and one more, instead of an increment. *)
Recounted(w) ==
  LET replies == {r \in Rows(messages) : messages[r].parent = job[w].parent}
  IN [messages EXCEPT ![job[w].parent].replyCount = 1 + Cardinality(replies)]

Counted(w) == [messages EXCEPT ![job[w].parent].replyCount = @ + 1]

ReplyCounted(w) ==
  /\ Doing(w, "reply")
  /\ messages' = IF Exists(messages, job[w].parent) THEN Counted(w) ELSE messages
  /\ Continue(w, [job[w] EXCEPT !.op = "replied"])
  /\ UNCHANGED <<memberVars, tasks, subtasks, activities, checkins, sockets, presence, today>>

ReplySaved(w) ==
  /\ Doing(w, "replied") /\ Unheld # {}
  /\ messages' = IF Exists(tasks, job[w].task) /\ Exists(messages, job[w].parent)
                 THEN [messages EXCEPT ![NewMessage] = Message(job[w].task, job[w].parent)]
                 ELSE messages
  /\ Finish(w)
  /\ UNCHANGED <<memberVars, tasks, subtasks, activities, checkins, sockets, presence, today>>

-----------------------------------------------------------------------------
(* Daily check-ins: of team members and accountants, once a day wherever    *)
(* they work; and what the business is shown.                               *)
HasCheckedInToday(p) == \E c \in checkins : c.user = p /\ c.day = today

CreateCheckin(w, p, b) ==
  /\ AtOnce(w, "checkin")
  /\ ActiveMember(p, b) /\ members[<<b, p>>].role \in {"TEAM_MEMBER", "ACCOUNTANT"}
  /\ ~HasCheckedInToday(p)
  /\ \E skipped \in BOOLEAN :
       checkins' = checkins \cup {[user |-> p, business |-> b, day |-> today, skipped |-> skipped]}
  /\ UNCHANGED <<memberVars, tasks, subtasks, activities, messages, sockets, presence, today>>

CheckinStatus(p, b) ==
  LET mine == {c \in checkins : c.user = p /\ c.business = b /\ c.day = today}
  IN CASE mine = {} -> "pending"
       [] \E c \in mine : c.skipped -> "skipped"
       [] OTHER -> "checked_in"

NextDay(w) ==
  /\ AtOnce(w, "day")
  /\ today < LastDay
  /\ today' = today + 1
  /\ UNCHANGED <<memberVars, tasks, subtasks, activities, messages, checkins, sockets, presence>>

-----------------------------------------------------------------------------
(* Presence: a connection makes its user online in a business; closing any  *)
(* of his connections takes him offline; a restart forgets everyone.        *)
Opened(p) == {s \in Sockets : Exists(sockets, s) /\ sockets[s].user = p}

Connect(w, s, p, b) ==
  /\ AtOnce(w, "connect")
  /\ ~Exists(sockets, s) /\ (Opened(p) = {} \/ "tabs" \in mix)
  /\ sockets' = [sockets EXCEPT ![s] = [status |-> "OPEN", user |-> p, business |-> b]]
  /\ presence' = [presence EXCEPT ![p] = [status |-> "online", business |-> b]]
  /\ UNCHANGED <<memberVars, tasks, subtasks, activities, messages, checkins, today>>

(* Mutant: presence outlives the connection. *)
Forgotten(w, s) ==
  /\ AtOnce(w, "connect")
  /\ Exists(sockets, s)
  /\ sockets' = [sockets EXCEPT ![s] = Absent]
  /\ UNCHANGED <<memberVars, tasks, subtasks, activities, messages, checkins, today, presence>>

Disconnect(w, s) ==
  /\ AtOnce(w, "connect")
  /\ Exists(sockets, s)
  /\ presence' = [presence EXCEPT ![sockets[s].user] = Absent]
  /\ sockets' = [sockets EXCEPT ![s] = Absent]
  /\ UNCHANGED <<memberVars, tasks, subtasks, activities, messages, checkins, today>>

Restart(w) ==
  /\ AtOnce(w, "connect")
  /\ sockets' = [s \in Sockets |-> Absent] /\ presence' = [p \in People |-> Absent]
  /\ UNCHANGED <<memberVars, tasks, subtasks, activities, messages, checkins, today>>

OnlineUsersForBusiness(b) == {p \in People : Exists(presence, p) /\ presence[p].business = b}

-----------------------------------------------------------------------------
WorkspaceNext(w) ==
  \/ \E p \in People :
       \/ \E b \in Businesses : CreateTask(w, p, b) \/ CreateCheckin(w, p, b)
       \/ \E t \in Tasks : UpdateTask(w, p, t) \/ MoveTask(w, p, t) \/ RemoveTask(w, p, t) \/ CreateSubtask(w, p, t)
       \/ \E s \in Subtasks : UpdateSubtask(w, p, s) \/ MarkComplete(w, p, s) \/ RemoveSubtask(w, p, s)
       \/ \E s \in Sockets, b \in Businesses : Connect(w, s, p, b)
  \/ \E t \in Tasks : PostMessage(w, t) \/ \E m \in Messages : Reply(w, m, t)
  \/ \E s \in Sockets : Disconnect(w, s)
  \/ TaskSaved(w) \/ TaskUpdated(w) \/ TaskMoved(w) \/ ActivityLogged(w) \/ SubtaskSaved(w)
  \/ ReplyCounted(w) \/ ReplySaved(w) \/ NextDay(w) \/ Restart(w)

WorkspaceInit ==
  /\ tasks = [t \in Tasks |-> Absent] /\ subtasks = [s \in Subtasks |-> Absent]
  /\ messages = [m \in Messages |-> Absent] /\ activities = {} /\ checkins = {}
  /\ sockets = [s \in Sockets |-> Absent] /\ presence = [p \in People |-> Absent]
  /\ today = 0

-----------------------------------------------------------------------------
(* No two tasks of a column stand in the same place, as long as a task      *)
(* changes column by being moved (create reads the last place before it     *)
(* saves; moveTask reads the old place before the transaction that shifts   *)
(* the others).                                                             *)
OneTaskPerPlace ==
  (Apart /\ "restatus" \notin mix) =>
    \A t, u \in Rows(tasks) :
      tasks[t].business = tasks[u].business /\ tasks[t].column = tasks[u].column /\ tasks[t].order = tasks[u].order
        => t = u

(* No message counts fewer replies than it has, whatever fails and whatever *)
(* task a reply names; and where replies name the task of their parent and  *)
(* no handler fails it counts just those it has, however many were posted   *)
(* at once (messages.service counts with an atomic increment, in a          *)
(* statement before the one that inserts the reply; a reply of another      *)
(* task goes with that task, and its parent keeps counting it).             *)
Replies(m) == {r \in Rows(messages) : messages[r].parent = m}
RepliesCounted ==
  \A m \in Rows(messages) :
    /\ messages[m].replyCount >= Cardinality(Replies(m))
    /\ AllFree /\ {"fail", "astray"} \cap mix = {} => messages[m].replyCount = Cardinality(Replies(m))

(* Whoever is shown online in a business has a connection open there; and   *)
(* while everyone keeps to one connection, whoever has one is shown         *)
(* (presence.gateway keys presence by user, not by connection).             *)
PresenceIsTrue ==
  /\ \A b \in Businesses : \A p \in OnlineUsersForBusiness(b) : \E s \in Opened(p) : sockets[s].business = b
  /\ "tabs" \notin mix => \A p \in People : Opened(p) # {} => Exists(presence, p)
=============================================================================
