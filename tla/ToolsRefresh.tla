------------------------------ MODULE ToolsRefresh ------------------------------
(***************************************************************************)
(* The tool list of one upstream of ProxyManager (proxy/manager.py): its   *)
(* listing at connect and reconnect, the refresh tasks its                 *)
(* tools/list_changed notices start, the cache rows it removes, and        *)
(* stop() and start() of the manager around them.  A stretch between two   *)
(* awaits is one action.  A session is a child process with a list of its  *)
(* own, of which only the version counts.                                  *)
(*                                                                         *)
(* Left out: the announcement of a change to the client, the catalogue     *)
(* revision, and tools refused for their names.                            *)
(***************************************************************************)
EXTENDS Integers, FiniteSets

CONSTANTS
  Tasks,       \* the identities of refresh tasks
  MaxSessions, \* bound: the sessions of the upstream that are opened
  MaxVersion,  \* bound: how often a session's list changes
  Eligible(_), \* the tools a version lists and declares read-only
  NoTask       \* no refresh task

ASSUME RefreshAssumption ==
  MaxSessions \in Nat /\ MaxVersion \in Nat /\ NoTask \notin Tasks

VARIABLES
  server,      \* per session: the version of its list, the notices on their way
  opened,      \* how many sessions were opened
  served,      \* conn.session, NoSession when there is no connection
  tools,       \* conn.tools: the session and the version they were listed from
  opening,     \* a connect or reconnect: its session and what it has listed
  dirty,       \* _tools_refresh_dirty
  claimed,     \* _tools_refresh_running
  registered,  \* _tools_refresh_tasks
  task,        \* the refresh tasks
  manager,     \* up, stopping, restarting, down
  cached,        \* the tools with cached answers
  missed,      \* the sessions with a notice that came before they were installed
  unlisted     \* whether a refresh failed since the list was last replaced

refreshVars == <<server, opened, served, tools, opening, dirty, claimed, registered,
                 task, manager, cached, missed, unlisted>>

Sessions == 1..MaxSessions \* in the order they are opened
NoSession == 0
Versions == 0..MaxVersion
NoListing == -1
NewTask == [at |-> "none", session |-> NoSession, got |-> NoListing, cut |-> FALSE]
NotOpening == [session |-> NoSession, got |-> NoListing]

(* ready: created; asking: awaits list_tools; answered: has the answer;    *)
(* ended: cancelled before its first step, its callback still to come.     *)
TaskStates == {"none", "ready", "asking", "answered", "ended"}

Alive(r) == task[r].at \in {"ready", "asking", "answered"}

RefreshInit ==
  /\ server = [s \in Sessions |-> [version |-> 0, notices |-> 0]]
  /\ opened = 0 /\ served = NoSession
  /\ tools = [session |-> NoSession, version |-> 0]
  /\ opening = NotOpening
  /\ dirty = FALSE /\ claimed = FALSE /\ registered = NoTask
  /\ task = [r \in Tasks |-> NewTask]
  /\ manager = "up" /\ cached = {} /\ missed = {} /\ unlisted = FALSE
-----------------------------------------------------------------------------
(* The upstream: its list changes, and it says so.                         *)

Changes(s) ==
  /\ s \in {served, opening.session} \ {NoSession}
  /\ server[s].version < MaxVersion
  /\ server' = [server EXCEPT ![s].version = @ + 1, ![s].notices = @ + 1]
  /\ UNCHANGED <<opened, served, tools, opening, dirty, claimed, registered, task,
                 manager, cached, missed, unlisted>>

(* A bug: a notice that finds a refresh under way is taken as served by it.*)
MarkedWhenIdle == dirty \/ ~claimed

MarkedDirty == TRUE

(* The handler of the session, _schedule_tools_refresh: one refresh at a   *)
(* time, none while the manager stops.                                     *)
ScheduleRefresh ==
  /\ dirty' = MarkedDirty
  /\ IF claimed \/ manager = "stopping"
     THEN UNCHANGED <<claimed, registered, task>>
     ELSE \E r \in Tasks :
            /\ task[r].at = "none"
            /\ claimed' = TRUE /\ registered' = r
            /\ task' = [task EXCEPT ![r] = [NewTask EXCEPT !.at = "ready"]]

Notified(s) ==
  /\ server[s].notices > 0
  /\ server' = [server EXCEPT ![s].notices = @ - 1]
  /\ ScheduleRefresh
  /\ missed' = IF s = served THEN missed ELSE missed \cup {s}
  /\ UNCHANGED <<opened, served, tools, opening, manager, cached, unlisted>>
-----------------------------------------------------------------------------
(* _connect_server and _reconnect_server.                                  *)

OpenSession ==
  /\ manager = "up" /\ opening = NotOpening /\ opened + 1 \in Sessions
  /\ opened' = opened + 1
  /\ opening' = [session |-> opened + 1, got |-> NoListing]
  /\ UNCHANGED <<server, served, tools, dirty, claimed, registered, task, manager,
                 cached, missed, unlisted>>

ListOpening ==
  /\ opening # NotOpening /\ opening.got = NoListing
  /\ opening' = [opening EXCEPT !.got = server[opening.session].version]
  /\ UNCHANGED <<server, opened, served, tools, dirty, claimed, registered, task,
                 manager, cached, missed, unlisted>>

(* The old session is closed with its notices.                             *)
Silenced(s) == [server EXCEPT ![s].notices = 0]

(* conn.session and conn.tools are replaced together.                      *)
Install ==
  /\ opening.got # NoListing
  /\ served' = opening.session
  /\ tools' = [session |-> opening.session, version |-> opening.got]
  /\ server' = IF served = NoSession THEN server ELSE Silenced(served)
  /\ opening' = NotOpening /\ unlisted' = FALSE
  /\ UNCHANGED <<opened, dirty, claimed, registered, task, manager, cached, missed>>

OpenFails ==
  /\ opening # NotOpening /\ opening' = NotOpening
  /\ server' = Silenced(opening.session)
  /\ UNCHANGED <<opened, served, tools, dirty, claimed, registered, task, manager,
                 cached, missed, unlisted>>
-----------------------------------------------------------------------------
(* _drain_tools_refresh and _refresh_server_tools.                         *)

(* The finally: only the registered task gives the claim back.             *)
GivesBack(r) ==
  /\ registered' = IF registered = r THEN NoTask ELSE registered
  /\ claimed' = (claimed /\ registered # r)

(* The loop's head.  The mark goes before the question is asked, so that a *)
(* notice after it counts; without a connection the round ends at once.    *)
Loop(r) ==
  /\ dirty' = FALSE
  /\ IF dirty /\ served # NoSession
     THEN /\ task' = [task EXCEPT ![r] = [NewTask EXCEPT !.at = "asking", !.session = served]]
          /\ UNCHANGED <<registered, claimed>>
     ELSE task' = [task EXCEPT ![r] = NewTask] /\ GivesBack(r)

Begin(r) ==
  /\ task[r].at = "ready"
  /\ Loop(r)
  /\ UNCHANGED <<server, opened, served, tools, opening, manager, cached, missed, unlisted>>

Answer(r) ==
  /\ task[r].at = "asking" /\ task[r].session \in {served, opening.session}
  /\ task' = [task EXCEPT ![r].at = "answered", ![r].got = server[task[r].session].version]
  /\ UNCHANGED <<server, opened, served, tools, opening, dirty, claimed, registered,
                 manager, cached, missed, unlisted>>

(* list_tools raises, or the cancellation of stop() or start() arrives.    *)
AnswerFails(r) ==
  /\ task[r].at \in {"asking", "answered"}
  /\ task[r].cut \/ task[r].at = "asking"
  /\ GivesBack(r) /\ task' = [task EXCEPT ![r] = NewTask]
  /\ unlisted' = TRUE
  /\ UNCHANGED <<server, opened, served, tools, opening, dirty, manager, cached, missed>>

(* The connection, and its session, are those the question went to.        *)
Current(r) == served # NoSession /\ served = task[r].session

(* The listing is applied, and the cache rows it makes unsafe go; or it is  *)
(* dropped.                                                                *)
Apply(r) ==
  /\ task[r].at = "answered"
  /\ IF Current(r)
     THEN /\ tools' = [session |-> task[r].session, version |-> task[r].got]
          /\ cached' = cached \ (Eligible(tools.version) \ Eligible(task[r].got))
          /\ missed' = missed \ {served} /\ unlisted' = FALSE
     ELSE UNCHANGED <<tools, cached, missed, unlisted>>
  /\ Loop(r)
  /\ UNCHANGED <<server, opened, served, opening, manager>>

(* _on_background_task_done, for the task whose body never ran.            *)
Ended(r) ==
  /\ task[r].at = "ended"
  /\ GivesBack(r) /\ task' = [task EXCEPT ![r] = NewTask]
  /\ UNCHANGED <<server, opened, served, tools, opening, dirty, manager, cached, missed,
                 unlisted>>

(* A call of an eligible tool leaves a row.                                *)
Cached(t) ==
  /\ manager = "up" /\ served # NoSession /\ t \in Eligible(tools.version)
  /\ cached' = cached \cup {t}
  /\ UNCHANGED <<server, opened, served, tools, opening, dirty, claimed, registered,
                 task, manager, missed, unlisted>>
-----------------------------------------------------------------------------
(* stop(), and start() of a manager that was not stopped: the tasks are    *)
(* cancelled, waited for within a budget, and the marks are set right.     *)

CutTasks ==
  task' = [r \in Tasks |->
             CASE task[r].at = "ready" -> [task[r] EXCEPT !.at = "ended"]
               [] task[r].at \in {"asking", "answered"} -> [task[r] EXCEPT !.cut = TRUE]
               [] OTHER -> task[r]]

Stop ==
  /\ manager = "up" /\ manager' = "stopping"
  /\ CutTasks
  /\ UNCHANGED <<server, opened, served, tools, opening, dirty, claimed, registered,
                 cached, missed, unlisted>>

StartAgain ==
  /\ manager = "up" /\ opening = NotOpening /\ manager' = "restarting"
  /\ CutTasks
  /\ served' = NoSession /\ dirty' = FALSE
  /\ server' = IF served = NoSession THEN server ELSE Silenced(served)
  /\ UNCHANGED <<opened, tools, opening, claimed, registered, cached, missed, unlisted>>

(* A bug: the claims are cleared with the marks.                           *)
ClearedClaims ==
  registered' = NoTask /\ claimed' = FALSE

(* A task that outlives the wait keeps its entry and its claim.            *)
KeptClaims ==
  LET stays == registered # NoTask /\ Alive(registered) IN
  /\ registered' = IF stays THEN registered ELSE NoTask
  /\ claimed' = (claimed /\ stays)

(* Every task has ended, or the budget is spent.                           *)
Stopped ==
  /\ manager \in {"stopping", "restarting"}
  /\ manager' = IF manager = "stopping" THEN "down" ELSE "up"
  /\ dirty' = (dirty /\ manager = "restarting")
  /\ KeptClaims
  /\ served' = NoSession /\ opening' = NotOpening
  /\ server' = [s \in Sessions |-> [server[s] EXCEPT !.notices = 0]]
  /\ UNCHANGED <<opened, tools, task, cached, missed, unlisted>>

StartManager ==
  /\ manager = "down" /\ manager' = "up"
  /\ UNCHANGED <<server, opened, served, tools, opening, dirty, claimed, registered,
                 task, cached, missed, unlisted>>

RefreshNext ==
  \/ \E s \in Sessions : Changes(s) \/ Notified(s)
  \/ OpenSession \/ ListOpening \/ Install \/ OpenFails
  \/ \E r \in Tasks : Begin(r) \/ Answer(r) \/ AnswerFails(r) \/ Apply(r) \/ Ended(r)
  \/ \E v \in Versions : \E t \in Eligible(v) : Cached(t)
  \/ Stop \/ StartAgain \/ Stopped \/ StartManager

RefreshSpec == RefreshInit /\ [][RefreshNext]_refreshVars
-----------------------------------------------------------------------------
RefreshTypeOK ==
  /\ server \in [Sessions -> [version : Versions, notices : Versions]]
  /\ opened \in Sessions \cup {0} /\ served \in Sessions \cup {NoSession}
  /\ tools \in [session : Sessions \cup {NoSession}, version : Versions]
  /\ opening \in [session : Sessions \cup {NoSession}, got : Versions \cup {NoListing}]
  /\ dirty \in BOOLEAN /\ claimed \in BOOLEAN /\ registered \in Tasks \cup {NoTask}
  /\ task \in [Tasks -> [at : TaskStates, session : Sessions \cup {NoSession},
                         got : Versions \cup {NoListing}, cut : BOOLEAN]]
  /\ manager \in {"up", "stopping", "restarting", "down"}
  /\ cached \subseteq UNION {Eligible(v) : v \in Versions}
  /\ missed \subseteq Sessions /\ unlisted \in BOOLEAN

(* At most one refresh is alive, across stops and starts and tasks that do *)
(* not heed their cancellation; and a claim has a task, or every later     *)
(* notice of the upstream would be dropped.                                *)
OneRefresh ==
  /\ RefreshTypeOK
  /\ Cardinality({r \in Tasks : Alive(r)}) <= 1
  /\ claimed <=> registered # NoTask
  /\ claimed => task[registered].at # "none"

(* The list in use is never replaced by an older one, of an older session  *)
(* or of the same.                                                         *)
ListingsAdvance ==
  [][tools' # tools =>
       \/ tools'.session > tools.session
       \/ tools'.session = tools.session /\ tools'.version >= tools.version]_refreshVars

(* Work that will bring the list of the installed session up to date: a    *)
(* notice on its way, a refresh that has yet to ask, one whose answer will *)
(* be, or is, the present list.                                            *)
OnItsWay ==
  \/ server[served].notices > 0
  \/ dirty /\ claimed
  \/ \E r \in Tasks :
       /\ task[r].session = served
       /\ \/ task[r].at = "asking"
          \/ task[r].at = "answered" /\ task[r].got = server[served].version

Outdated ==
  manager = "up" /\ served # NoSession /\ tools.version # server[served].version

(* An outdated list is about to be refreshed, unless a refresh failed or   *)
(* the notice came before the session was installed.                       *)
ListCatchesUp == Outdated /\ ~unlisted /\ served \notin missed => OnItsWay

(* One refresh at a time, and none is owed when all is quiet.              *)
RefreshIsSound == OneRefresh /\ ListCatchesUp
=============================================================================
