------------------------------ MODULE Scheduler ------------------------------
(***************************************************************************)
(* The scheduler and the commands it runs: WebSchedulerService,            *)
(* WebCommandService with its worker task, and where the schedule is kept. *)
(*                                                                         *)
(* The main loop walks the list of schedules in WebSchedulerService::loop, *)
(* one step per schedule here.  Between two steps the web server task may  *)
(* save another list (update clears the std::list the loop walks and the   *)
(* pointers in cmd_changed_ lead into), switch a schedule on or off, or    *)
(* write an entity whose change triggers a schedule; the worker runs what  *)
(* was handed to it; the power may fail.  The mutex of StatefulService is  *)
(* not taken by the loop.                                                  *)
(*                                                                         *)
(* A pointer into the list is a position in it, and Dangling once the list *)
(* has been cleared.  What is read through it is undefined: any command or *)
(* none is run (or the device restarts, which it may do at any time).      *)
(***************************************************************************)
EXTENDS Integers, Sequences

CONSTANTS
    Lists,              \* schedules that may be saved: sequences of ScheduleItem
    Commands,           \* the commands WebCommandService knows
    Offloaded,          \* those that wait for a server and go to the worker
    Written,            \* Written[c]: the entity command c writes, or None
    Entities,           \* entities whose change can trigger a schedule
    Conditions,         \* expressions of condition schedules
    Minutes,            \* minutes of the day the clock takes
    MaxJobs,            \* EMSESP_COMMAND_QUEUE_SIZE
    MaxStartupRetries,  \* MAX_STARTUP_RETRIES
    MaxUptime,          \* minutes since the start (bound)
    MaxActs,            \* acts of users, entities, clock and power (bound)
    None

NoRetry  == 255         \* retry_cnt of a new item
Dangling == 0

Names == UNION {{l[i].name : i \in DOMAIN l} : l \in Lists}

ScheduleItem ==
    [name : Names, kind : {"startup", "interval", "onchange", "condition", "calendar"},
     arg : Entities \cup Conditions \cup Minutes \cup {None}, cmd : Commands,
     active : BOOLEAN, retry : 0..MaxStartupRetries \cup {1, NoRetry}]

ASSUME SchedulerAssumption ==
    /\ \A l \in Lists : l \in Seq(ScheduleItem)
    /\ \A l \in Lists : \A i \in DOMAIN l :
          /\ l[i].retry = NoRetry
          /\ l[i].kind \in {"interval", "calendar"} => l[i].arg \in Minutes
          /\ l[i].kind = "condition" => l[i].arg \in Conditions
    /\ \A l \in Lists : \A i, j \in DOMAIN l : l[i].name = l[j].name => i = j
    /\ Offloaded \subseteq Commands
    /\ Written \in [Commands -> Entities \cup {None}]
    /\ Minutes \subseteq Nat \ {0}
    /\ None \notin Entities /\ None \notin BOOLEAN /\ None \notin Lists
    /\ None \notin Nat /\ None # <<>>
    /\ MaxJobs \in Nat \ {0} /\ MaxStartupRetries \in 1..(NoRetry - 1)
    /\ MaxUptime \in Nat /\ MaxActs \in Nat

VARIABLES
    items,      \* scheduleItems
    changed,    \* cmd_changed_
    phase,      \* the part of loop() the main loop is in
    pos,        \* the schedule it visits next
    ten,        \* have ten seconds begun since the last check of conditions
    uptime,     \* minutes since the start
    lastMin,    \* last_uptime_min
    clock,      \* the minute (of one hour of the day), or None while the year is not valid
    lastTm,     \* last_tm_min: -2 until the start-up schedules have run
    truth,      \* truth[c]: what compute() makes of condition c
    jobs,       \* commandQueue_
    busy,       \* the job the worker executes, or None
    file,       \* emsespScheduler.json, None when truncated
    draft,      \* what writeToFS is about to write, or None
    unsaved,    \* an update whose client has not disconnected
    nvs,        \* nvs[n]: the state of schedule n kept in NVS, or None
    storing,    \* the schedule just switched whose state is not yet in NVS, or None
    unkept,     \* history: names of schedules whose last switch NVS may not have
    acts,       \* bound
    tries,      \* history: tries[n] counts runs of start-up schedule n since boot
    done,       \* history: start-up schedules that ran successfully since boot
    fired,      \* history: fired[n] counts runs of n since its condition was "0"
    lost        \* history: may NVS hold a key that belongs to no schedule

list    == <<items, changed>>
walk    == <<phase, pos>>
time    == <<ten, uptime, lastMin, lastTm>>
world   == <<clock, truth>>
worker  == <<jobs, busy>>
store   == <<file, draft, unsaved, nvs, storing, unkept>>
history == <<tries, done, fired, lost>>
vars    == <<list, walk, time, world, worker, store, acts, history>>

(* update builds the list from JSON; a state kept in NVS overrides its own.  *)
LoadedAnew(l, keys) ==                                      \* mutant
    [i \in DOMAIN l |-> [l[i] EXCEPT !.retry = 0]]
LoadedFromFile(l, keys) == l                                \* mutant
Loaded(l, keys) ==
    [i \in DOMAIN l |->
        [l[i] EXCEPT !.retry = NoRetry,
                     !.active = IF keys[l[i].name] = None THEN @ ELSE keys[l[i].name]]]

Init ==
    /\ \E l \in Lists : file = l /\ items = l
    /\ changed = <<>> /\ phase = "idle" /\ pos = 1
    /\ ten = FALSE /\ uptime = 0 /\ lastMin = 0 /\ lastTm = -2
    /\ clock = None /\ truth = [c \in Conditions |-> "0"]
    /\ jobs = <<>> /\ busy = None
    /\ draft = None /\ unsaved = FALSE /\ nvs = [n \in Names |-> None]
    /\ storing = None /\ unkept = {}
    /\ acts = 0 /\ tries = [n \in Names |-> 0]
    /\ done = {} /\ fired = [n \in Names |-> 0] /\ lost = FALSE

-----------------------------------------------------------------------------
(* dispatchCommand: an offloaded command succeeds when it finds room in the   *)
(* queue, any other when it has run.                                          *)
OutcomesLate(c) == IF c \in Offloaded THEN {Len(jobs) + 1 < MaxJobs} ELSE BOOLEAN \* mutant
Outcomes(c)  == IF c \in Offloaded THEN {Len(jobs) < MaxJobs} ELSE BOOLEAN
JobsAfter(c) == IF c \in Offloaded /\ Len(jobs) < MaxJobs THEN Append(jobs, c) ELSE jobs

(* onChange: the first active schedule on entity e is queued, no other.       *)
OnChange(q, e) ==
    LET hits == {i \in DOMAIN items : /\ items[i].active
                                      /\ items[i].kind = "onchange" /\ items[i].arg = e}
    IN  IF hits = {} THEN q ELSE Append(q, CHOOSE i \in hits : \A j \in hits : i <= j)

Notified(q, c, ok) == IF ok /\ c \notin Offloaded THEN OnChange(q, Written[c]) ELSE q

RunScheduleCommand(c, ok) ==
    /\ ok \in Outcomes(c)
    /\ jobs' = JobsAfter(c)
    /\ changed' = Notified(changed, c, ok)

RunNothing == UNCHANGED <<changed, jobs>>

-----------------------------------------------------------------------------
(* WebSchedulerService::loop.                                                 *)
Visit(p) ==
    /\ phase = p /\ pos \in DOMAIN items
    /\ pos' = pos + 1
    /\ UNCHANGED <<phase, time, world, busy, store, acts, lost>>

SetRetry(n) == items' = [items EXCEPT ![pos].retry = n]

LoopBegins ==
    /\ phase = "idle" /\ items # <<>> /\ uptime > 0
    /\ phase' = "changes"
    /\ UNCHANGED <<list, pos, time, world, worker, store, acts, history>>

(* The schedule is copied and run, also if it has been switched off; what the *)
(* command itself changes is appended before the front is removed.            *)
RunChange ==
    /\ phase = "changes" /\ changed # <<>>
    /\ phase' = "ran"
    /\ \/ \E c \in IF Head(changed) = Dangling THEN Commands ELSE {items[Head(changed)].cmd} :
          \E ok \in BOOLEAN : RunScheduleCommand(c, ok)
       \/ Head(changed) = Dangling /\ RunNothing
    /\ UNCHANGED <<items, pos, time, world, busy, store, acts, history>>

PopChange ==
    /\ phase = "ran"
    /\ phase' = "changes" /\ changed' = Tail(changed)
    /\ UNCHANGED <<items, pos, time, world, worker, store, acts, history>>

FiresAgain(it) == it.active /\ it.kind = "condition" /\ truth[it.arg] = "1"     \* mutant
Fires(it) == it.active /\ it.kind = "condition" /\ truth[it.arg] = "1" /\ it.retry = NoRetry
Falls(it) == it.active /\ it.kind = "condition" /\ truth[it.arg] = "0" /\ it.retry = 1

Condition ==
    /\ Visit("conditions")
    /\ LET it == items[pos] IN
       \/ Fires(it) /\ \E ok \in BOOLEAN :
             /\ RunScheduleCommand(it.cmd, ok)
             /\ SetRetry(IF ok THEN 1 ELSE NoRetry)
             /\ fired' = IF ok THEN [fired EXCEPT ![it.name] = @ + 1] ELSE fired
       \/ Falls(it) /\ SetRetry(NoRetry) /\ RunNothing /\ UNCHANGED fired
       \/ ~Fires(it) /\ ~Falls(it) /\ RunNothing /\ UNCHANGED <<items, fired>>
    /\ UNCHANGED <<tries, done>>

(* A start-up schedule, here and at the retries, with its next retry_cnt.     *)
RunStartup(it, failed) ==
    \E ok \in BOOLEAN :
        /\ RunScheduleCommand(it.cmd, ok)
        /\ SetRetry(IF ok THEN NoRetry ELSE failed)
        /\ tries' = [tries EXCEPT ![it.name] = @ + 1]
        /\ done' = IF ok THEN done \cup {it.name} ELSE done

Startup ==
    /\ Visit("startup")
    /\ LET it == items[pos]
           due == it.active /\ it.kind = "startup"
       IN  \/ due /\ RunStartup(it, 0)
           \/ ~due /\ RunNothing /\ UNCHANGED <<items, tries, done>>
    /\ UNCHANGED fired

RetryAnyway(it) == it.active /\ it.kind = "startup"         \* mutant
RetryDue(it)    == it.active /\ it.kind = "startup" /\ it.retry < MaxStartupRetries
IntervalDue(it) == it.active /\ it.kind = "interval" /\ lastMin % it.arg = 0

Minute ==
    /\ Visit("minutes")
    /\ LET it == items[pos] IN
       \/ RetryDue(it) /\ RunStartup(it, it.retry + 1)
       \/ IntervalDue(it) /\ \E ok \in BOOLEAN : RunScheduleCommand(it.cmd, ok)
          /\ UNCHANGED <<items, tries, done>>
       \/ ~RetryDue(it) /\ ~IntervalDue(it) /\ RunNothing /\ UNCHANGED <<items, tries, done>>
    /\ UNCHANGED fired

Calendar ==
    /\ Visit("calendar")
    /\ LET it  == items[pos]
           due == it.active /\ it.kind = "calendar" /\ it.arg = lastTm
       IN  \/ due /\ \E ok \in BOOLEAN : RunScheduleCommand(it.cmd, ok)
           \/ ~due /\ RunNothing
    /\ UNCHANGED <<items, tries, done, fired>>

(* The list was cleared under the iterator, which leads into freed nodes: it  *)
(* may find one more command there before the walk ends.  What it runs is not *)
(* counted in tries, done and fired, which say nothing of such a walk.        *)
LostIterator ==
    /\ phase # "idle" /\ pos = Dangling
    /\ pos' = Len(items) + 1
    /\ \/ \E c \in Commands : \E ok \in BOOLEAN : RunScheduleCommand(c, ok)
       \/ RunNothing
    /\ UNCHANGED <<items, phase, time, world, busy, store, acts, history>>

(* From one part of loop() to the next, which is skipped when it is not due.  *)
Enter(p, due) ==
    /\ phase' = p
    /\ pos' = IF due THEN 1 ELSE Len(items) + 1
    /\ UNCHANGED <<list, uptime, world, worker, store, acts, history>>

Walked(p) == phase = p /\ pos > Len(items)

CheckConditions ==
    /\ phase = "changes" /\ changed = <<>>
    /\ Enter("conditions", ten)
    /\ ten' = FALSE /\ UNCHANGED <<lastMin, lastTm>>

CheckStartup ==
    /\ Walked("conditions")
    /\ Enter("startup", lastTm = -2)
    /\ lastTm' = IF lastTm = -2 THEN -1 ELSE lastTm
    /\ UNCHANGED <<ten, lastMin>>

CheckMinute ==
    /\ Walked("startup")
    /\ Enter("minutes", lastMin # uptime)
    /\ lastMin' = uptime /\ UNCHANGED <<ten, lastTm>>

CheckCalendar ==
    /\ Walked("minutes")
    /\ Enter("calendar", clock \notin {None, lastTm})
    /\ lastTm' = IF clock = None THEN lastTm ELSE clock
    /\ UNCHANGED <<ten, lastMin>>

LoopEnds ==
    /\ Walked("calendar")
    /\ phase' = "idle" /\ pos' = 1
    /\ UNCHANGED <<list, time, world, worker, store, acts, history>>

-----------------------------------------------------------------------------
(* The worker: command_task takes a job and executes it, whatever comes of it. *)
TakeJob ==
    /\ busy = None /\ jobs # <<>>
    /\ busy' = Head(jobs) /\ jobs' = Tail(jobs)
    /\ UNCHANGED <<list, walk, time, world, store, acts, history>>

FinishJob ==
    /\ busy # None
    /\ changed' \in {changed, OnChange(changed, Written[busy])}
    /\ busy' = None
    /\ UNCHANGED <<items, walk, time, world, jobs, store, acts, history>>

-----------------------------------------------------------------------------
(* The web server task, MQTT and the entities.                                *)
Act == acts < MaxActs /\ acts' = acts + 1

(* onChange, from a device value, a sensor or a custom entity.                *)
EntityChanges ==
    /\ Act
    /\ \E e \in Entities : changed' = OnChange(changed, e)
    /\ UNCHANGED <<items, walk, time, world, worker, store, history>>

(* command_setvalue switches a schedule, publishes that, and then stores the  *)
(* state of the schedule in NVS; one command at a time does so (bound).        *)
SetActive ==
    /\ Act
    /\ storing = None
    /\ \E i \in DOMAIN items :
          /\ items' = [items EXCEPT ![i].active = ~@]
          /\ storing' = i
          /\ unkept' = unkept \cup {items[i].name}
    /\ UNCHANGED <<changed, walk, time, world, worker, file, draft, unsaved, nvs, history>>

(* Nothing looks at what putBool returns: it stores nothing when NVS is full   *)
(* or the key, "s:" and the name, is longer than the 15 characters NVS takes.  *)
(* When the list was replaced meanwhile, key and state are read in freed       *)
(* memory.                                                                     *)
Stored(n, b) == nvs' = [nvs EXCEPT ![n] = b]

StoreActive ==
    /\ storing # None
    /\ storing' = None
    /\ \/ UNCHANGED <<nvs, unkept, lost>>
       \/ /\ storing # Dangling
          /\ Stored(items[storing].name, items[storing].active)
          /\ unkept' = unkept \ {items[storing].name}
          /\ UNCHANGED lost
       \/ /\ storing = Dangling
          /\ \E n \in Names, b \in BOOLEAN : Stored(n, b) /\ unkept' = unkept \cup {n}
          /\ lost' = TRUE
    /\ UNCHANGED <<list, walk, time, world, worker, file, draft, unsaved, acts,
                   tries, done, fired>>

(* update: the keys of the schedules there were are removed from NVS.         *)
KeysKept == nvs                                            \* mutant
KeysLeft == [n \in Names |-> IF \E i \in DOMAIN items : items[i].name = n THEN None ELSE nvs[n]]

Update(l) ==
    /\ items' = Loaded(l, KeysLeft)
    /\ nvs' = KeysLeft
    /\ changed' = [i \in DOMAIN changed |-> Dangling]
    /\ pos' = IF phase \in {"idle", "changes", "ran"} THEN pos
              ELSE IF pos <= Len(items) THEN Dangling ELSE Len(l) + 1
    /\ unsaved' = TRUE
    /\ storing' = IF storing = None THEN None ELSE Dangling
    /\ unkept' = {}
    /\ fired' = [n \in Names |-> 0]

SaveList ==
    /\ Act
    /\ draft = None
    /\ \E l \in Lists : Update(l)
    /\ UNCHANGED <<phase, time, world, worker, file, draft, tries, done, lost>>

(* The client disconnects: writeToFS reads the list and truncates the file,   *)
(* then writes what it has read.                                              *)
OpenFile ==
    /\ unsaved /\ draft = None
    /\ draft' = items /\ file' = None
    /\ UNCHANGED <<list, walk, time, world, worker, unsaved, nvs, storing, unkept, acts,
                   history>>

WriteFile ==
    /\ draft # None
    /\ file' = draft /\ draft' = None /\ unsaved' = FALSE
    /\ UNCHANGED <<list, walk, time, world, worker, nvs, storing, unkept, acts, history>>

(* A power cut or a crash, and the start: a file that cannot be read is       *)
(* replaced by an empty schedule.                                             *)
Restart ==
    /\ Act
    /\ file' = IF file = None THEN <<>> ELSE file
    /\ items' = Loaded(file', nvs)
    /\ changed' = <<>> /\ phase' = "idle" /\ pos' = 1
    /\ ten' = FALSE /\ uptime' = 0 /\ lastMin' = 0 /\ lastTm' = -2
    /\ clock' = None /\ jobs' = <<>> /\ busy' = None
    /\ draft' = None /\ unsaved' = FALSE /\ storing' = None /\ unkept' = {}
    /\ tries' = [n \in Names |-> 0] /\ done' = {} /\ fired' = [n \in Names |-> 0]
    /\ lost' = (lost \/ unsaved)
    /\ UNCHANGED <<truth, nvs>>

-----------------------------------------------------------------------------
(* Time and the values of the conditions.                                     *)
TenSeconds ==
    /\ ~ten /\ ten' = TRUE
    /\ UNCHANGED <<list, walk, uptime, lastMin, lastTm, world, worker, store, acts, history>>

NextMinute ==
    /\ uptime < MaxUptime
    /\ uptime' = uptime + 1 /\ ten' = TRUE
    /\ UNCHANGED <<list, walk, lastMin, lastTm, world, worker, store, acts, history>>

SetClock ==
    /\ Act
    /\ clock' \in Minutes \ {clock}
    /\ UNCHANGED <<list, walk, time, truth, worker, store, history>>

ConditionChanges ==
    /\ Act
    /\ \E c \in Conditions : \E v \in {"0", "1", "other"} \ {truth[c]} :
          /\ truth' = [truth EXCEPT ![c] = v]
          /\ fired' = [n \in Names |->
                IF v = "0" /\ \E i \in DOMAIN items : items[i].name = n /\ items[i].arg = c
                THEN 0 ELSE fired[n]]
    /\ UNCHANGED <<list, walk, time, clock, worker, store, tries, done, lost>>

Loop ==
    \/ LoopBegins \/ RunChange \/ PopChange
    \/ CheckConditions \/ Condition \/ CheckStartup \/ Startup
    \/ CheckMinute \/ Minute \/ CheckCalendar \/ Calendar
    \/ LostIterator \/ LoopEnds

Worker == TakeJob \/ FinishJob

Next ==
    \/ Loop \/ Worker
    \/ EntityChanges \/ SetActive \/ StoreActive \/ SaveList \/ OpenFile \/ WriteFile \/ Restart
    \/ TenSeconds \/ NextMinute \/ SetClock \/ ConditionChanges

Spec == Init /\ [][Next]_vars

(* The main loop and the worker run and time passes.                          *)
FairSpec ==
    /\ Spec
    /\ WF_vars(Loop) /\ WF_vars(Worker) /\ WF_vars(TenSeconds) /\ WF_vars(NextMinute)

-----------------------------------------------------------------------------
(* Since a start, a start-up command is run once and retried at most          *)
(* MAX_STARTUP_RETRIES times, whoever edits the schedule meanwhile: an edit    *)
(* ends its retries, as it does not begin them again.                         *)
StartupBounded == \A n \in Names : tries[n] <= 1 + MaxStartupRetries

(* The variables hold values of the C++ members they stand for, and neither   *)
(* the queue of jobs nor the attempts of a start-up exceed their limits.      *)
TypeOK ==
    /\ StartupBounded
    /\ items \in Seq(ScheduleItem)
    /\ \A i \in DOMAIN changed : changed[i] \in 0..Len(items)
    /\ phase \in {"idle", "changes", "ran", "conditions", "startup", "minutes", "calendar"}
    /\ pos \in 0..(Len(items) + 1)
    /\ ten \in BOOLEAN /\ unsaved \in BOOLEAN /\ lost \in BOOLEAN
    /\ uptime \in 0..MaxUptime /\ lastMin \in 0..uptime
    /\ clock \in Minutes \cup {None} /\ lastTm \in Minutes \cup {-2, -1}
    /\ truth \in [Conditions -> {"0", "1", "other"}]
    /\ jobs \in Seq(Commands) /\ Len(jobs) <= MaxJobs /\ busy \in Commands \cup {None}
    /\ file \in Seq(ScheduleItem) \cup {None} /\ draft \in Seq(ScheduleItem) \cup {None}
    /\ nvs \in [Names -> BOOLEAN \cup {None}]
    /\ storing \in 0..Len(items) \cup {None} /\ unkept \subseteq Names
    /\ acts \in 0..MaxActs /\ tries \in [Names -> Nat]
    /\ done \subseteq Names /\ fired \in [Names -> Nat]

(* Having been dispatched, it is not run again before the next start, though  *)
(* the schedule is still active, is checked every minute, and its retry_cnt   *)
(* is the same field as the latch of the conditions.                          *)
StartupOnce ==
    [][\A n \in done : n \in done' => tries'[n] = tries[n]]_vars

(* A condition schedule whose command was dispatched is run again only after  *)
(* its condition was false or the schedule was edited, not every ten seconds   *)
(* and not when it is switched off and on.                                    *)
OncePerRise == \A n \in Names : fired[n] <= 1

(* A condition that remains true is acted upon, if only its command finds     *)
(* room in the queue in the end: one dropped by the full queue is not latched. *)
Waiting(i) ==
    /\ i \in DOMAIN items
    /\ items[i].active /\ items[i].kind = "condition" /\ items[i].cmd \in Offloaded
    /\ truth[items[i].arg] = "1" /\ items[i].retry = NoRetry

ConditionServed == \A i \in 1..2 : ~<>[](uptime > 0 /\ Waiting(i))

(* After a restart a schedule is on or off as it was before, however it was   *)
(* saved and switched, if the last edit has reached the file and the last      *)
(* switch has reached NVS: the switch is stored last, its result is not looked *)
(* at, and a name of more than 13 letters makes a key that NVS refuses, so a   *)
(* command that reports success may be forgotten by the restart.               *)
State(l) == [n \in Names |-> {l[i].active : i \in {k \in DOMAIN l : l[k].name = n}}]

RestartKeeps ==
    [][Restart /\ ~unsaved => \A n \in Names \ unkept : State(items')[n] = State(items)[n]]_vars

(* An edit leaves every schedule on or off as its author saved it: no state   *)
(* kept in NVS from before overrides it, as long as no restart has lost an     *)
(* edit and no state has been stored for a list that was replaced, either of   *)
(* which leaves a key in NVS that no edit removes.                             *)
EditApplies ==
    [][\A l \in Lists : Update(l) /\ ~lost => State(items') = State(l)]_vars
=============================================================================
