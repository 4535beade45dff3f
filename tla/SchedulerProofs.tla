--------------------------- MODULE SchedulerProofs ---------------------------
(***************************************************************************)
(* Theorems about Scheduler, for every list of schedules, every set of     *)
(* commands and every bound.                                               *)
(*                                                                         *)
(* IInv joins the types, what retry_cnt says of the runs of a start-up     *)
(* schedule (StartupInv), what it says of a condition that has fired       *)
(* (RiseInv), and what the file and NVS together say of the list           *)
(* (StoreInv).  Lemmas on the list come first: SetRetry, SetActive and     *)
(* Loaded change counters and states, never which schedules there are.     *)
(***************************************************************************)
EXTENDS Scheduler, SequenceTheorems, WellFoundedInduction, TLAPS

-----------------------------------------------------------------------------
(* Lists of schedules.                                                        *)
LEMMA SmallestExists ==
    ASSUME NEW S \in SUBSET Nat, S # {}
    PROVE  \E i \in S : \A j \in S : i <= j
<1> DEFINE R == OpToRel(<, Nat)
<1>1. IsWellFoundedOn(R, Nat)
  BY NatLessThanWellFounded, Zenon
<1> HIDE DEF R
<1>2. PICK i \in S : \A j \in S : <<j, i>> \notin R
  BY <1>1, WFMin, Zenon
<1>3. \A j \in S : ~(j < i)
  BY <1>2 DEF R, OpToRel
<1> QED
  BY <1>3

Retries == 0..MaxStartupRetries \cup {1, NoRetry}

Named(l)    == \A i, j \in DOMAIN l : l[i].name = l[j].name => i = j
CondArgs(l) == \A i \in DOMAIN l : l[i].kind = "condition" => l[i].arg \in Conditions
ListOK(l)   == l \in Seq(ScheduleItem) /\ Named(l) /\ CondArgs(l)

(* m differs from l at most in the states and the counters of its schedules. *)
SameItems(l, m) ==
    /\ DOMAIN m = DOMAIN l /\ Len(m) = Len(l)
    /\ \A i \in DOMAIN l :
          m[i].name = l[i].name /\ m[i].kind = l[i].kind /\ m[i].arg = l[i].arg /\ m[i].cmd = l[i].cmd

(* What SetRetry and SetActive do to the list.                               *)
RetryAt(l, p, n) == [l EXCEPT ![p].retry = n]
SwitchedAt(l, p) == [l EXCEPT ![p].active = ~@]

LEMMA NoRetryType == NoRetry \in Nat /\ MaxStartupRetries \in Nat /\ MaxStartupRetries + 1 <= NoRetry
BY SchedulerAssumption DEF SchedulerAssumption, NoRetry

LEMMA ItemFields ==
    ASSUME NEW l \in Seq(ScheduleItem), NEW i \in DOMAIN l
    PROVE  /\ l[i] \in ScheduleItem /\ i \in 1..Len(l) /\ Len(l) \in Nat
           /\ l[i].name \in Names /\ l[i].cmd \in Commands
           /\ l[i].active \in BOOLEAN /\ l[i].retry \in Retries
<1>1. l[i] \in ScheduleItem /\ i \in 1..Len(l) /\ Len(l) \in Nat
  BY LenProperties, ElementOfSeq
<1> QED
  BY <1>1 DEF ScheduleItem, Retries

LEMMA WithRetry ==
    ASSUME NEW x \in ScheduleItem, NEW n \in Retries,
           NEW y, y = [x EXCEPT !.retry = n]
    PROVE  /\ y \in ScheduleItem
           /\ y.name = x.name /\ y.kind = x.kind /\ y.arg = x.arg /\ y.cmd = x.cmd
           /\ y.active = x.active /\ y.retry = n
BY DEF ScheduleItem, Retries

LEMMA WithActive ==
    ASSUME NEW x \in ScheduleItem, NEW a \in BOOLEAN,
           NEW y, y = [x EXCEPT !.active = a]
    PROVE  /\ y \in ScheduleItem
           /\ y.name = x.name /\ y.kind = x.kind /\ y.arg = x.arg /\ y.cmd = x.cmd
           /\ y.active = a /\ y.retry = x.retry
BY DEF ScheduleItem, Retries

LEMMA SameItemsOK ==
    ASSUME NEW l \in Seq(ScheduleItem), NEW m \in Seq(ScheduleItem),
           Named(l), CondArgs(l), SameItems(l, m)
    PROVE  ListOK(m)
BY DEF ListOK, Named, CondArgs, SameItems

LEMMA RetrySet ==
    ASSUME NEW l \in Seq(ScheduleItem), NEW p \in DOMAIN l, NEW n \in Retries
    PROVE  /\ RetryAt(l, p, n) \in Seq(ScheduleItem) /\ SameItems(l, RetryAt(l, p, n))
           /\ \A i \in DOMAIN l :
                 /\ RetryAt(l, p, n)[i].active = l[i].active
                 /\ RetryAt(l, p, n)[i].retry = IF i = p THEN n ELSE l[i].retry
<1> DEFINE e == [l[p] EXCEPT !.retry = n]
           m == [l EXCEPT ![p] = e]
<1>0. l[p] \in ScheduleItem /\ p \in 1..Len(l) /\ DOMAIN l = 1..Len(l)
  BY ItemFields, LenProperties
<1>1. e \in ScheduleItem /\ e.name = l[p].name /\ e.kind = l[p].kind /\ e.arg = l[p].arg
      /\ e.cmd = l[p].cmd /\ e.active = l[p].active /\ e.retry = n
  <2>1. e = [l[p] EXCEPT !.retry = n]
    OBVIOUS
  <2> HIDE DEF e
  <2> QED
    BY <1>0, <2>1, WithRetry
<1>2. RetryAt(l, p, n) = m
  BY DEF RetryAt
<1> HIDE DEF e
<1>3. m \in Seq(ScheduleItem) /\ Len(m) = Len(l)
      /\ \A i \in 1..Len(l) : m[i] = IF i = p THEN e ELSE l[i]
  BY <1>0, <1>1, ExceptSeq
<1>4. DOMAIN m = DOMAIN l
  OBVIOUS
<1> HIDE DEF m
<1>5. SameItems(l, m)
  BY <1>0, <1>1, <1>3, <1>4 DEF SameItems
<1>6. \A i \in DOMAIN l : m[i].active = l[i].active /\ m[i].retry = IF i = p THEN n ELSE l[i].retry
  BY <1>0, <1>1, <1>3
<1> QED
  BY <1>2, <1>3, <1>5, <1>6

LEMMA ActiveSwitched ==
    ASSUME NEW l \in Seq(ScheduleItem), NEW p \in DOMAIN l
    PROVE  /\ SwitchedAt(l, p) \in Seq(ScheduleItem) /\ SameItems(l, SwitchedAt(l, p))
           /\ \A i \in DOMAIN l :
                 /\ SwitchedAt(l, p)[i].retry = l[i].retry
                 /\ SwitchedAt(l, p)[i].active = IF i = p THEN ~l[i].active ELSE l[i].active
<1> DEFINE a == ~l[p].active
           e == [l[p] EXCEPT !.active = a]
           m == [l EXCEPT ![p] = e]
<1>0. l[p] \in ScheduleItem /\ p \in 1..Len(l) /\ DOMAIN l = 1..Len(l) /\ l[p].retry \in Retries
  BY ItemFields, LenProperties
<1>1. e \in ScheduleItem /\ e.name = l[p].name /\ e.kind = l[p].kind /\ e.arg = l[p].arg
      /\ e.cmd = l[p].cmd /\ e.active = a /\ e.retry = l[p].retry
  <2>1. a \in BOOLEAN
    OBVIOUS
  <2> HIDE DEF a
  <2>2. e = [l[p] EXCEPT !.active = a]
    OBVIOUS
  <2> HIDE DEF e
  <2> QED
    BY <1>0, <2>1, <2>2, WithActive
<1>2. SwitchedAt(l, p) = m
  BY DEF SwitchedAt
<1> HIDE DEF e
<1>3. m \in Seq(ScheduleItem) /\ Len(m) = Len(l)
      /\ \A i \in 1..Len(l) : m[i] = IF i = p THEN e ELSE l[i]
  BY <1>0, <1>1, ExceptSeq
<1>4. DOMAIN m = DOMAIN l
  OBVIOUS
<1> HIDE DEF m
<1>5. SameItems(l, m)
  BY <1>0, <1>1, <1>3, <1>4 DEF SameItems
<1>6. \A i \in DOMAIN l : m[i].retry = l[i].retry /\ m[i].active = IF i = p THEN ~l[i].active ELSE l[i].active
  BY <1>0, <1>1, <1>3
<1> QED
  BY <1>2, <1>3, <1>5, <1>6

LEMMA LoadedItems ==
    ASSUME NEW l \in Seq(ScheduleItem), NEW keys \in [Names -> BOOLEAN \cup {None}]
    PROVE  /\ Loaded(l, keys) \in Seq(ScheduleItem) /\ SameItems(l, Loaded(l, keys))
           /\ \A i \in DOMAIN l :
                 /\ Loaded(l, keys)[i].retry = NoRetry
                 /\ Loaded(l, keys)[i].active =
                       IF keys[l[i].name] = None THEN l[i].active ELSE keys[l[i].name]
<1> DEFINE a(i) == IF keys[l[i].name] = None THEN l[i].active ELSE keys[l[i].name]
           e(i) == [l[i] EXCEPT !.retry = NoRetry, !.active = a(i)]
           m == [i \in 1..Len(l) |-> e(i)]
<1>0. DOMAIN l = 1..Len(l) /\ Len(l) \in Nat /\ NoRetry \in Retries
  BY LenProperties DEF Retries
<1>1. ASSUME NEW i \in DOMAIN l
      PROVE  /\ e(i) \in ScheduleItem /\ e(i).name = l[i].name /\ e(i).kind = l[i].kind
             /\ e(i).arg = l[i].arg /\ e(i).cmd = l[i].cmd /\ e(i).active = a(i) /\ e(i).retry = NoRetry
  <2>1. l[i] \in ScheduleItem /\ l[i].name \in Names /\ l[i].active \in BOOLEAN
    BY ItemFields
  <2>2. a(i) \in BOOLEAN
    BY <2>1
  <2> HIDE DEF a
  <2> DEFINE d == [l[i] EXCEPT !.retry = NoRetry]
  <2>3. e(i) = [d EXCEPT !.active = a(i)] /\ d = [l[i] EXCEPT !.retry = NoRetry]
    BY <2>1 DEF ScheduleItem
  <2> HIDE DEF d, e
  <2>4. d \in ScheduleItem /\ d.name = l[i].name /\ d.kind = l[i].kind /\ d.arg = l[i].arg
        /\ d.cmd = l[i].cmd /\ d.retry = NoRetry
    BY <1>0, <2>1, <2>3, WithRetry
  <2>5. PICK b \in BOOLEAN : b = a(i)
    BY <2>2
  <2>6. e(i) = [d EXCEPT !.active = b]
    BY <2>3, <2>5
  <2>7. /\ e(i) \in ScheduleItem
        /\ e(i).name = d.name /\ e(i).kind = d.kind /\ e(i).arg = d.arg /\ e(i).cmd = d.cmd
        /\ e(i).active = b /\ e(i).retry = d.retry
    BY <2>4, <2>6, WithActive
  <2> QED
    BY <2>4, <2>5, <2>7
<1>2. Loaded(l, keys) = m
  BY <1>0 DEF Loaded
<1> HIDE DEF e, a
<1>3. m \in Seq(ScheduleItem)
  BY <1>0, <1>1, IsASeq
<1>4. DOMAIN m = DOMAIN l /\ Len(m) = Len(l) /\ \A i \in DOMAIN l : m[i] = e(i)
  <2>1. DOMAIN m = 1..Len(l) /\ \A i \in DOMAIN l : m[i] = e(i)
    BY <1>0
  <2>2. Len(m) = Len(l)
    BY <1>0, <1>3, <2>1
  <2> QED
    BY <1>0, <2>1, <2>2
<1> HIDE DEF m
<1>5. SameItems(l, m)
  BY <1>1, <1>4 DEF SameItems
<1>6. \A i \in DOMAIN l : m[i].retry = NoRetry /\ m[i].active = a(i)
  BY <1>1, <1>4
<1> QED
  BY <1>2, <1>3, <1>5, <1>6 DEF a

-----------------------------------------------------------------------------
(* The queues.                                                                *)
(* q holds pointers to schedules of the list, or dangling ones.              *)
Refs(q) == q \in Seq(Nat) /\ \A i \in DOMAIN q : q[i] \in 0..Len(items)

ListTypes ==
    /\ ListOK(items) /\ Refs(changed)
    /\ file \in Seq(ScheduleItem) \cup {None} /\ draft \in Seq(ScheduleItem) \cup {None}
    /\ file = None \/ ListOK(file)
    /\ draft = None \/ ListOK(draft)
    /\ nvs \in [Names -> BOOLEAN \cup {None}]

WalkTypes ==
    /\ phase \in {"idle", "changes", "ran", "conditions", "startup", "minutes", "calendar"}
    /\ pos \in 0..(Len(items) + 1)
    /\ phase \in {"idle", "changes", "ran"} => pos = 1

TimeTypes ==
    /\ ten \in BOOLEAN /\ unsaved \in BOOLEAN /\ lost \in BOOLEAN
    /\ uptime \in 0..MaxUptime /\ lastMin \in 0..uptime
    /\ clock \in Minutes \cup {None} /\ lastTm \in Minutes \cup {-2, -1}
    /\ truth \in [Conditions -> {"0", "1", "other"}]
    /\ acts \in 0..MaxActs

JobTypes == jobs \in Seq(Commands) /\ Len(jobs) <= MaxJobs /\ busy \in Commands \cup {None}

CountTypes == tries \in [Names -> Nat] /\ done \subseteq Names /\ fired \in [Names -> Nat]

KeepTypes == storing \in 0..Len(items) \cup {None} /\ unkept \subseteq Names

Types == ListTypes /\ WalkTypes /\ TimeTypes /\ JobTypes /\ CountTypes /\ KeepTypes

LEMMA OnChangeRefs ==
    ASSUME items \in Seq(ScheduleItem), NEW q, Refs(q), NEW e
    PROVE  Refs(OnChange(q, e))
<1> DEFINE hits == {i \in DOMAIN items : /\ items[i].active
                                         /\ items[i].kind = "onchange" /\ items[i].arg = e}
           first == CHOOSE i \in hits : \A j \in hits : i <= j
<1>1. CASE hits = {}
  <2>1. OnChange(q, e) = q
    BY <1>1, Zenon DEF OnChange
  <2> QED
    BY <2>1
<1>2. CASE hits # {}
  <2>1. DOMAIN items = 1..Len(items) /\ Len(items) \in Nat
    BY LenProperties
  <2>2. hits \in SUBSET Nat
    BY <2>1
  <2>3. first \in hits
    <3> HIDE DEF hits
    <3>1. \E i \in hits : \A j \in hits : i <= j
      BY <1>2, <2>2, SmallestExists
    <3> QED
      BY <3>1
  <2>4. first \in 1..Len(items)
    BY <2>1, <2>3
  <2>5. OnChange(q, e) = Append(q, first)
    BY <1>2, Zenon DEF OnChange
  <2> HIDE DEF first, hits
  <2>6. q \in Seq(Nat) /\ first \in Nat /\ Len(q) \in Nat /\ DOMAIN q = 1..Len(q)
    BY <2>1, <2>4, LenProperties DEF Refs
  <2>7. /\ Append(q, first) \in Seq(Nat) /\ Len(Append(q, first)) = Len(q) + 1
        /\ \A i \in 1..Len(q) : Append(q, first)[i] = q[i]
        /\ Append(q, first)[Len(q) + 1] = first
    BY <2>6, AppendProperties
  <2>8. DOMAIN Append(q, first) = 1..(Len(q) + 1)
    BY <2>7, LenProperties
  <2>9. ASSUME NEW i \in 1..(Len(q) + 1) PROVE Append(q, first)[i] \in 0..Len(items)
    <3>1. CASE i \in 1..Len(q)
      BY <2>6, <2>7, <3>1 DEF Refs
    <3>2. CASE i = Len(q) + 1
      BY <2>1, <2>4, <2>7, <3>2
    <3> QED
      BY <2>6, <3>1, <3>2
  <2> QED
    BY <2>5, <2>7, <2>8, <2>9 DEF Refs
<1> QED
  BY <1>1, <1>2

(* What running a command leaves in the two queues.                          *)
Ran == RunNothing \/ \E c \in Commands : \E ok \in BOOLEAN : RunScheduleCommand(c, ok)

RefsNext == changed' \in Seq(Nat) /\ \A i \in DOMAIN changed' : changed'[i] \in 0..Len(items)

LEMMA RanQueues ==
    ASSUME items \in Seq(ScheduleItem), Refs(changed), Ran,
           jobs \in Seq(Commands), Len(jobs) <= MaxJobs
    PROVE  RefsNext /\ jobs' \in Seq(Commands) /\ Len(jobs') <= MaxJobs
<1>1. CASE RunNothing
  BY <1>1 DEF RunNothing, RefsNext, Refs
<1>2. ASSUME NEW c \in Commands, NEW ok \in BOOLEAN, RunScheduleCommand(c, ok)
      PROVE  RefsNext /\ jobs' \in Seq(Commands) /\ Len(jobs') <= MaxJobs
  <2>1. changed' = Notified(changed, c, ok) /\ jobs' = JobsAfter(c)
    BY <1>2 DEF RunScheduleCommand
  <2>2. Refs(Notified(changed, c, ok))
    <3>1. Refs(OnChange(changed, Written[c]))
      BY OnChangeRefs
    <3> QED
      BY <3>1 DEF Notified
  <2>3. MaxJobs \in Nat /\ Len(jobs) \in Nat
    BY SchedulerAssumption, LenProperties DEF SchedulerAssumption
  <2>4. JobsAfter(c) \in Seq(Commands) /\ Len(JobsAfter(c)) <= MaxJobs
    <3>1. Append(jobs, c) \in Seq(Commands) /\ Len(Append(jobs, c)) = Len(jobs) + 1
      BY AppendProperties
    <3> QED
      BY <2>3, <3>1 DEF JobsAfter
  <2> QED
    BY <2>1, <2>2, <2>4 DEF Refs, RefsNext
<1> QED
  BY <1>1, <1>2 DEF Ran

(* Visiting a schedule runs a command or none and counts at that schedule    *)
(* only.                                                                     *)
Latched == UNCHANGED items \/ \E n \in Retries : items' = RetryAt(items, pos, n)

LEMMA LatchedItems ==
    ASSUME ListOK(items), pos \in DOMAIN items, Latched
    PROVE  ListOK(items') /\ SameItems(items, items')
<1>1. CASE UNCHANGED items
  BY <1>1 DEF SameItems
<1>2. ASSUME NEW n \in Retries, items' = RetryAt(items, pos, n)
      PROVE  ListOK(items') /\ SameItems(items, items')
  <2>1. items' \in Seq(ScheduleItem) /\ SameItems(items, items')
    BY <1>2, RetrySet DEF ListOK
  <2> QED
    BY <2>1, SameItemsOK DEF ListOK
<1> QED
  BY <1>1, <1>2 DEF Latched, ListOK

LEMMA VisitEffect ==
    ASSUME ListOK(items), Condition \/ Startup \/ Minute \/ Calendar
    PROVE  /\ Ran /\ Latched /\ pos \in DOMAIN items /\ pos' = pos + 1
           /\ phase \in {"conditions", "startup", "minutes", "calendar"}
           /\ UNCHANGED <<phase, time, world, busy, store, acts, lost>>
<1>1. pos \in DOMAIN items /\ pos' = pos + 1
      /\ phase \in {"conditions", "startup", "minutes", "calendar"}
      /\ UNCHANGED <<phase, time, world, busy, store, acts, lost>>
  BY DEF Condition, Startup, Minute, Calendar, Visit
<1> SUFFICES Ran /\ Latched
  BY <1>1
<1>2. /\ items[pos].cmd \in Commands /\ items[pos].retry \in Retries /\ items[pos].retry \in Nat
      /\ NoRetry \in Retries /\ 1 \in Retries /\ 0 \in Retries
  BY <1>1, ItemFields, NoRetryType DEF ListOK, Retries
<1>3. ASSUME NEW ok \in BOOLEAN, RunScheduleCommand(items[pos].cmd, ok) PROVE Ran
  BY <1>2, <1>3 DEF Ran
<1>4. ASSUME NEW n \in Retries, SetRetry(n) PROVE Latched
  BY <1>4 DEF SetRetry, Latched, RetryAt
<1>5. CASE Condition
  <2>1. CASE \E ok \in BOOLEAN : RunScheduleCommand(items[pos].cmd, ok)
                                 /\ SetRetry(IF ok THEN 1 ELSE NoRetry)
    BY <1>2, <1>3, <1>4, <2>1
  <2>2. CASE SetRetry(NoRetry) /\ RunNothing
    BY <1>2, <1>4, <2>2 DEF Ran
  <2>3. CASE RunNothing /\ UNCHANGED items
    BY <2>3 DEF Ran, Latched
  <2> QED
    BY <1>1, <1>5, <2>1, <2>2, <2>3 DEF Condition
<1>6. ASSUME NEW n \in Retries, RunStartup(items[pos], n) PROVE Ran /\ Latched
  BY <1>2, <1>3, <1>4, <1>6 DEF RunStartup
<1>7. CASE Startup
  <2>1. CASE RunStartup(items[pos], 0)
    BY <1>2, <1>6, <2>1
  <2>2. CASE RunNothing /\ UNCHANGED items
    BY <2>2 DEF Ran, Latched
  <2> QED
    BY <1>1, <1>7, <2>1, <2>2 DEF Startup
<1>8. CASE Minute
  <2>1. CASE RetryDue(items[pos]) /\ RunStartup(items[pos], items[pos].retry + 1)
    <3>1. items[pos].retry + 1 \in Retries
      BY <1>2, <2>1, NoRetryType DEF RetryDue, Retries
    <3> QED
      BY <1>6, <2>1, <3>1
  <2>2. CASE (\E ok \in BOOLEAN : RunScheduleCommand(items[pos].cmd, ok)) /\ UNCHANGED items
    BY <1>3, <2>2 DEF Latched
  <2>3. CASE RunNothing /\ UNCHANGED items
    BY <2>3 DEF Ran, Latched
  <2> QED
    BY <1>1, <1>8, <2>1, <2>2, <2>3 DEF Minute
<1>9. CASE Calendar
  <2>1. CASE (\E ok \in BOOLEAN : RunScheduleCommand(items[pos].cmd, ok)) /\ UNCHANGED items
    BY <1>3, <2>1 DEF Latched
  <2>2. CASE RunNothing /\ UNCHANGED items
    BY <2>2 DEF Ran, Latched
  <2> QED
    BY <1>1, <1>9, <2>1, <2>2 DEF Calendar
<1> QED
  BY <1>1, <1>5, <1>7, <1>8, <1>9

-----------------------------------------------------------------------------
(* The list, the file and NVS along a step.                                   *)
LEMMA SavedOK ==
    ASSUME NEW l \in Lists
    PROVE  ListOK(l) /\ l # None
BY SchedulerAssumption DEF SchedulerAssumption, ListOK, Named, CondArgs

LEMMA EmptyOK == ListOK(<<>>)
<1>1. <<>> \in Seq(ScheduleItem) /\ DOMAIN <<>> = {}
  OBVIOUS
<1> QED
  BY <1>1 DEF ListOK, Named, CondArgs

LEMMA LoadedOK ==
    ASSUME NEW l, ListOK(l), NEW keys \in [Names -> BOOLEAN \cup {None}]
    PROVE  ListOK(Loaded(l, keys)) /\ SameItems(l, Loaded(l, keys))
BY LoadedItems, SameItemsOK DEF ListOK

LEMMA UpdateEffect ==
    ASSUME ListTypes, NEW l \in Lists, Update(l)
    PROVE  /\ ListOK(items') /\ SameItems(l, items')
           /\ nvs' = KeysLeft /\ nvs' \in [Names -> BOOLEAN \cup {None}]
           /\ changed' \in Seq(Nat) /\ \A i \in DOMAIN changed' : changed'[i] = Dangling
<1>1. ListOK(l) /\ KeysLeft \in [Names -> BOOLEAN \cup {None}]
  BY SavedOK DEF ListTypes, KeysLeft
<1>2. items' = Loaded(l, KeysLeft) /\ nvs' = KeysLeft
      /\ changed' = [i \in DOMAIN changed |-> Dangling]
  BY DEF Update
<1>3. DOMAIN changed = 1..Len(changed) /\ Len(changed) \in Nat
  BY LenProperties DEF ListTypes, Refs
<1>4. [i \in 1..Len(changed) |-> Dangling] \in Seq(Nat)
  BY <1>3, IsASeq DEF Dangling
<1>5. changed' \in Seq(Nat) /\ \A i \in DOMAIN changed' : changed'[i] = Dangling
  BY <1>2, <1>3, <1>4
<1> QED
  BY <1>1, <1>2, <1>5, LoadedOK

LEMMA RestartEffect ==
    ASSUME ListTypes, Restart
    PROVE  /\ ListOK(file') /\ items' = Loaded(file', nvs) /\ ListOK(items') /\ SameItems(file', items')
           /\ file' = IF file = None THEN <<>> ELSE file
<1>1. ListOK(file') /\ items' = Loaded(file', nvs) /\ file' = IF file = None THEN <<>> ELSE file
  BY EmptyOK DEF Restart, ListTypes
<1>2. nvs \in [Names -> BOOLEAN \cup {None}]
  BY DEF ListTypes
<1> QED
  BY <1>1, <1>2, LoadedOK

LEMMA SwitchEffect ==
    ASSUME ListTypes, SetActive
    PROVE  /\ ListOK(items') /\ SameItems(items, items')
           /\ \A i \in DOMAIN items : items'[i].retry = items[i].retry
<1>1. PICK p \in DOMAIN items : items' = SwitchedAt(items, p)
  BY DEF SetActive, SwitchedAt
<1>2. items \in Seq(ScheduleItem)
  BY DEF ListTypes, ListOK
<1>3. items' \in Seq(ScheduleItem) /\ SameItems(items, items')
      /\ \A i \in DOMAIN items : items'[i].retry = items[i].retry
  BY <1>1, <1>2, ActiveSwitched
<1>4. ListOK(items')
  BY <1>3, SameItemsOK DEF ListTypes, ListOK
<1> QED
  BY <1>3, <1>4

(* putBool stores the state of the schedule that was switched, nothing, or,   *)
(* when its list is gone, any state under any name.                           *)
LEMMA StoreEffect ==
    ASSUME Types, StoreActive
    PROVE  \/ UNCHANGED <<nvs, unkept, lost>>
           \/ /\ storing \in DOMAIN items /\ Stored(items[storing].name, items[storing].active)
              /\ unkept' = unkept \ {items[storing].name} /\ UNCHANGED lost
           \/ /\ \E n \in Names, b \in BOOLEAN : Stored(n, b) /\ unkept' = unkept \cup {n}
              /\ lost' = TRUE
<1>1. storing # None /\ (storing # Dangling => storing \in 1..Len(items))
  BY LenProperties DEF StoreActive, Types, KeepTypes, ListTypes, ListOK, Dangling
<1>2. DOMAIN items = 1..Len(items)
  BY LenProperties DEF Types, ListTypes, ListOK
<1> QED
  BY <1>1, <1>2 DEF StoreActive

LEMMA StoredTypes ==
    ASSUME Types, NEW n \in Names, NEW b \in BOOLEAN, Stored(n, b)
    PROVE  /\ nvs' \in [Names -> BOOLEAN \cup {None}]
           /\ \A m \in Names : nvs'[m] = IF m = n THEN b ELSE nvs[m]
BY DEF Stored, Types, ListTypes

(* The actions that leave the list, the queue of changes and the file alone. *)
Quiet ==
    \/ LoopBegins \/ CheckConditions \/ CheckStartup \/ CheckMinute \/ CheckCalendar \/ LoopEnds
    \/ TakeJob \/ TenSeconds \/ NextMinute \/ SetClock \/ ConditionChanges

LEMMA NextCases ==
    Next <=> \/ Quiet \/ Condition \/ Startup \/ Minute \/ Calendar
             \/ RunChange \/ PopChange \/ LostIterator \/ FinishJob
             \/ EntityChanges \/ SetActive \/ StoreActive
             \/ SaveList \/ OpenFile \/ WriteFile \/ Restart
BY DEF Next, Loop, Worker, Quiet

LEMMA QuietKeeps ==
    ASSUME Quiet
    PROVE  UNCHANGED <<items, changed, store, lost, done, tries>>
BY DEF Quiet, LoopBegins, CheckConditions, CheckStartup, CheckMinute, CheckCalendar, LoopEnds, Enter,
       TakeJob, TenSeconds, NextMinute, SetClock, ConditionChanges, list, store, history

LEMMA RunChangeRan ==
    ASSUME ListTypes, RunChange
    PROVE  Ran /\ changed # <<>>
<1>0. changed \in Seq(Nat) /\ changed # <<>> /\ items \in Seq(ScheduleItem)
  BY DEF RunChange, ListTypes, Refs, ListOK
<1>1. Head(changed) = changed[1] /\ 1 \in DOMAIN changed
  BY <1>0
<1>2. Head(changed) \in 0..Len(items) /\ DOMAIN items = 1..Len(items) /\ Len(items) \in Nat
  BY <1>0, <1>1, LenProperties DEF ListTypes, Refs
<1>3. Head(changed) # Dangling => items[Head(changed)].cmd \in Commands
  BY <1>0, <1>2, ItemFields DEF Dangling
<1> QED
  BY <1>0, <1>3 DEF RunChange, Ran

LEMMA ListTypesNext ==
    ASSUME Types, [Next]_vars
    PROVE  ListTypes'
<1> USE DEF Types
<1>0. items \in Seq(ScheduleItem) /\ Refs(changed) /\ ListOK(items)
      /\ jobs \in Seq(Commands) /\ Len(jobs) <= MaxJobs
      /\ DOMAIN items = 1..Len(items) /\ Len(items) \in Nat
  BY LenProperties DEF ListTypes, ListOK, JobTypes
<1>1. ASSUME UNCHANGED <<items, changed, file, draft, nvs>> PROVE ListTypes'
  BY <1>1 DEF ListTypes, Refs
<1>2. ASSUME RefsNext, UNCHANGED <<items, file, draft, nvs>> PROVE ListTypes'
  BY <1>2 DEF ListTypes, Refs, RefsNext
<1>3. CASE UNCHANGED vars
  BY <1>1, <1>3 DEF vars, list, store
<1>4. CASE Quiet
  BY <1>1, <1>4, QuietKeeps DEF store
<1>5. CASE Condition \/ Startup \/ Minute \/ Calendar
  <2>1. Ran /\ ListOK(items') /\ SameItems(items, items') /\ UNCHANGED <<file, draft, nvs>>
    BY <1>0, <1>5, VisitEffect, LatchedItems DEF store
  <2>2. RefsNext
    BY <1>0, <2>1, RanQueues
  <2> QED
    BY <2>1, <2>2 DEF ListTypes, RefsNext, Refs, SameItems
<1>6. CASE RunChange
  BY <1>0, <1>2, <1>6, RunChangeRan, RanQueues DEF RunChange, store
<1>7. CASE PopChange
  <2>1. RefsNext
    <3>1. CASE changed = <<>>
      <4>1. Tail(changed) = <<>>
        BY <3>1
      <4>2. changed' = <<>>
        BY <1>7, <4>1 DEF PopChange
      <4> QED
        BY <4>2 DEF RefsNext
    <3>2. CASE changed # <<>>
      <4>1. changed \in Seq(Nat) /\ changed' = Tail(changed) /\ DOMAIN changed = 1..Len(changed)
            /\ Len(changed) \in Nat
        BY <1>0, <1>7, LenProperties DEF PopChange, Refs
      <4>2. changed' \in Seq(Nat) /\ Len(changed') = Len(changed) - 1
            /\ \A i \in 1..Len(changed') : changed'[i] = changed[i + 1]
        BY <3>2, <4>1, HeadTailProperties
      <4>3. DOMAIN changed' = 1..Len(changed')
        BY <4>2, LenProperties
      <4> QED
        BY <1>0, <4>1, <4>2, <4>3 DEF RefsNext, Refs
    <3> QED
      BY <3>1, <3>2
  <2> QED
    BY <1>2, <1>7, <2>1 DEF PopChange, store
<1>8. CASE LostIterator
  <2>1. Ran
    BY <1>8 DEF LostIterator, Ran
  <2> QED
    BY <1>0, <1>2, <1>8, <2>1, RanQueues DEF LostIterator, store
<1>9. CASE FinishJob
  <2>1. Refs(OnChange(changed, Written[busy]))
    BY <1>0, OnChangeRefs
  <2>2. RefsNext
    BY <1>0, <1>9, <2>1 DEF FinishJob, Refs, RefsNext
  <2> QED
    BY <1>2, <1>9, <2>2 DEF FinishJob, store
<1>10. CASE EntityChanges
  <2>1. PICK e \in Entities : changed' = OnChange(changed, e)
    BY <1>10 DEF EntityChanges
  <2>2. RefsNext
    BY <1>0, <2>1, OnChangeRefs DEF Refs, RefsNext
  <2> QED
    BY <1>2, <1>10, <2>2 DEF EntityChanges, store
<1>11. CASE SetActive
  BY <1>11, SwitchEffect DEF SetActive, ListTypes, Refs, SameItems
<1>16. CASE StoreActive
  <2>1. nvs' \in [Names -> BOOLEAN \cup {None}]
    <3>1. \A i \in DOMAIN items : items[i].name \in Names /\ items[i].active \in BOOLEAN
      BY <1>0, ItemFields
    <3>2. CASE UNCHANGED nvs
      BY <3>2 DEF ListTypes
    <3>3. ASSUME NEW n \in Names, NEW b \in BOOLEAN, Stored(n, b)
          PROVE  nvs' \in [Names -> BOOLEAN \cup {None}]
      BY <3>3, StoredTypes
    <3> QED
      BY <1>16, <3>1, <3>2, <3>3, StoreEffect
  <2> QED
    BY <1>16, <2>1 DEF StoreActive, list, ListTypes, Refs
<1>12. CASE SaveList
  <2>1. PICK l \in Lists : Update(l)
    BY <1>12 DEF SaveList
  <2>2. /\ ListOK(items') /\ nvs' \in [Names -> BOOLEAN \cup {None}]
        /\ changed' \in Seq(Nat) /\ \A i \in DOMAIN changed' : changed'[i] = 0
    BY <2>1, UpdateEffect DEF Dangling
  <2>3. Len(items') \in Nat
    BY <2>2, LenProperties DEF ListOK
  <2> QED
    BY <1>12, <2>2, <2>3 DEF SaveList, ListTypes, Refs
<1>13. CASE OpenFile
  BY <1>0, <1>13 DEF OpenFile, list, ListTypes, Refs
<1>14. CASE WriteFile
  BY <1>14 DEF WriteFile, list, ListTypes, Refs
<1>15. CASE Restart
  <2>1. ListOK(items') /\ ListOK(file') /\ changed' = <<>> /\ draft' = None /\ nvs' = nvs
    BY <1>15, RestartEffect DEF Restart
  <2>2. DOMAIN changed' = {} /\ changed' \in Seq(Nat)
    BY <2>1
  <2> QED
    BY <2>1, <2>2 DEF ListTypes, Refs, ListOK
<1> QED
  BY <1>3, <1>4, <1>5, <1>6, <1>7, <1>8, <1>9, <1>10, <1>11, <1>12, <1>13, <1>14, <1>15, <1>16, NextCases

-----------------------------------------------------------------------------
(* The other variables.                                                       *)
LEMMA ListLengths ==
    ASSUME Types
    PROVE  Len(items) \in Nat /\ DOMAIN items = 1..Len(items) /\ ListOK(items) /\ items \in Seq(ScheduleItem)
BY LenProperties DEF Types, ListTypes, ListOK

LEMMA WalkTypesNext ==
    ASSUME Types, [Next]_vars
    PROVE  WalkTypes'
<1>0. Len(items) \in Nat /\ DOMAIN items = 1..Len(items) /\ ListOK(items) /\ ListTypes
      /\ phase \in {"idle", "changes", "ran", "conditions", "startup", "minutes", "calendar"}
      /\ pos \in 0..(Len(items) + 1)
      /\ (phase \in {"idle", "changes", "ran"} => pos = 1)
  BY ListLengths DEF Types, WalkTypes
<1>1. ASSUME UNCHANGED <<items, phase, pos>> PROVE WalkTypes'
  BY <1>0, <1>1 DEF WalkTypes
<1>2. ASSUME UNCHANGED <<items, pos>>, phase \in {"idle", "changes", "ran"}, phase' \in {"changes", "ran"}
      PROVE  WalkTypes'
  BY <1>0, <1>2 DEF WalkTypes
<1>3. CASE UNCHANGED vars
  BY <1>1, <1>3 DEF vars, list, walk
<1>4. CASE LoopBegins \/ RunChange \/ PopChange
  BY <1>2, <1>4 DEF LoopBegins, RunChange, PopChange, list
<1>5. CASE Condition \/ Startup \/ Minute \/ Calendar
  <2>1. Len(items') = Len(items) /\ pos \in DOMAIN items /\ pos' = pos + 1 /\ phase' = phase
        /\ phase \in {"conditions", "startup", "minutes", "calendar"}
    BY <1>0, <1>5, VisitEffect, LatchedItems DEF SameItems
  <2> QED
    BY <1>0, <2>1 DEF WalkTypes
<1>6. CASE CheckConditions \/ CheckStartup \/ CheckMinute \/ CheckCalendar
  <2>1. ASSUME NEW p \in {"conditions", "startup", "minutes", "calendar"}, NEW due, Enter(p, due)
        PROVE  WalkTypes'
    BY <1>0, <2>1 DEF Enter, list, WalkTypes
  <2> QED
    BY <1>6, <2>1 DEF CheckConditions, CheckStartup, CheckMinute, CheckCalendar
<1>7. CASE LostIterator
  BY <1>0, <1>7 DEF LostIterator, WalkTypes, Dangling
<1>8. CASE LoopEnds
  BY <1>0, <1>8 DEF LoopEnds, list, WalkTypes
<1>9. CASE TakeJob \/ FinishJob \/ EntityChanges \/ StoreActive \/ OpenFile \/ WriteFile \/ TenSeconds
           \/ NextMinute \/ SetClock \/ ConditionChanges
  BY <1>1, <1>9 DEF TakeJob, FinishJob, EntityChanges, StoreActive, OpenFile, WriteFile, TenSeconds, NextMinute,
                    SetClock, ConditionChanges, list, walk
<1>10. CASE SetActive
  BY <1>0, <1>10, SwitchEffect DEF SetActive, walk, WalkTypes, SameItems
<1>11. CASE SaveList
  <2>1. PICK l \in Lists : Update(l)
    BY <1>11 DEF SaveList
  <2>2. Len(items') = Len(l) /\ Len(l) \in Nat
    BY <1>0, <2>1, UpdateEffect, SavedOK, LenProperties DEF SameItems, ListOK
  <2>3. pos' = IF phase \in {"idle", "changes", "ran"} THEN pos
               ELSE IF pos <= Len(items) THEN Dangling ELSE Len(l) + 1
    BY <2>1 DEF Update
  <2> QED
    BY <1>0, <1>11, <2>2, <2>3 DEF SaveList, WalkTypes, Dangling
<1>12. CASE Restart
  <2>1. Len(items') \in Nat
    BY <1>0, <1>12, RestartEffect, LenProperties DEF ListOK
  <2> QED
    BY <1>12, <2>1 DEF Restart, WalkTypes
<1> QED
  BY <1>3, <1>4, <1>5, <1>6, <1>7, <1>8, <1>9, <1>10, <1>11, <1>12 DEF Next, Loop, Worker

LEMMA TimeTypesNext ==
    ASSUME Types, [Next]_vars
    PROVE  TimeTypes'
<1>0. /\ ten \in BOOLEAN /\ unsaved \in BOOLEAN /\ lost \in BOOLEAN
      /\ uptime \in 0..MaxUptime /\ lastMin \in 0..uptime
      /\ clock \in Minutes \cup {None} /\ lastTm \in Minutes \cup {-2, -1}
      /\ truth \in [Conditions -> {"0", "1", "other"}]
      /\ acts \in 0..MaxActs
  BY DEF Types, TimeTypes
<1>1. MaxUptime \in Nat /\ MaxActs \in Nat
  BY SchedulerAssumption DEF SchedulerAssumption
<1>2. acts' = acts \/ Act
  BY DEF Next, Loop, Worker, vars, LoopBegins, RunChange, PopChange, Condition, Startup, Minute, Calendar,
         Visit, CheckConditions, CheckStartup, CheckMinute, CheckCalendar, Enter, LostIterator, LoopEnds,
         TakeJob, FinishJob, EntityChanges, SetActive, StoreActive, SaveList, OpenFile, WriteFile, Restart,
         TenSeconds, NextMinute, SetClock, ConditionChanges
<1>3. acts' \in 0..MaxActs
  BY <1>0, <1>1, <1>2 DEF Act
<1>4. ASSUME UNCHANGED <<ten, unsaved, lost, uptime, lastMin, clock, lastTm, truth>> PROVE TimeTypes'
  BY <1>0, <1>3, <1>4 DEF TimeTypes
<1>5. CASE UNCHANGED vars
  BY <1>4, <1>5 DEF vars, time, world, store, history
<1>6. CASE LoopBegins \/ RunChange \/ PopChange \/ LostIterator \/ LoopEnds \/ TakeJob \/ FinishJob
           \/ EntityChanges \/ OpenFile
  BY <1>4, <1>6 DEF LoopBegins, RunChange, PopChange, LostIterator, LoopEnds, TakeJob, FinishJob,
                    EntityChanges, OpenFile, time, world, store, history
<1>7. CASE Condition \/ Startup \/ Minute \/ Calendar
  BY <1>4, <1>7, ListLengths, VisitEffect DEF time, world, store
<1>8. CASE CheckConditions \/ CheckStartup
  BY <1>0, <1>3, <1>8 DEF CheckConditions, CheckStartup, Enter, world, store, history, TimeTypes
<1>9. CASE CheckMinute
  BY <1>0, <1>1, <1>3, <1>9 DEF CheckMinute, Enter, world, store, history, TimeTypes
<1>10. CASE CheckCalendar
  BY <1>0, <1>1, <1>3, <1>10 DEF CheckCalendar, Enter, world, store, history, TimeTypes
<1>11. CASE SetActive
  BY <1>4, <1>11 DEF SetActive, time, world, store, history
<1>19. CASE StoreActive
  <2>1. UNCHANGED <<ten, unsaved, uptime, lastMin, clock, lastTm, truth>> /\ lost' \in BOOLEAN
    BY <1>0, <1>19 DEF StoreActive, time, world
  <2> QED
    BY <1>0, <1>3, <2>1 DEF TimeTypes
<1>12. CASE SaveList
  BY <1>0, <1>3, <1>12 DEF SaveList, Update, time, world, TimeTypes
<1>13. CASE WriteFile
  BY <1>0, <1>3, <1>13 DEF WriteFile, time, world, history, TimeTypes
<1>14. CASE Restart
  <2>1. /\ ten' = FALSE /\ unsaved' = FALSE /\ uptime' = 0 /\ lastMin' = 0 /\ lastTm' = -2
        /\ clock' = None /\ truth' = truth
    BY <1>14 DEF Restart
  <2>2. lost' \in BOOLEAN
    BY <1>14, Zenon DEF Restart
  <2>3. uptime' \in 0..MaxUptime /\ lastMin' \in 0..uptime' /\ lastTm' \in Minutes \cup {-2, -1}
    BY <1>1, <2>1
  <2>4. ten' \in BOOLEAN /\ unsaved' \in BOOLEAN /\ clock' \in Minutes \cup {None}
        /\ truth' \in [Conditions -> {"0", "1", "other"}]
    BY <1>0, <2>1
  <2> QED
    BY <1>3, <2>2, <2>3, <2>4, Zenon DEF TimeTypes
<1>15. CASE TenSeconds
  BY <1>0, <1>3, <1>15 DEF TenSeconds, world, store, history, TimeTypes
<1>16. CASE NextMinute
  BY <1>0, <1>1, <1>3, <1>16 DEF NextMinute, world, store, history, TimeTypes
<1>17. CASE SetClock
  BY <1>0, <1>3, <1>17 DEF SetClock, time, store, history, TimeTypes
<1>18. CASE ConditionChanges
  <2>1. PICK c \in Conditions, v \in {"0", "1", "other"} : truth' = [truth EXCEPT ![c] = v]
    BY <1>18 DEF ConditionChanges
  <2> QED
    BY <1>0, <1>3, <1>18, <2>1 DEF ConditionChanges, time, store, TimeTypes
<1> QED
  BY <1>5, <1>6, <1>7, <1>8, <1>9, <1>10, <1>11, <1>12, <1>13, <1>14, <1>15, <1>16, <1>17, <1>18, <1>19
  DEF Next, Loop, Worker

LEMMA JobTypesNext ==
    ASSUME Types, [Next]_vars
    PROVE  JobTypes'
<1>0. /\ items \in Seq(ScheduleItem) /\ Refs(changed) /\ ListTypes /\ ListOK(items)
      /\ jobs \in Seq(Commands) /\ Len(jobs) <= MaxJobs /\ busy \in Commands \cup {None}
  BY ListLengths DEF Types, ListTypes, JobTypes
<1>1. ASSUME UNCHANGED <<jobs, busy>> PROVE JobTypes'
  BY <1>0, <1>1 DEF JobTypes
<1>2. ASSUME Ran, UNCHANGED busy PROVE JobTypes'
  BY <1>0, <1>2, RanQueues DEF JobTypes
<1>3. MaxJobs \in Nat /\ Len(jobs) \in Nat
  BY <1>0, SchedulerAssumption, LenProperties DEF SchedulerAssumption
<1>4. CASE Condition \/ Startup \/ Minute \/ Calendar
  BY <1>0, <1>2, <1>4, VisitEffect
<1>5. CASE RunChange
  BY <1>0, <1>2, <1>5, RunChangeRan DEF RunChange
<1>6. CASE LostIterator
  BY <1>2, <1>6 DEF LostIterator, Ran
<1>7. CASE TakeJob
  <2>1. jobs # <<>> /\ busy' = Head(jobs) /\ jobs' = Tail(jobs)
    BY <1>7 DEF TakeJob
  <2> QED
    BY <1>0, <1>3, <2>1, HeadTailProperties DEF JobTypes
<1>8. CASE FinishJob
  BY <1>0, <1>8 DEF FinishJob, JobTypes
<1>9. CASE Restart
  BY <1>3, <1>9 DEF Restart, JobTypes
<1>10. CASE UNCHANGED vars \/ LoopBegins \/ PopChange \/ CheckConditions \/ CheckStartup \/ CheckMinute
            \/ CheckCalendar \/ LoopEnds \/ EntityChanges \/ SetActive \/ StoreActive \/ SaveList \/ OpenFile
            \/ WriteFile \/ TenSeconds \/ NextMinute \/ SetClock \/ ConditionChanges
  BY <1>1, <1>10
  DEF vars, LoopBegins, PopChange, CheckConditions, CheckStartup, CheckMinute, CheckCalendar, Enter, LoopEnds,
      EntityChanges, SetActive, StoreActive, SaveList, OpenFile, WriteFile, TenSeconds, NextMinute,
      SetClock, ConditionChanges, worker
<1> QED
  BY <1>4, <1>5, <1>6, <1>7, <1>8, <1>9, <1>10 DEF Next, Loop, Worker

LEMMA MinuteFacts ==
    /\ \A m \in Minutes : m \in Nat /\ m # -2
    /\ None # <<>> /\ None \notin BOOLEAN
    /\ MaxStartupRetries \in Nat /\ MaxStartupRetries < NoRetry
BY SchedulerAssumption DEF SchedulerAssumption, NoRetry

LEMMA CountTypesNext ==
    ASSUME Types, [Next]_vars
    PROVE  CountTypes'
<1>0. /\ tries \in [Names -> Nat] /\ done \subseteq Names /\ fired \in [Names -> Nat]
      /\ items \in Seq(ScheduleItem)
  BY ListLengths DEF Types, CountTypes
<1>1. ASSUME UNCHANGED <<tries, done, fired>> PROVE CountTypes'
  BY <1>0, <1>1 DEF CountTypes
<1>2. ASSUME NEW x, x = items[pos], pos \in DOMAIN items PROVE x.name \in Names
  BY <1>0, <1>2, ItemFields
<1>3. CASE Condition
  <2>1. pos \in DOMAIN items /\ UNCHANGED <<tries, done>>
    BY <1>3 DEF Condition, Visit
  <2>2. fired' = fired \/ fired' = [fired EXCEPT ![items[pos].name] = @ + 1]
    BY <1>3 DEF Condition
  <2> QED
    BY <1>0, <1>2, <2>1, <2>2 DEF CountTypes
<1>4. ASSUME NEW n, RunStartup(items[pos], n), pos \in DOMAIN items, UNCHANGED fired PROVE CountTypes'
  <2>1. tries' = [tries EXCEPT ![items[pos].name] = @ + 1]
        /\ (done' = done \/ done' = done \cup {items[pos].name})
    BY <1>4 DEF RunStartup
  <2> QED
    BY <1>0, <1>2, <1>4, <2>1 DEF CountTypes
<1>5. CASE Startup
  BY <1>1, <1>4, <1>5 DEF Startup, Visit
<1>6. CASE Minute
  BY <1>1, <1>4, <1>6 DEF Minute, Visit
<1>7. CASE SaveList
  BY <1>0, <1>7 DEF SaveList, Update, CountTypes
<1>8. CASE Restart
  BY <1>8 DEF Restart, CountTypes
<1>9. CASE ConditionChanges
  BY <1>0, <1>9 DEF ConditionChanges, CountTypes
<1>10. CASE UNCHANGED vars \/ LoopBegins \/ RunChange \/ PopChange \/ CheckConditions \/ CheckStartup
            \/ CheckMinute \/ CheckCalendar \/ Calendar \/ LostIterator \/ LoopEnds \/ TakeJob \/ FinishJob
            \/ EntityChanges \/ SetActive \/ StoreActive \/ OpenFile \/ WriteFile \/ TenSeconds
            \/ NextMinute \/ SetClock
  BY <1>1, <1>10
  DEF vars, LoopBegins, RunChange, PopChange, CheckConditions, CheckStartup, CheckMinute, CheckCalendar,
      Enter, Calendar, LostIterator, LoopEnds, TakeJob, FinishJob, EntityChanges, SetActive,
      StoreActive, OpenFile, WriteFile, TenSeconds, NextMinute, SetClock, history
<1> QED
  BY <1>3, <1>5, <1>6, <1>7, <1>8, <1>9, <1>10 DEF Next, Loop, Worker

LEMMA KeepTypesNext ==
    ASSUME Types, [Next]_vars
    PROVE  KeepTypes'
<1>0. /\ items \in Seq(ScheduleItem) /\ Len(items) \in Nat /\ DOMAIN items = 1..Len(items)
      /\ ListTypes /\ ListOK(items) /\ storing \in 0..Len(items) \cup {None} /\ unkept \subseteq Names
      /\ \A i \in DOMAIN items : items[i].name \in Names
  BY ListLengths, ItemFields DEF Types, KeepTypes
<1>1. ASSUME Len(items') = Len(items), UNCHANGED <<storing, unkept>> PROVE KeepTypes'
  BY <1>0, <1>1 DEF KeepTypes
<1>2. CASE Quiet
  BY <1>1, <1>2, QuietKeeps DEF store
<1>3. CASE UNCHANGED vars \/ RunChange \/ PopChange \/ LostIterator \/ FinishJob \/ EntityChanges
           \/ OpenFile \/ WriteFile
  BY <1>1, <1>3
  DEF vars, RunChange, PopChange, LostIterator, FinishJob, EntityChanges, OpenFile, WriteFile, list, store
<1>4. CASE Condition \/ Startup \/ Minute \/ Calendar
  <2>1. SameItems(items, items') /\ UNCHANGED <<storing, unkept>>
    BY <1>0, <1>4, VisitEffect, LatchedItems DEF store
  <2> QED
    BY <1>1, <2>1 DEF SameItems
<1>5. CASE SetActive
  <2>1. PICK i \in DOMAIN items : storing' = i /\ unkept' = unkept \cup {items[i].name}
    BY <1>5 DEF SetActive
  <2>2. Len(items') = Len(items)
    BY <1>0, <1>5, SwitchEffect DEF SameItems
  <2> QED
    BY <1>0, <2>1, <2>2 DEF KeepTypes
<1>6. CASE StoreActive
  <2>1. UNCHANGED items /\ storing' = None /\ unkept' \subseteq Names
    BY <1>0, <1>6 DEF StoreActive, list
  <2> QED
    BY <2>1 DEF KeepTypes
<1>7. CASE SaveList
  <2>1. PICK l \in Lists : Update(l)
    BY <1>7 DEF SaveList
  <2>2. storing' \in {None, Dangling} /\ unkept' = {}
    BY <2>1 DEF Update
  <2>3. Len(items') \in Nat
    BY <1>0, <2>1, UpdateEffect, LenProperties DEF ListOK
  <2> QED
    BY <2>2, <2>3 DEF KeepTypes, Dangling
<1>8. CASE Restart
  BY <1>8 DEF Restart, KeepTypes
<1> QED
  BY <1>2, <1>3, <1>4, <1>5, <1>6, <1>7, <1>8, NextCases

LEMMA TypesNext ==
    ASSUME Types, [Next]_vars
    PROVE  Types'
BY ListTypesNext, WalkTypesNext, TimeTypesNext, JobTypesNext, CountTypesNext, KeepTypesNext DEF Types


(* A start-up schedule that is to be retried has run once more than its      *)
(* retry_cnt says and never successfully; one the walk has not reached has   *)
(* not run at all; lastTm is -2 only before the first walk.                  *)
StartupInv ==
    /\ StartupBounded
    /\ phase \in {"startup", "minutes", "calendar"} => lastTm # -2
    /\ lastTm = -2 => \A n \in Names : tries[n] = 0
    /\ phase = "startup" /\ pos # Dangling => \A i \in DOMAIN items : i >= pos => tries[items[i].name] = 0
    /\ \A i \in DOMAIN items : items[i].kind = "startup" /\ items[i].retry # NoRetry =>
          tries[items[i].name] = items[i].retry + 1 /\ items[i].name \notin done
    /\ \A n \in done : tries[n] > 0

StartupKept == \A n \in done : n \in done' => tries'[n] = tries[n]

LEMMA StartupRun ==
    ASSUME Types, StartupInv, pos \in DOMAIN items, phase \in {"startup", "minutes"},
           NEW failed \in 0..MaxStartupRetries,
           tries[items[pos].name] = failed, items[pos].name \notin done,
           RunStartup(items[pos], failed), pos' = pos + 1, UNCHANGED <<phase, lastTm>>
    PROVE  StartupInv' /\ StartupKept
<1> DEFINE n0 == items[pos].name
<1>0. items \in Seq(ScheduleItem)
  BY ListLengths
<1>1. PICK ok \in BOOLEAN :
         /\ items' = RetryAt(items, pos, IF ok THEN NoRetry ELSE failed)
         /\ tries' = [tries EXCEPT ![n0] = @ + 1]
         /\ done' = IF ok THEN done \cup {n0} ELSE done
  BY DEF RunStartup, SetRetry, RetryAt
<1>2. items \in Seq(ScheduleItem) /\ DOMAIN items = 1..Len(items) /\ Len(items) \in Nat /\ Named(items)
  BY ListLengths DEF ListOK
<1>3. tries \in [Names -> Nat] /\ done \subseteq Names
  BY DEF Types, CountTypes
<1>4. n0 \in Names /\ \A i \in DOMAIN items : items[i].name \in Names
  BY <1>2, ItemFields
<1>5. NoRetry \in Retries /\ failed \in Retries
  BY NoRetryType DEF Retries
<1>6. PICK r \in Retries : items' = RetryAt(items, pos, r) /\ r = IF ok THEN NoRetry ELSE failed
  BY <1>1, <1>5
<1>7. SameItems(items, items') /\ \A i \in DOMAIN items : items'[i].retry =
        IF i = pos THEN r ELSE items[i].retry
  BY <1>0, <1>6, RetrySet
<1>8. /\ \A n \in Names : tries'[n] = IF n = n0 THEN failed + 1 ELSE tries[n]
      /\ done' \subseteq done \cup {n0} /\ (n0 \in done' => ok)
  BY <1>1, <1>3, <1>4
<1>9. \A i \in DOMAIN items : items[i].name = n0 => i = pos
  BY <1>2 DEF Named
<1> HIDE DEF n0
<1>10. failed \in Nat /\ failed <= MaxStartupRetries /\ MaxStartupRetries \in Nat
  BY NoRetryType
<1>11. StartupBounded'
  BY <1>3, <1>8, <1>10 DEF StartupInv, StartupBounded
<1>12. lastTm' # -2 /\ phase' = phase
  BY DEF StartupInv
<1>13. ASSUME NEW i \in DOMAIN items', phase' = "startup", i >= pos' PROVE tries'[items'[i].name] = 0
  <2>1. i \in DOMAIN items /\ items'[i].name = items[i].name /\ i # pos /\ i >= pos /\ pos # Dangling
    BY <1>2, <1>7, <1>13 DEF SameItems, Dangling
  <2> QED
    BY <1>4, <1>8, <1>9, <1>12, <1>13, <2>1 DEF StartupInv
<1>14. ASSUME NEW i \in DOMAIN items', items'[i].kind = "startup", items'[i].retry # NoRetry
       PROVE  tries'[items'[i].name] = items'[i].retry + 1 /\ items'[i].name \notin done'
  <2>1. i \in DOMAIN items /\ items'[i].name = items[i].name /\ items[i].kind = "startup"
    BY <1>7, <1>14 DEF SameItems
  <2>2. CASE i = pos
    BY <1>4, <1>7, <1>8, <1>14, <2>1, <1>6, <2>2 DEF n0
  <2>3. CASE i # pos
    BY <1>4, <1>7, <1>8, <1>9, <1>14, <2>1, <2>3 DEF StartupInv
  <2> QED
    BY <2>2, <2>3
<1>15. ASSUME NEW n \in done' PROVE tries'[n] > 0
  BY <1>3, <1>4, <1>8, <1>10 DEF StartupInv
<1>16. StartupKept
  BY <1>3, <1>8 DEF StartupKept, n0
<1> QED
  BY <1>11, <1>12, <1>13, <1>14, <1>15, <1>16 DEF StartupInv

-----------------------------------------------------------------------------
(* The start-up schedules along a step.                                       *)
LEMMA StartupInvNext ==
    ASSUME Types, StartupInv, [Next]_vars
    PROVE  StartupInv' /\ StartupKept
<1>0. /\ items \in Seq(ScheduleItem) /\ Len(items) \in Nat /\ DOMAIN items = 1..Len(items)
      /\ Named(items) /\ ListOK(items) /\ ListTypes
  BY ListLengths DEF Types, ListOK
<1>1. ASSUME UNCHANGED <<tries, done>> PROVE StartupKept
  BY <1>1 DEF StartupKept
<1>2. ASSUME UNCHANGED <<items, phase, pos, lastTm, tries, done>> PROVE StartupInv' /\ StartupKept
  BY <1>1, <1>2 DEF StartupInv, StartupBounded
<1>3. ASSUME UNCHANGED <<items, lastTm, tries, done>>, phase' \in {"idle", "changes", "ran", "conditions"}
      PROVE  StartupInv' /\ StartupKept
  BY <1>1, <1>3 DEF StartupInv, StartupBounded
<1>4. CASE UNCHANGED vars \/ TakeJob \/ FinishJob \/ EntityChanges \/ StoreActive \/ OpenFile \/ WriteFile
           \/ TenSeconds \/ NextMinute \/ SetClock \/ ConditionChanges
  BY <1>2, <1>4 DEF vars, TakeJob, FinishJob, EntityChanges, StoreActive, OpenFile, WriteFile, TenSeconds, NextMinute,
                    SetClock, ConditionChanges, list, walk, time, history
<1>5. CASE LoopBegins \/ RunChange \/ PopChange \/ CheckConditions \/ LoopEnds
  BY <1>3, <1>5 DEF LoopBegins, RunChange, PopChange, CheckConditions, Enter, LoopEnds, list, time, history
<1>6. CASE CheckStartup
  <2>1. /\ UNCHANGED <<items, tries, done>> /\ phase' = "startup"
        /\ pos' = IF lastTm = -2 THEN 1 ELSE Len(items) + 1
        /\ lastTm' = IF lastTm = -2 THEN -1 ELSE lastTm
    BY <1>6 DEF CheckStartup, Enter, list, history
  <2>2. \A i \in DOMAIN items : items[i].name \in Names
    BY <1>0, ItemFields
  <2>3. ASSUME NEW i \in DOMAIN items, i >= pos' PROVE tries[items[i].name] = 0
    BY <1>0, <2>1, <2>2, <2>3 DEF StartupInv
  <2> QED
    BY <1>1, <2>1, <2>3 DEF StartupInv, StartupBounded
<1>7. CASE CheckMinute
  BY <1>1, <1>7 DEF CheckMinute, Walked, Enter, list, history, StartupInv, StartupBounded
<1>8. CASE CheckCalendar
  <2>1. UNCHANGED <<items, tries, done>> /\ phase = "minutes" /\ phase' = "calendar"
        /\ lastTm' = IF clock = None THEN lastTm ELSE clock
    BY <1>8 DEF CheckCalendar, Walked, Enter, list, history
  <2>2. clock \in Minutes \cup {None}
    BY DEF Types, TimeTypes
  <2>3. lastTm' # -2
    BY <2>1, <2>2, MinuteFacts DEF StartupInv
  <2> QED
    BY <1>1, <2>1, <2>3 DEF StartupInv, StartupBounded
<1>9. CASE LostIterator
  <2>1. UNCHANGED <<items, phase, lastTm, tries, done>> /\ pos' = Len(items) + 1
    BY <1>9 DEF LostIterator, time, history
  <2>2. ~ \E i \in DOMAIN items : i >= pos'
    BY <1>0, <2>1
  <2> QED
    BY <1>1, <2>1, <2>2 DEF StartupInv, StartupBounded
<1>10. CASE Condition
  <2>1. /\ pos \in DOMAIN items /\ UNCHANGED <<phase, lastTm, tries, done>> /\ phase = "conditions"
    BY <1>10 DEF Condition, Visit, time
  <2>2. SameItems(items, items') /\ \A i \in DOMAIN items : items[i].kind # "condition" =>
          items'[i].retry = items[i].retry
    <3>1. CASE UNCHANGED items
      BY <3>1 DEF SameItems
    <3>2. ASSUME NEW n \in Retries, items' = RetryAt(items, pos, n), items[pos].kind = "condition"
          PROVE  SameItems(items, items') /\ \A i \in DOMAIN items :
                    items[i].kind # "condition" => items'[i].retry = items[i].retry
      <4>1. items \in Seq(ScheduleItem)
        BY <1>0
      <4> QED
        BY <2>1, <3>2, <4>1, RetrySet
    <3>3. 1 \in Retries /\ NoRetry \in Retries
      BY DEF Retries
    <3>4. \/ UNCHANGED items
          \/ items[pos].kind = "condition" /\ \E n \in Retries : items' = RetryAt(items, pos, n)
      BY <1>10, <3>3 DEF Condition, Fires, Falls, SetRetry, RetryAt
    <3> QED
      BY <3>1, <3>2, <3>4
  <2> QED
    BY <1>1, <2>1, <2>2 DEF StartupInv, StartupBounded, SameItems
<1>11. ASSUME pos \in DOMAIN items, pos' = pos + 1, UNCHANGED <<items, phase, lastTm, tries, done>>
       PROVE  StartupInv' /\ StartupKept
  <2>1. pos # Dangling /\ \A i \in DOMAIN items : i >= pos' => i >= pos
    BY <1>0, <1>11 DEF Dangling
  <2> QED
    BY <1>1, <1>11, <2>1 DEF StartupInv, StartupBounded
<1>12. ASSUME pos \in DOMAIN items
       PROVE items[pos].name \in Names /\ items[pos].retry \in Nat /\ pos # Dangling /\ pos >= pos
  BY <1>0, <1>12, ItemFields, NoRetryType DEF Retries, Dangling
<1>13. CASE Startup
  <2>1. /\ pos \in DOMAIN items /\ pos' = pos + 1 /\ phase = "startup" /\ UNCHANGED <<phase, lastTm>>
    BY <1>13 DEF Startup, Visit, time
  <2>2. CASE RunStartup(items[pos], 0)
    <3>1. tries[items[pos].name] = 0
      BY <1>12, <2>1 DEF StartupInv
    <3>2. items[pos].name \notin done
      BY <3>1 DEF StartupInv
    <3>3. 0 \in 0..MaxStartupRetries /\ phase \in {"startup", "minutes"}
      BY <2>1, MinuteFacts
    <3> QED
      BY <2>1, <2>2, <3>1, <3>2, <3>3, StartupRun
  <2>3. CASE UNCHANGED <<items, tries, done>>
    BY <1>11, <2>1, <2>3
  <2> QED
    BY <1>13, <2>2, <2>3 DEF Startup
<1>14. CASE Minute
  <2>1. /\ pos \in DOMAIN items /\ pos' = pos + 1 /\ phase = "minutes" /\ UNCHANGED <<phase, lastTm>>
    BY <1>14 DEF Minute, Visit, time
  <2>2. CASE RetryDue(items[pos]) /\ RunStartup(items[pos], items[pos].retry + 1)
    <3>1. items[pos].kind = "startup" /\ items[pos].retry < MaxStartupRetries
      BY <2>2 DEF RetryDue
    <3>2. items[pos].retry # NoRetry /\ items[pos].retry + 1 \in 0..MaxStartupRetries
      BY <1>12, <2>1, <3>1, MinuteFacts, NoRetryType
    <3>3. tries[items[pos].name] = items[pos].retry + 1 /\ items[pos].name \notin done
      BY <2>1, <3>1, <3>2 DEF StartupInv
    <3> QED
      BY <2>1, <2>2, <3>2, <3>3, StartupRun
  <2>3. CASE UNCHANGED <<items, tries, done>>
    BY <1>11, <2>1, <2>3
  <2> QED
    BY <1>14, <2>2, <2>3 DEF Minute
<1>15. CASE Calendar
  BY <1>11, <1>15 DEF Calendar, Visit, time
<1>16. CASE SetActive
  BY <1>0, <1>1, <1>16, SwitchEffect DEF SetActive, walk, time, history, StartupInv, StartupBounded, SameItems
<1>17. CASE SaveList
  <2>1. PICK l \in Lists : Update(l)
    BY <1>17 DEF SaveList
  <2>2. UNCHANGED <<phase, lastTm, tries, done>>
    BY <1>17 DEF SaveList, time
  <2>3. ListOK(l) /\ l \in Seq(ScheduleItem) /\ Len(l) \in Nat /\ DOMAIN l = 1..Len(l)
    BY SavedOK, LenProperties DEF ListOK
  <2>4. DOMAIN items' = 1..Len(l) /\ \A i \in DOMAIN items' : items'[i].retry = NoRetry
    <3>1. KeysLeft \in [Names -> BOOLEAN \cup {None}]
      BY <1>0 DEF ListTypes, KeysLeft
    <3>2. items' = Loaded(l, KeysLeft)
      BY <2>1 DEF Update
    <3> QED
      BY <2>3, <3>1, <3>2, LoadedItems DEF SameItems
  <2>5. phase' = "startup" /\ pos' # Dangling => ~ \E i \in DOMAIN items' : i >= pos'
    BY <2>1, <2>2, <2>3, <2>4 DEF Update
  <2> QED
    BY <1>1, <2>2, <2>4, <2>5 DEF StartupInv, StartupBounded
<1>18. CASE Restart
  <2>1. /\ lastTm' = -2 /\ phase' = "idle" /\ tries' = [n \in Names |-> 0] /\ done' = {}
    BY <1>18 DEF Restart
  <2>2. \A i \in DOMAIN items' : items'[i].retry = NoRetry
    <3>1. ListOK(file') /\ items' = Loaded(file', nvs) /\ SameItems(file', items')
      BY <1>0, <1>18, RestartEffect
    <3>2. nvs \in [Names -> BOOLEAN \cup {None}] /\ file' \in Seq(ScheduleItem)
      BY <1>0, <3>1 DEF ListTypes, ListOK
    <3> QED
      BY <3>1, <3>2, LoadedItems DEF SameItems
  <2> QED
    BY <2>1, <2>2, MinuteFacts DEF StartupInv, StartupBounded, StartupKept
<1> QED
  BY <1>4, <1>5, <1>6, <1>7, <1>8, <1>9, <1>10, <1>13, <1>14, <1>15, <1>16, <1>17, <1>18
  DEF Next, Loop, Worker

-----------------------------------------------------------------------------
(* The conditions.                                                            *)
(* A condition schedule that may fire, or whose condition is false, has not   *)
(* fired since.                                                              *)
RiseInv ==
    /\ OncePerRise
    /\ \A i \in DOMAIN items :
          /\ items[i].kind = "condition"
          /\ items[i].retry = NoRetry \/ truth[items[i].arg] = "0"
          => fired[items[i].name] = 0

LEMMA RiseInvNext ==
    ASSUME Types, RiseInv, [Next]_vars
    PROVE  RiseInv'
<1>0. items \in Seq(ScheduleItem)
  BY ListLengths
<1>1. /\ Len(items) \in Nat /\ DOMAIN items = 1..Len(items)
      /\ Named(items) /\ CondArgs(items) /\ ListOK(items) /\ ListTypes
      /\ fired \in [Names -> Nat] /\ truth \in [Conditions -> {"0", "1", "other"}]
      /\ \A i \in DOMAIN items : items[i].name \in Names
  BY <1>0, ListLengths, ItemFields DEF Types, ListOK, CountTypes, TimeTypes
<1>2. ASSUME UNCHANGED <<items, truth, fired>> PROVE RiseInv'
  BY <1>2 DEF RiseInv, OncePerRise
<1>3. CASE UNCHANGED vars \/ LoopBegins \/ RunChange \/ PopChange \/ CheckConditions \/ CheckStartup
           \/ CheckMinute \/ CheckCalendar \/ Calendar \/ LostIterator \/ LoopEnds \/ TakeJob \/ FinishJob
           \/ EntityChanges \/ StoreActive \/ OpenFile \/ WriteFile \/ TenSeconds \/ NextMinute \/ SetClock
  BY <1>2, <1>3
  DEF vars, LoopBegins, RunChange, PopChange, CheckConditions, CheckStartup, CheckMinute, CheckCalendar,
      Enter, Calendar, Visit, LostIterator, LoopEnds, TakeJob, FinishJob, EntityChanges, StoreActive,
      OpenFile, WriteFile, TenSeconds, NextMinute, SetClock, list, world, history
<1>4. CASE Condition
  <2>0. pos \in DOMAIN items /\ UNCHANGED truth
    BY <1>4 DEF Condition, Visit, world
  <2>1. items[pos].name \in Names /\ NoRetry \in Retries /\ 1 \in Retries /\ 1 # NoRetry
    BY <1>1, <2>0 DEF Retries, NoRetry
  <2>2. ASSUME NEW ok \in BOOLEAN, Fires(items[pos]), SetRetry(IF ok THEN 1 ELSE NoRetry),
               fired' = IF ok THEN [fired EXCEPT ![items[pos].name] = @ + 1] ELSE fired
        PROVE  RiseInv'
    <3>1. items[pos].kind = "condition" /\ truth[items[pos].arg] = "1" /\ items[pos].retry = NoRetry
      BY <2>2 DEF Fires
    <3>2. fired[items[pos].name] = 0
      BY <2>0, <3>1 DEF RiseInv
    <3>3. \A i \in DOMAIN items : items[i].name = items[pos].name => i = pos
      BY <1>1, <2>0 DEF Named
    <3>4. CASE ok
      <4>1. items' = RetryAt(items, pos, 1)
        BY <2>2, <3>4 DEF SetRetry, RetryAt
      <4>2. /\ SameItems(items, items')
            /\ \A i \in DOMAIN items : items'[i].retry = IF i = pos THEN 1 ELSE items[i].retry
        BY <1>0, <2>0, <2>1, <4>1, RetrySet
      <4>3. \A n \in Names : fired'[n] = IF n = items[pos].name THEN 1 ELSE fired[n]
        BY <1>1, <2>1, <2>2, <3>2, <3>4
      <4>4. OncePerRise'
        BY <4>3 DEF RiseInv, OncePerRise
      <4>5. ASSUME NEW i \in DOMAIN items', items'[i].kind = "condition",
                   items'[i].retry = NoRetry \/ truth'[items'[i].arg] = "0"
            PROVE  fired'[items'[i].name] = 0
        <5>1. i \in DOMAIN items /\ items'[i].name = items[i].name /\ items'[i].arg = items[i].arg
              /\ items[i].kind = "condition" /\ items[i].name \in Names
          BY <1>1, <4>2, <4>5 DEF SameItems
        <5>2. i # pos
          BY <2>0, <2>1, <3>1, <4>2, <4>5, <5>1
        <5> QED
          BY <2>0, <3>3, <4>2, <4>3, <4>5, <5>1, <5>2 DEF RiseInv
      <4> QED
        BY <4>4, <4>5 DEF RiseInv
    <3>5. CASE ~ok
      <4>1. items' = RetryAt(items, pos, NoRetry) /\ fired' = fired
        BY <2>2, <3>5 DEF SetRetry, RetryAt
      <4>2. /\ SameItems(items, items')
            /\ \A i \in DOMAIN items : items'[i].retry = IF i = pos THEN NoRetry ELSE items[i].retry
        BY <1>0, <2>0, <2>1, <4>1, RetrySet
      <4> QED
        BY <2>0, <3>1, <3>2, <4>1, <4>2 DEF RiseInv, OncePerRise, SameItems
    <3> QED
      BY <3>4, <3>5
  <2>3. ASSUME Falls(items[pos]), SetRetry(NoRetry), UNCHANGED fired PROVE RiseInv'
    <3>1. items[pos].kind = "condition" /\ truth[items[pos].arg] = "0"
      BY <2>3 DEF Falls
    <3>2. fired[items[pos].name] = 0
      BY <2>0, <3>1 DEF RiseInv
    <3>3. items' = RetryAt(items, pos, NoRetry)
      BY <2>3 DEF SetRetry, RetryAt
    <3>4. /\ SameItems(items, items')
          /\ \A i \in DOMAIN items : items'[i].retry = IF i = pos THEN NoRetry ELSE items[i].retry
      BY <1>0, <2>0, <2>1, <3>3, RetrySet
    <3> QED
      BY <2>0, <2>3, <3>2, <3>4 DEF RiseInv, OncePerRise, SameItems
  <2> QED
    BY <1>2, <1>4, <2>0, <2>2, <2>3 DEF Condition
<1>5. ASSUME pos \in DOMAIN items, items[pos].kind = "startup", NEW n, RunStartup(items[pos], n),
             n \in Retries, UNCHANGED <<truth, fired>>
      PROVE  RiseInv'
  <2>1. PICK r \in Retries : items' = RetryAt(items, pos, r)
    <3>1. NoRetry \in Retries
      BY DEF Retries
    <3> QED
      BY <1>5, <3>1 DEF RunStartup, SetRetry, RetryAt
  <2>2. /\ SameItems(items, items')
        /\ \A i \in DOMAIN items : items'[i].retry = IF i = pos THEN r ELSE items[i].retry
    BY <1>0, <1>5, <2>1, RetrySet
  <2> QED
    BY <1>5, <2>2 DEF RiseInv, OncePerRise, SameItems
<1>6. CASE Startup
  <2>1. pos \in DOMAIN items /\ UNCHANGED <<truth, fired>> /\ 0 \in Retries
    BY <1>6, NoRetryType DEF Startup, Visit, world, Retries
  <2>2. \/ items[pos].kind = "startup" /\ RunStartup(items[pos], 0)
        \/ UNCHANGED items
    BY <1>6 DEF Startup
  <2> QED
    BY <1>2, <1>5, <2>1, <2>2
<1>7. CASE Minute
  <2>1. pos \in DOMAIN items /\ UNCHANGED <<truth, fired>>
    BY <1>7 DEF Minute, Visit, world
  <2>2. \/ items[pos].kind = "startup" /\ RetryDue(items[pos]) /\ RunStartup(items[pos], items[pos].retry + 1)
        \/ UNCHANGED items
    BY <1>7 DEF Minute, RetryDue
  <2>3. RetryDue(items[pos]) => items[pos].retry + 1 \in Retries
    <3>1. items[pos].retry \in Retries
      BY <1>0, <2>1, ItemFields
    <3> QED
      BY <3>1, NoRetryType DEF RetryDue, Retries
  <2> QED
    BY <1>2, <1>5, <2>1, <2>2, <2>3
<1>8. CASE SetActive
  BY <1>1, <1>8, SwitchEffect DEF SetActive, world, history, RiseInv, OncePerRise, SameItems
<1>9. ASSUME fired' = [n \in Names |-> 0], ListOK(items') PROVE RiseInv'
  <2>1. \A i \in DOMAIN items' : items'[i].name \in Names
    BY <1>9, ItemFields DEF ListOK
  <2> QED
    BY <1>9, <2>1 DEF RiseInv, OncePerRise
<1>10. CASE SaveList
  <2>1. PICK l \in Lists : Update(l)
    BY <1>10 DEF SaveList
  <2>2. fired' = [n \in Names |-> 0]
    BY <2>1 DEF Update
  <2> QED
    BY <1>1, <1>9, <2>1, <2>2, UpdateEffect
<1>11. CASE Restart
  BY <1>1, <1>9, <1>11, RestartEffect DEF Restart
<1>12. CASE ConditionChanges
  <2>1. PICK c \in Conditions, v \in {"0", "1", "other"} :
           /\ truth' = [truth EXCEPT ![c] = v]
           /\ fired' = [n \in Names |->
                 IF v = "0" /\ \E i \in DOMAIN items : items[i].name = n /\ items[i].arg = c
                 THEN 0 ELSE fired[n]]
    BY <1>12 DEF ConditionChanges
  <2>2. UNCHANGED items
    BY <1>12 DEF ConditionChanges, list
  <2>3. \A n \in Names : fired'[n] = 0 \/ fired'[n] = fired[n]
    BY <2>1
  <2>4. OncePerRise'
    BY <2>3 DEF RiseInv, OncePerRise
  <2>5. ASSUME NEW i \in DOMAIN items, items[i].kind = "condition",
               items[i].retry = NoRetry \/ truth'[items[i].arg] = "0"
        PROVE  fired'[items[i].name] = 0
    <3>1. items[i].name \in Names /\ items[i].arg \in Conditions
      BY <1>1, <2>5 DEF CondArgs
    <3>2. CASE items[i].retry = NoRetry \/ truth[items[i].arg] = "0"
      BY <2>3, <2>5, <3>1, <3>2 DEF RiseInv
    <3>3. CASE truth'[items[i].arg] = "0" /\ truth[items[i].arg] # "0"
      <4>1. items[i].arg = c /\ v = "0"
        BY <1>1, <2>1, <3>1, <3>3
      <4> QED
        BY <2>1, <3>1, <4>1
    <3> QED
      BY <2>5, <3>2, <3>3
  <2> QED
    BY <2>2, <2>4, <2>5 DEF RiseInv
<1> QED
  BY <1>3, <1>4, <1>6, <1>7, <1>8, <1>10, <1>11, <1>12 DEF Next, Loop, Worker

-----------------------------------------------------------------------------
(* What is kept over a restart.                                               *)
(* A restart from l with the states kept in NVS gives the list as it is,      *)
(* but for the schedules whose last switch NVS does not have.                 *)
Restores(l) ==
    /\ DOMAIN l = DOMAIN items
    /\ \A i \in DOMAIN items :
          /\ l[i].name = items[i].name
          /\ items[i].name \notin unkept =>
                items[i].active = IF nvs[l[i].name] = None THEN l[i].active ELSE nvs[l[i].name]

(* The file restores the list unless an edit has not been written, what is    *)
(* about to be written does too, and as long as nothing was lost NVS keeps     *)
(* states of schedules of the list only.                                     *)
StoreInv ==
    /\ Restores(items)
    /\ ~unsaved => file # None /\ Restores(file)
    /\ draft # None => Restores(draft)
    /\ ~lost => \A n \in Names : nvs[n] # None => \E i \in DOMAIN items : items[i].name = n

LEMMA StoreInvNext ==
    ASSUME Types, StoreInv, [Next]_vars
    PROVE  StoreInv'
<1>0. items \in Seq(ScheduleItem)
  BY ListLengths
<1>1. Named(items) /\ ListOK(items) /\ ListTypes /\ nvs \in [Names -> BOOLEAN \cup {None}]
  BY ListLengths DEF Types, ListOK, ListTypes
<1>2. ASSUME UNCHANGED <<items, nvs, unkept, file, draft, unsaved, lost>> PROVE StoreInv'
  BY <1>2 DEF StoreInv, Restores
<1>3. CASE Quiet
  BY <1>2, <1>3, QuietKeeps DEF store
<1>4. CASE UNCHANGED vars \/ RunChange \/ PopChange \/ LostIterator \/ FinishJob \/ EntityChanges
  BY <1>2, <1>4 DEF vars, RunChange, PopChange, LostIterator, FinishJob, EntityChanges, list, store, history
<1>5. CASE Condition \/ Startup \/ Minute \/ Calendar
  <2>1. Latched /\ pos \in DOMAIN items /\ UNCHANGED <<file, draft, unsaved, nvs, unkept, lost>>
    BY <1>1, <1>5, VisitEffect DEF store
  <2>2. SameItems(items, items') /\ \A i \in DOMAIN items : items'[i].active = items[i].active
    <3>1. CASE UNCHANGED items
      BY <3>1 DEF SameItems
    <3>2. ASSUME NEW n \in Retries, items' = RetryAt(items, pos, n)
          PROVE  SameItems(items, items') /\ \A i \in DOMAIN items : items'[i].active = items[i].active
      BY <1>0, <2>1, <3>2, RetrySet
    <3> QED
      BY <2>1, <3>1, <3>2 DEF Latched
  <2> QED
    BY <2>1, <2>2 DEF StoreInv, Restores, SameItems
<1>6. CASE SetActive
  <2>1. PICK p \in DOMAIN items :
           items' = SwitchedAt(items, p) /\ unkept' = unkept \cup {items[p].name}
    BY <1>6 DEF SetActive, SwitchedAt
  <2>2. UNCHANGED <<file, draft, unsaved, nvs, lost>>
    BY <1>6 DEF SetActive, history
  <2>3. /\ SameItems(items, items')
        /\ \A i \in DOMAIN items : items'[i].active = IF i = p THEN ~items[i].active ELSE items[i].active
    BY <1>0, <2>1, ActiveSwitched
  <2>4. \A i \in DOMAIN items : items[i].name \notin unkept' =>
          items[i].name \notin unkept /\ items'[i].active = items[i].active
    BY <2>1, <2>3
  <2> QED
    BY <2>2, <2>3, <2>4 DEF StoreInv, Restores, SameItems
<1>11. CASE StoreActive
  <2>0. UNCHANGED <<items, file, draft, unsaved>>
    BY <1>11 DEF StoreActive, list
  <2>1. CASE UNCHANGED <<nvs, unkept, lost>>
    BY <1>2, <2>0, <2>1
  <2>2. \A i \in DOMAIN items : items[i].name \in Names /\ items[i].active \in BOOLEAN
    BY <1>0, ItemFields
  <2>3. ASSUME NEW p \in DOMAIN items, Stored(items[p].name, items[p].active),
               unkept' = unkept \ {items[p].name}, UNCHANGED lost
        PROVE  StoreInv'
    <3>1. \A m \in Names : nvs'[m] = IF m = items[p].name THEN items[p].active ELSE nvs[m]
      BY <2>2, <2>3, StoredTypes
    <3>2. items[p].active # None
      BY <2>2, MinuteFacts
    <3>3. \A i \in DOMAIN items : items[i].name = items[p].name => i = p
      BY <1>1 DEF Named
    <3>4. ASSUME NEW l, Restores(l), NEW i \in DOMAIN items, items[i].name \notin unkept'
          PROVE  items[i].active = IF nvs'[l[i].name] = None THEN l[i].active ELSE nvs'[l[i].name]
      <4>1. l[i].name = items[i].name
        BY <3>4 DEF Restores
      <4>2. CASE i = p
        BY <2>2, <3>1, <3>2, <4>1, <4>2
      <4>3. CASE i # p
        <5>1. nvs'[items[i].name] = nvs[items[i].name] /\ items[i].name \notin unkept
          BY <2>2, <2>3, <3>1, <3>3, <3>4, <4>3
        <5> QED
          BY <3>4, <4>1, <5>1 DEF Restores
      <4> QED
        BY <4>2, <4>3
    <3>5. ASSUME NEW l, Restores(l)
          PROVE  /\ DOMAIN l = DOMAIN items
                 /\ \A i \in DOMAIN items :
                       /\ l[i].name = items[i].name
                       /\ items[i].name \notin unkept' =>
                             items[i].active = IF nvs'[l[i].name] = None THEN l[i].active
                                               ELSE nvs'[l[i].name]
      BY <3>4, <3>5 DEF Restores
    <3>6. ASSUME ~lost', NEW n \in Names, nvs'[n] # None PROVE \E i \in DOMAIN items : items[i].name = n
      BY <2>3, <3>1, <3>6 DEF StoreInv
    <3> QED
      BY <2>0, <3>5, <3>6 DEF StoreInv, Restores
  <2>4. ASSUME NEW n \in Names, NEW b \in BOOLEAN, Stored(n, b), unkept' = unkept \cup {n}, lost'
        PROVE  StoreInv'
    <3>1. \A m \in Names : m # n => nvs'[m] = nvs[m]
      BY <2>4, StoredTypes
    <3>2. \A i \in DOMAIN items : items[i].name \notin unkept' =>
            items[i].name \notin unkept /\ nvs'[items[i].name] = nvs[items[i].name]
      BY <2>2, <2>4, <3>1
    <3> QED
      BY <2>0, <2>4, <3>2 DEF StoreInv, Restores
  <2> QED
    BY <1>11, <2>1, <2>3, <2>4, StoreEffect
<1>7. CASE SaveList
  <2>1. PICK l \in Lists : Update(l)
    BY <1>7 DEF SaveList
  <2>2. unsaved' = TRUE /\ draft' = None /\ lost' = lost
    BY <1>7, <2>1 DEF SaveList, Update
  <2>3. items' = Loaded(l, KeysLeft) /\ nvs' = KeysLeft /\ KeysLeft \in [Names -> BOOLEAN \cup {None}]
        /\ l \in Seq(ScheduleItem)
    BY <1>1, <2>1, SavedOK DEF Update, KeysLeft, ListOK
  <2>4. SameItems(l, items')
        /\ \A i \in DOMAIN l : items'[i].active =
              IF nvs'[l[i].name] = None THEN l[i].active ELSE nvs'[l[i].name]
    BY <2>3, LoadedItems
  <2>5. Restores(items)'
    BY <2>4 DEF Restores, SameItems
  <2>6. ASSUME ~lost', NEW n \in Names PROVE nvs'[n] = None
    BY <2>2, <2>3, <2>6 DEF KeysLeft, StoreInv
  <2> QED
    BY <2>2, <2>5, <2>6 DEF StoreInv
<1>8. CASE OpenFile
  <2>1. UNCHANGED <<items, nvs, unkept, unsaved, lost>> /\ unsaved /\ draft' = items
    BY <1>8 DEF OpenFile, list, history
  <2> QED
    BY <2>1 DEF StoreInv, Restores
<1>9. CASE WriteFile
  <2>1. UNCHANGED <<items, nvs, unkept, lost>> /\ draft # None /\ file' = draft /\ draft' = None
    BY <1>9 DEF WriteFile, list, history
  <2> QED
    BY <2>1 DEF StoreInv, Restores
<1>10. CASE Restart
  <2>1. /\ ListOK(file') /\ items' = Loaded(file', nvs) /\ file' \in Seq(ScheduleItem)
        /\ file' = IF file = None THEN <<>> ELSE file
    BY <1>1, <1>10, RestartEffect DEF ListOK
  <2>2. nvs' = nvs /\ draft' = None /\ (~lost' => ~lost /\ ~unsaved)
    BY <1>10 DEF Restart
  <2>3. SameItems(file', items')
        /\ \A i \in DOMAIN file' : items'[i].active =
              IF nvs[file'[i].name] = None THEN file'[i].active ELSE nvs[file'[i].name]
    BY <1>1, <2>1, LoadedItems
  <2>4. file' # None
    BY <2>1, MinuteFacts
  <2>5. Restores(file)' /\ Restores(items)'
    BY <2>2, <2>3 DEF Restores, SameItems
  <2>6. ASSUME ~lost', NEW n \in Names, nvs'[n] # None PROVE \E i \in DOMAIN items' : items'[i].name = n
    <3>1. file' = file /\ Restores(file)
      BY <2>1, <2>2, <2>6 DEF StoreInv
    <3>2. \E i \in DOMAIN items : items[i].name = n
      BY <2>2, <2>6 DEF StoreInv
    <3> QED
      BY <2>3, <3>1, <3>2 DEF Restores, SameItems
  <2> QED
    BY <2>2, <2>4, <2>5, <2>6 DEF StoreInv
<1> QED
  BY <1>3, <1>4, <1>5, <1>6, <1>7, <1>8, <1>9, <1>10, <1>11, NextCases

(* A restart whose file restores the list, and an edit over no kept state.    *)
RestartStep ==
    Restart /\ ~unsaved => \A n \in Names \ unkept : State(items')[n] = State(items)[n]
EditStep    == \A l \in Lists : Update(l) /\ ~lost => State(items') = State(l)

LEMMA SameState ==
    ASSUME NEW l, NEW m, NEW n \in Names, DOMAIN m = DOMAIN l,
           \A i \in DOMAIN l : m[i].name = l[i].name /\ (l[i].name = n => m[i].active = l[i].active)
    PROVE  State(m)[n] = State(l)[n]
<1>1. {k \in DOMAIN m : m[k].name = n} = {k \in DOMAIN l : l[k].name = n}
  OBVIOUS
<1>2. {m[i].active : i \in {k \in DOMAIN m : m[k].name = n}}
      = {l[i].active : i \in {k \in DOMAIN l : l[k].name = n}}
  BY <1>1
<1> QED
  BY <1>2 DEF State

LEMMA SameStates ==
    ASSUME NEW l, NEW m, DOMAIN m = DOMAIN l,
           \A i \in DOMAIN l : m[i].name = l[i].name /\ m[i].active = l[i].active
    PROVE  State(m) = State(l)
<1>1. \A n \in Names : State(m)[n] = State(l)[n]
  BY SameState
<1> QED
  BY <1>1 DEF State

LEMMA RestartStates ==
    ASSUME Types, StoreInv
    PROVE  RestartStep
<1> SUFFICES ASSUME Restart, ~unsaved, NEW n \in Names \ unkept
             PROVE  State(items')[n] = State(items)[n]
  BY DEF RestartStep
<1>1. /\ items' = Loaded(file', nvs) /\ file' = file /\ file' \in Seq(ScheduleItem)
      /\ nvs \in [Names -> BOOLEAN \cup {None}] /\ Restores(file)
  BY RestartEffect DEF Types, ListOK, ListTypes, StoreInv
<1>2. SameItems(file, items')
      /\ \A i \in DOMAIN file : items'[i].active =
            IF nvs[file[i].name] = None THEN file[i].active ELSE nvs[file[i].name]
  BY <1>1, LoadedItems
<1>3. DOMAIN items' = DOMAIN items
      /\ \A i \in DOMAIN items :
            /\ items'[i].name = items[i].name
            /\ items[i].name = n => items'[i].active = items[i].active
  BY <1>1, <1>2 DEF Restores, SameItems
<1> QED
  BY <1>3, SameState

LEMMA EditStates ==
    ASSUME Types, StoreInv
    PROVE  EditStep
<1> SUFFICES ASSUME NEW l \in Lists, Update(l), ~lost PROVE State(items') = State(l)
  BY DEF EditStep
<1>1. /\ items' = Loaded(l, KeysLeft) /\ KeysLeft \in [Names -> BOOLEAN \cup {None}]
      /\ l \in Seq(ScheduleItem)
  BY SavedOK DEF Update, KeysLeft, ListOK, Types, ListTypes
<1>2. \A n \in Names : KeysLeft[n] = None
  BY DEF KeysLeft, StoreInv
<1>3. \A i \in DOMAIN l : l[i].name \in Names
  BY <1>1, ItemFields
<1>4. SameItems(l, items')
      /\ \A i \in DOMAIN l : items'[i].active =
            IF KeysLeft[l[i].name] = None THEN l[i].active ELSE KeysLeft[l[i].name]
  BY <1>1, LoadedItems
<1>5. DOMAIN items' = DOMAIN l
      /\ \A i \in DOMAIN l : items'[i].name = l[i].name /\ items'[i].active = l[i].active
  BY <1>2, <1>3, <1>4 DEF SameItems
<1> QED
  BY <1>5, SameStates

-----------------------------------------------------------------------------
IInv == Types /\ StartupInv /\ RiseInv /\ StoreInv

LEMMA InitHolds == Init => IInv
<1> SUFFICES ASSUME Init PROVE IInv
  OBVIOUS
<1>1. PICK l \in Lists : file = l /\ items = l
  BY DEF Init
<1>2. ListOK(l) /\ l # None /\ l \in Seq(ScheduleItem) /\ Len(l) \in Nat
  BY SavedOK, LenProperties DEF ListOK
<1>3. \A i \in DOMAIN l : l[i].retry = NoRetry /\ l[i].name \in Names
  BY <1>2, ItemFields, SchedulerAssumption DEF SchedulerAssumption
<1>4. MaxUptime \in Nat /\ MaxActs \in Nat /\ MaxJobs \in Nat
  BY SchedulerAssumption DEF SchedulerAssumption
<1>5. ListTypes
  <2>1. changed \in Seq(Nat) /\ DOMAIN changed = {} /\ draft = None
    BY DEF Init
  <2>2. nvs \in [Names -> BOOLEAN \cup {None}]
    BY DEF Init
  <2> QED
    BY <1>1, <1>2, <2>1, <2>2 DEF ListTypes, Refs
<1>6. WalkTypes
  BY <1>1, <1>2 DEF Init, WalkTypes
<1>13. KeepTypes
  BY DEF Init, KeepTypes
<1>7. TimeTypes
  <2>1. ten \in BOOLEAN /\ unsaved \in BOOLEAN /\ lost \in BOOLEAN
    BY DEF Init
  <2>2. uptime \in 0..MaxUptime /\ lastMin \in 0..uptime /\ acts \in 0..MaxActs
    BY <1>4 DEF Init
  <2>3. clock \in Minutes \cup {None} /\ lastTm \in Minutes \cup {-2, -1}
    BY DEF Init
  <2>4. truth \in [Conditions -> {"0", "1", "other"}]
    BY DEF Init
  <2> QED
    BY <2>1, <2>2, <2>3, <2>4, Zenon DEF TimeTypes
<1>8. JobTypes
  BY <1>4 DEF Init, JobTypes
<1>9. CountTypes
  BY DEF Init, CountTypes
<1>10. StartupInv
  BY <1>1, <1>3, MinuteFacts DEF Init, StartupInv, StartupBounded
<1>11. RiseInv
  BY <1>1, <1>3 DEF Init, RiseInv, OncePerRise
<1>12. StoreInv
  BY <1>1, <1>2, <1>3 DEF Init, StoreInv, Restores
<1> QED
  BY <1>5, <1>6, <1>7, <1>8, <1>9, <1>10, <1>11, <1>12, <1>13 DEF IInv, Types

LEMMA StepHolds == IInv /\ [Next]_vars => IInv'
BY TypesNext, StartupInvNext, RiseInvNext, StoreInvNext DEF IInv

LEMMA Invariance == Spec => []IInv
BY InitHolds, StepHolds, PTL DEF Spec

LEMMA IInvTypes == IInv => TypeOK
<1> SUFFICES ASSUME IInv PROVE TypeOK
  OBVIOUS
<1>1. StartupBounded /\ Refs(changed) /\ items \in Seq(ScheduleItem)
  BY DEF IInv, StartupInv, Types, ListTypes, ListOK
<1> QED
  BY <1>1 DEF IInv, Types, ListTypes, WalkTypes, TimeTypes, JobTypes, CountTypes, KeepTypes,
                  TypeOK, Refs

(* The variables of Scheduler hold values of the C++ members, the queue of    *)
(* jobs never exceeds its limit, and a start-up schedule is tried at most     *)
(* MAX_STARTUP_RETRIES times after its first run, whatever list is saved and  *)
(* whoever edits it.                                                          *)
THEOREM TypesHold == Spec => []TypeOK
BY Invariance, IInvTypes, PTL

(* A condition schedule runs at most once until its condition was false or it *)
(* was edited, though loop() checks it every ten seconds.                     *)
THEOREM RisesOnce == Spec => []OncePerRise
<1>1. IInv => OncePerRise
  BY DEF IInv, RiseInv
<1> QED
  BY <1>1, Invariance, PTL

(* A start-up schedule that was dispatched does not run again before a        *)
(* restart, also when its item is replaced by an edit meanwhile.              *)
THEOREM StartupRunsOnce == Spec => StartupOnce
<1>1. IInv /\ [Next]_vars => [\A n \in done : n \in done' => tries'[n] = tries[n]]_vars
  BY StartupInvNext DEF IInv, StartupKept
<1> QED
  BY <1>1, Invariance, PTL DEF Spec, StartupOnce

(* A restart leaves every schedule on or off as it was, unless an edit was    *)
(* not yet written or the state the schedule was last switched to is not in    *)
(* NVS, where a failed putBool and a power cut before it leave the old one:    *)
(* for all others the file and NVS together always restore the list.          *)
THEOREM RestartRestores == Spec => RestartKeeps
<1>1. IInv /\ [Next]_vars =>
        [Restart /\ ~unsaved => \A n \in Names \ unkept : State(items')[n] = State(items)[n]]_vars
  BY RestartStates DEF IInv, RestartStep
<1> QED
  BY <1>1, Invariance, PTL DEF Spec, RestartKeeps

(* A saved list is taken as it is, no state NVS keeps overrides it, as long   *)
(* as no restart lost an edit and no state was stored for a replaced list.    *)
THEOREM EditsApply == Spec => EditApplies
<1>1. IInv /\ [Next]_vars => [\A l \in Lists : Update(l) /\ ~lost => State(items') = State(l)]_vars
  BY EditStates DEF IInv, EditStep
<1> QED
  BY <1>1, Invariance, PTL DEF Spec, EditApplies
=============================================================================
