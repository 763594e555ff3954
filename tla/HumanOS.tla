------------------------------ MODULE HumanOS -------------------------------
(***************************************************************************)
(* The operating system for a day of Human OS.                             *)
(***************************************************************************)
EXTENDS Integers, Sequences, FiniteSets, SequencesExt

-----------------------------------------------------------------------------
(***************************************************************************)
(* The planner of Human OS, phase 2: tasks in a heap by urgency            *)
(* (task_queue.c), and five ways of laying them out over the hours there   *)
(* are (scheduler.c).  Times are minutes, scores are twice the code's, and *)
(* a task's urgency is that of the moment it came in.  Neither the queue   *)
(* nor the plan reaches the end of its array.                              *)
(***************************************************************************)

CONSTANTS
    TaskKinds,     \* [priority, value, duration, deadline: 0 for none]
    MAX_TASKS,     \* bound
    Hours,         \* what schedule_build is asked to fill
    Moments,       \* when things happen: 0 and later
    quantum,       \* 25
    context_switch_cost   \* 2

VARIABLES
    items,     \* the heap
    total_enqueued,
    clock,
    out,       \* auxiliary: the task that was just dequeued, and what was left
    plan       \* the schedule that was just built, and of what

dayVars == <<items, total_enqueued, clock, out, plan>>

None == [id |-> 0]

DayInit == items = << >> /\ total_enqueued = 0 /\ clock = 0 /\ out = None /\ plan = None

-----------------------------------------------------------------------------
(* The heap                                                                *)

\* 0 is CRITICAL, 4 OPTIONAL; a deadline adds the more the nearer it is.
tq_urgency(t) ==
    <<200, 150, 100, 50, 20>>[t.priority + 1] + t.value
      + (IF t.deadline = 0 THEN 0
         ELSE CASE t.deadline <= clock -> 100
                [] t.deadline > clock /\ t.deadline < clock + 60 -> 80
                [] t.deadline >= clock + 60 /\ t.deadline < clock + 1440 -> 40
                [] t.deadline >= clock + 1440 /\ t.deadline < clock + 10080 -> 20
                [] OTHER -> 0)

swap_tasks(q, i, j) == [q EXCEPT ![i] = q[j], ![j] = q[i]]

RECURSIVE heap_bubble_up(_, _), heap_bubble_down(_, _), Drained(_)

heap_bubble_up(q, i) ==
    IF i > 1 /\ q[i \div 2].urgency < q[i].urgency
    THEN heap_bubble_up(swap_tasks(q, i, i \div 2), i \div 2)
    ELSE q

Largest(q, i) ==
    LET left == IF 2 * i <= Len(q) /\ q[2 * i].urgency > q[i].urgency THEN 2 * i ELSE i
    IN  IF 2 * i + 1 <= Len(q) /\ q[2 * i + 1].urgency > q[left].urgency THEN 2 * i + 1 ELSE left

heap_bubble_down(q, i) ==
    IF Largest(q, i) = i THEN q
    ELSE heap_bubble_down(swap_tasks(q, i, Largest(q, i)), Largest(q, i))

\* What is left without the root; the last task takes its place and sinks.
WithoutRoot_unsunk(q) == Tail(q)

WithoutRoot(q) ==
    IF Len(q) = 1 THEN << >>
    ELSE heap_bubble_down(<<q[Len(q)]>> \o SubSeq(q, 2, Len(q) - 1), 1)

tq_enqueue(kind) ==
    /\ total_enqueued < MAX_TASKS
    /\ LET task == [id |-> total_enqueued + 1, urgency |-> tq_urgency(kind)] @@ kind
       IN  items' = heap_bubble_up(Append(items, task), Len(items) + 1)
    /\ total_enqueued' = total_enqueued + 1
    /\ out' = None /\ plan' = None /\ UNCHANGED clock

tq_dequeue ==
    /\ items # << >>
    /\ out' = [task |-> Head(items), left |-> Range(items) \ {Head(items)}]
    /\ items' = WithoutRoot(items)
    /\ plan' = None /\ UNCHANGED <<total_enqueued, clock>>

\* A copy of the queue, dequeued to its end.
Drained(q) == IF q = << >> THEN << >> ELSE <<Head(q)>> \o Drained(WithoutRoot(q))

-----------------------------------------------------------------------------
(* The plans                                                               *)

add_slot(slots, t, minutes) == Append(slots, [task |-> t, minutes |-> minutes])

add_break(slots, minutes) == add_slot(slots, None, minutes)

\* One round of a loop over the tasks that stops when the time is used up.
FillWith(round(_, _), tasks, minutes) ==
    FoldLeft(LAMBDA s, k : IF s.remaining > 0 THEN round(s, k) ELSE s,
             [slots |-> << >>, remaining |-> minutes, elapsed |-> 0], [k \in DOMAIN tasks |-> k]).slots

\* The switch to the next task, if there is one and more than two minutes for it.
Switch(more, remaining) == IF more /\ remaining > 2 THEN context_switch_cost ELSE 0

\* In the order of the heap, with a break of 15 minutes after 90.
sched_fifo(q, minutes) ==
    LET tasks == Drained(q)
        round(s, k) ==
            LET duration  == Min({tasks[k].duration, s.remaining})
                switch    == Switch(k < Len(tasks), s.remaining)
                remaining == s.remaining - switch - duration
                elapsed   == s.elapsed + switch + duration
                slots     == add_slot(s.slots, tasks[k], duration)
            IN  IF elapsed >= 90 /\ remaining > 15
                THEN [slots |-> add_break(slots, 15), remaining |-> remaining - 15, elapsed |-> 0]
                ELSE [slots |-> slots, remaining |-> remaining, elapsed |-> elapsed]
    IN  FillWith(round, tasks, minutes)

sched_priority(q, minutes) ==
    LET tasks == Drained(q)
        round(s, k) ==
            LET duration  == Min({tasks[k].duration, s.remaining})
                remaining == s.remaining - duration
            IN  [s EXCEPT !.slots = add_slot(@, tasks[k], duration),
                          !.remaining = remaining - Switch(k < Len(tasks), remaining)]
    IN  FillWith(round, tasks, minutes)

\* The loop of sched_sjf and sched_edf, over tasks in their order.
InOrder(tasks, minutes) ==
    LET round(s, k) ==
            LET duration == Min({tasks[k].duration, s.remaining})
            IN  [s EXCEPT !.slots = add_slot(@, tasks[k], duration),
                          !.remaining = @ - duration - context_switch_cost]
    IN  FillWith(round, tasks, minutes)

\* The insertion sorts are stable: equal tasks stay in the order of the heap.
StableSort(tasks, key(_)) ==
    LET before(i, j) == 
            \/ key(tasks[i]) < key(tasks[j])
            \/ key(tasks[i]) = key(tasks[j]) /\ i < j
        order == SetToSortSeq(DOMAIN tasks, before)
    IN  [k \in DOMAIN tasks |-> tasks[order[k]]]

sched_sjf(q, minutes) == InOrder(StableSort(Drained(q), LAMBDA t : t.duration), minutes)

LONG_MAX == 1000000

Deadline(t) == IF t.deadline > 0 THEN t.deadline ELSE LONG_MAX

sched_edf(q, minutes) == InOrder(StableSort(Drained(q), Deadline), minutes)

\* One task's turn; a turn without time ends the round.
Turn(tasks, minutes, s, i) ==
    LET work    == Min({quantum, s.rest[i], minutes - s.elapsed})
        elapsed == s.elapsed + work + context_switch_cost
        slots   == add_slot(s.slots, tasks[i], work)
        pause   == i = Len(tasks) /\ elapsed < minutes - 15
    IN  IF s.rest[i] = 0 \/ work <= 0 THEN s
        ELSE [slots   |-> IF pause THEN add_break(slots, 5) ELSE slots,
              rest    |-> [s.rest EXCEPT ![i] = @ - work],
              elapsed |-> IF pause THEN elapsed + 5 ELSE elapsed]

RECURSIVE Rounds(_, _, _)

\* Rounds until the time is used up or nobody works any more.
Rounds(tasks, minutes, s) ==
    LET next == FoldLeft(LAMBDA r, i : Turn(tasks, minutes, r, i), s, [i \in DOMAIN tasks |-> i])
    IN  IF s.elapsed >= minutes \/ next = s THEN s.slots ELSE Rounds(tasks, minutes, next)

sched_rr(q, minutes) ==
    LET tasks == Drained(q)
    IN  Rounds(tasks, minutes,
               [slots |-> << >>, rest |-> [i \in DOMAIN tasks |-> tasks[i].duration], elapsed |-> 0])

Algorithms == {"FIFO", "PRIORITY", "RR", "SJF", "EDF"}

schedule_build(algorithm, hours) ==
    /\ items # << >>
    /\ plan' = [algorithm |-> algorithm, minutes |-> 60 * hours, clock |-> clock, tasks |-> Range(items),
                slots |-> CASE algorithm = "FIFO" -> sched_fifo(items, 60 * hours)
                            [] algorithm = "PRIORITY" -> sched_priority(items, 60 * hours)
                            [] algorithm = "RR" -> sched_rr(items, 60 * hours)
                            [] algorithm = "SJF" -> sched_sjf(items, 60 * hours)
                            [] algorithm = "EDF" -> sched_edf(items, 60 * hours)]
    /\ out' = None /\ UNCHANGED <<items, total_enqueued, clock>>

Wait ==
    /\ \E t \in Moments : t > clock /\ clock' = t
    /\ out' = None /\ plan' = None /\ UNCHANGED <<items, total_enqueued>>

DayNext ==
    \/ \E kind \in TaskKinds : tq_enqueue(kind)
    \/ tq_dequeue
    \/ \E a \in Algorithms, h \in Hours : schedule_build(a, h)
    \/ Wait

DaySpec == DayInit /\ [][DayNext]_dayVars

-----------------------------------------------------------------------------
(* Properties                                                              *)

Work == SelectSeq(plan.slots, LAMBDA s : s.task # None)

Share(t) == FoldLeft(LAMBDA n, s : IF s.task = t THEN n + s.minutes ELSE n, 0, plan.slots)

\* When the k-th of some tasks, done one after another, would start.
Begins(tasks, k) == FoldLeft(LAMBDA n, t : n + t.duration + context_switch_cost, 0, SubSeq(tasks, 1, k - 1))

Permuted(tasks) == SetToSeqs(tasks)

\* Everything is done in full, and what has a deadline by then.
InTime(tasks) ==
    \A k \in DOMAIN tasks :
        LET end == Begins(tasks, k) + tasks[k].duration
        IN  end <= plan.minutes /\ (tasks[k].deadline > 0 => plan.clock + end <= tasks[k].deadline)

\* The task dequeued is never less urgent than one that stays, whatever the order
\* they came in; and a plan is what its algorithm promises.  None fills more time
\* than there is or gives a task more than it needs.  By priority, nobody works
\* before somebody more urgent; in turns, two unfinished tasks differ by a quantum
\* at most; shortest first, the k-th task starts no later than in any other order;
\* by deadlines, everyone is in time if some order would have everyone in time.
\* task_queue.c:31-140, scheduler.c:95-347.
PlansKeepTheirPromise ==
    /\ out # None => \A t \in out.left : t.urgency <= out.task.urgency
    /\ plan # None =>
        /\ FoldLeft(LAMBDA n, s : n + s.minutes, 0, plan.slots) <= plan.minutes
        /\ \A t \in plan.tasks : Share(t) <= t.duration
        /\ plan.algorithm = "PRIORITY" =>
              \A j, k \in DOMAIN Work : j < k => Work[j].task.urgency >= Work[k].task.urgency
        /\ plan.algorithm = "RR" =>
              \A t, u \in {x \in plan.tasks : Share(x) < x.duration} : Share(t) <= Share(u) + quantum
        /\ plan.algorithm = "SJF" =>
              \A p \in Permuted(plan.tasks), k \in DOMAIN Work :
                  Begins([j \in DOMAIN Work |-> Work[j].task], k) <= Begins(p, k)
        /\ plan.algorithm = "EDF" /\ (\E p \in Permuted(plan.tasks) : InTime(p)) =>
              InTime([j \in DOMAIN Work |-> Work[j].task]) /\ Len(Work) = Cardinality(plan.tasks)

-----------------------------------------------------------------------------
(***************************************************************************)
(* The table of tasks, phase 1 (task.c): their states, and dependencies on *)
(* tasks that were there before.  Names, times and durations are left out. *)
(* A deleted task's place is taken by the last one, and what depends on it *)
(* waits for it no longer.                                                 *)
(***************************************************************************)

CONSTANTS
    MAX_MANAGED,     \* MAX_TASKS of task.h
    MAX_TASK_IDS     \* bound: tasks ever created

VARIABLE tm    \* TaskManager

tmVars == <<tm>>

task_manager_init == [tasks |-> << >>, next_id |-> 1]

TmInit == tm = task_manager_init

task_create(dependencies) ==
    /\ Len(tm.tasks) < MAX_MANAGED
    /\ tm' = [tasks   |-> Append(tm.tasks, [id |-> tm.next_id, status |-> "PENDING", dependencies |-> dependencies]),
              next_id |-> tm.next_id + 1]

task_find_by_id(id) == {i \in DOMAIN tm.tasks : tm.tasks[i].id = id}

task_can_start(i) ==
    \A j \in DOMAIN tm.tasks :
        tm.tasks[j].id \in tm.tasks[i].dependencies => tm.tasks[j].status = "COMPLETED"

Becomes(i, status) == tm' = [tm EXCEPT !.tasks[i].status = status]

\* A task that may not start yet is blocked, and nothing ever starts it again.
task_start(id) ==
    \E i \in task_find_by_id(id) :
       /\ tm.tasks[i].status \in {"PENDING", "PAUSED"}
       /\ Becomes(i, IF task_can_start(i) THEN "RUNNING" ELSE "BLOCKED")

\* In whatever state it is: another than RUNNING is only warned of.
task_complete(id) == \E i \in task_find_by_id(id) : Becomes(i, "COMPLETED")

task_fail(id) == \E i \in task_find_by_id(id) : Becomes(i, "FAILED")

task_pause(id) == \E i \in task_find_by_id(id) : tm.tasks[i].status = "RUNNING" /\ Becomes(i, "PAUSED")

task_delete(id) ==
    \E i \in task_find_by_id(id) :
       tm' = [tm EXCEPT !.tasks = Front([@ EXCEPT ![i] = Last(tm.tasks)])]

TmNext ==
    \/ tm.next_id <= MAX_TASK_IDS /\ \E D \in SUBSET {tm.tasks[i].id : i \in DOMAIN tm.tasks} : task_create(D)
    \/ \E id \in 1 .. MAX_TASK_IDS :
          task_start(id) \/ task_complete(id) \/ task_fail(id) \/ task_pause(id) \/ task_delete(id)

TmSpec == TmInit /\ [][TmNext]_tmVars

\* What runs or was paused started when nothing it depends on was left to do, and
\* none of that is ever begun again; a blocked task waited for something; and a
\* number finds one task, wherever deletions moved it.  task_start and
\* task_delete, task.c:154-292.
NothingRunsTooEarly ==
    /\ \A i, j \in DOMAIN tm.tasks :
          tm.tasks[i].status \in {"RUNNING", "PAUSED"} /\ tm.tasks[j].id \in tm.tasks[i].dependencies =>
             tm.tasks[j].status \in {"COMPLETED", "FAILED"}
    /\ \A i \in DOMAIN tm.tasks :
          /\ tm.tasks[i].id < tm.next_id
          /\ task_find_by_id(tm.tasks[i].id) = {i}
          /\ tm.tasks[i].status = "BLOCKED" => tm.tasks[i].dependencies # {}

-----------------------------------------------------------------------------
(***************************************************************************)
(* What was learned, phase 5 (learning.c): experiences and when each is    *)
(* reviewed again (SM-2), skills and their levels, and patterns with their *)
(* rate of success.  All get their numbers from one counter.  Time is in   *)
(* days; ease factors are hundredths, experience points tenths and rates   *)
(* such fractions that averages of MAX_OCCURRENCES are whole.              *)
(***************************************************************************)

CONSTANTS
    Triggers,         \* of patterns, each with its action
    PracticeHours,
    MAX_EXPERIENCES, MAX_REVIEW_ITEMS, MAX_SKILLS, MAX_PATTERNS,
    WHOLE,            \* a rate of 100 percent
    MAX_OCCURRENCES, MAX_LESSONS, MAX_DAYS   \* bounds: of a pattern, events, days

VARIABLES
    ls,          \* LearningSystem
    ls_day,
    lessons,     \* auxiliary: how many events there were
    successes    \* auxiliary: how often each pattern succeeded

learningVars == <<ls, ls_day, lessons, successes>>

ls_init == [experiences |-> << >>, review_queue |-> << >>, skills |-> << >>, patterns |-> << >>, next_id |-> 1]

LearningInit == ls = ls_init /\ ls_day = 0 /\ lessons = 0 /\ successes = << >>

ls_schedule_review(queue, id) ==
    IF Len(queue) >= MAX_REVIEW_ITEMS THEN queue
    ELSE Append(queue, [experience_id |-> id, interval_days |-> 1, ease_factor |-> 250, due_date |-> ls_day + 1])

ls_add_experience ==
    /\ Len(ls.experiences) < MAX_EXPERIENCES
    /\ ls' = [ls EXCEPT !.experiences = Append(@, [id |-> ls.next_id, reviewed_count |-> 0, retention_score |-> 100]),
                        !.review_queue = ls_schedule_review(@, ls.next_id),
                        !.next_id = @ + 1]
    /\ UNCHANGED <<ls_day, successes>>

Eased(ease, quality) ==
    LET e == ease + 10 - (5 - quality) * (8 + (5 - quality) * 2) IN IF e < 130 THEN 130 ELSE e

Interval(interval, ease, quality, reviews) ==
    CASE quality < 3 \/ reviews = 1 -> 1
      [] quality >= 3 /\ reviews = 2 -> 6
      [] OTHER -> (interval * ease) \div 100

\* An experience whose review found no room only counts that it was reviewed.
ls_review_experience(i, quality) ==
    /\ ls' = [ls EXCEPT
         !.experiences[i].reviewed_count = @ + 1,
         !.experiences[i].retention_score =
             IF \E k \in DOMAIN ls.review_queue : ls.review_queue[k].experience_id = ls.experiences[i].id
             THEN 50 + quality * 10 ELSE @,
         !.review_queue = [k \in DOMAIN @ |->
             IF @[k].experience_id # ls.experiences[i].id THEN @[k]
             ELSE LET ease == Eased(@[k].ease_factor, quality)
                      days == Interval(@[k].interval_days, ease, quality, ls.experiences[i].reviewed_count + 1)
                  IN  [@[k] EXCEPT !.ease_factor = ease, !.interval_days = days, !.due_date = ls_day + days]]]
    /\ UNCHANGED <<ls_day, successes>>

ls_get_due_reviews == {k \in DOMAIN ls.review_queue : ls.review_queue[k].due_date <= ls_day}

NOVICE == 1
EXPERT == 5

ls_add_skill ==
    /\ Len(ls.skills) < MAX_SKILLS
    /\ ls' = [ls EXCEPT !.skills = Append(@, [id |-> ls.next_id, level |-> NOVICE, xp_points |-> 0,
                                              xp_to_next_level |-> 1000, daily_streak |-> 0, last_practiced |-> -1]),
                        !.next_id = @ + 1]
    /\ UNCHANGED <<ls_day, successes>>

Levels == [level : NOVICE .. EXPERT, xp_points : Nat, xp_to_next_level : Nat]

\* Levels gained by the points there are.
Levelled[s \in Levels] ==
    IF s.xp_points >= s.xp_to_next_level /\ s.level < EXPERT
    THEN Levelled[[level |-> s.level + 1, xp_points |-> s.xp_points - s.xp_to_next_level,
                   xp_to_next_level |-> (s.xp_to_next_level * 3) \div 2]]
    ELSE s

ls_practice_skill(i, hours) ==
    LET s == ls.skills[i]
        gained == (hours * 3000) \div (10 + 2 * s.level)
        up == Levelled[[level |-> s.level, xp_points |-> s.xp_points + gained, xp_to_next_level |-> s.xp_to_next_level]]
        streak == IF s.last_practiced >= 0 /\ ls_day - s.last_practiced <= 1 THEN s.daily_streak + 1 ELSE 1
    IN  /\ ls' = [ls EXCEPT !.skills[i] = [s EXCEPT !.level = up.level, !.xp_points = up.xp_points,
                     !.xp_to_next_level = up.xp_to_next_level, !.daily_streak = streak, !.last_practiced = ls_day]]
        /\ UNCHANGED <<ls_day, successes>>

ls_record_pattern(trigger, success) ==
    LET known == {i \in DOMAIN ls.patterns : ls.patterns[i].trigger = trigger}
        rate == IF success THEN WHOLE ELSE 0
    IN  /\ \/ \E i \in known :
                 LET p == ls.patterns[i]
                     n == p.occurrence_count + 1
                 IN  /\ n <= MAX_OCCURRENCES
                     /\ ls' = [ls EXCEPT !.patterns[i] = [p EXCEPT !.occurrence_count = n,
                                  !.success_rate = (p.success_rate * (n - 1) + rate) \div n,
                                  !.confidence = IF 50 + n * 5 < 99 THEN 50 + n * 5 ELSE 99]]
           \/ /\ known = {} /\ Len(ls.patterns) < MAX_PATTERNS
              /\ ls' = [ls EXCEPT !.patterns = Append(@, [id |-> ls.next_id, trigger |-> trigger,
                                     occurrence_count |-> 1, success_rate |-> rate, confidence |-> 50]),
                                  !.next_id = @ + 1]
        /\ successes' = IF trigger \in DOMAIN successes
                        THEN [successes EXCEPT ![trigger] = @ + (IF success THEN 1 ELSE 0)]
                        ELSE successes @@ (trigger :> IF success THEN 1 ELSE 0)
        /\ UNCHANGED ls_day

NextDay == ls_day < MAX_DAYS /\ ls_day' = ls_day + 1 /\ UNCHANGED <<ls, lessons, successes>>

LearningNext ==
    \/ /\ lessons < MAX_LESSONS /\ lessons' = lessons + 1
       /\ \/ ls_add_experience \/ ls_add_skill
          \/ \E i \in DOMAIN ls.experiences, quality \in 0 .. 5 : ls_review_experience(i, quality)
          \/ \E i \in DOMAIN ls.skills, hours \in PracticeHours : ls_practice_skill(i, hours)
          \/ \E trigger \in Triggers, success \in BOOLEAN : ls_record_pattern(trigger, success)
    \/ NextDay

LearningSpec == LearningInit /\ [][LearningNext]_learningVars

\* Rates kept as running averages are the successes among the occurrences; a review
\* is due as many days after the last as its interval says, a day at least, and
\* each experience is scheduled once; a skill below EXPERT never has the points of
\* the next level; and no two things have the same number.  learning.c:77-331.
LessonsAreCounted ==
    /\ \A i \in DOMAIN ls.patterns : LET p == ls.patterns[i] IN
          p.success_rate * p.occurrence_count = WHOLE * successes[p.trigger]
    /\ \A k \in DOMAIN ls.review_queue : LET r == ls.review_queue[k] IN
          /\ r.interval_days >= 1 /\ r.due_date - r.interval_days <= ls_day /\ r.ease_factor >= 130
          /\ \E i \in DOMAIN ls.experiences :
                /\ ls.experiences[i].id = r.experience_id
                /\ ls.experiences[i].reviewed_count < 2 => r.interval_days = 1
          /\ \A l \in DOMAIN ls.review_queue : ls.review_queue[l].experience_id = r.experience_id => l = k
    /\ Len(ls.experiences) <= MAX_REVIEW_ITEMS => Len(ls.review_queue) = Len(ls.experiences)
    /\ \A i \in DOMAIN ls.skills : LET s == ls.skills[i] IN
          s.level = EXPERT \/ s.xp_points < s.xp_to_next_level
    /\ LET numbered == ls.experiences \o ls.skills \o ls.patterns
       IN  \A i, j \in DOMAIN numbered : numbered[i].id = numbered[j].id => i = j

-----------------------------------------------------------------------------
(***************************************************************************)
(* The system as a whole, phase 6 (human_os.c): energy, burn-out, tasks,   *)
(* mode and status, goals, habits and skills.  Capacities are percent,     *)
(* burn-out is tenths of its score, an efficiency hundredths, a score of   *)
(* tasks thousandths and durations minutes: what floating point rounds     *)
(* elsewhere is left out, with the log and what only the display and the   *)
(* optimizer's messages read.  hour_of_day is set by the caller.           *)
(***************************************************************************)

CONSTANTS
    HumanTasks,      \* [priority, energy_type, duration_minutes, energy_required, value_score]
    WorkMinutes, RestMinutes, SleepHours, DayHours,
    MAX_HUMAN_TASKS,
    MAX_EVENTS,      \* bound: what happens to body and mind
    MAX_DAY_NUMBER   \* bound: days

VARIABLES
    os,       \* HumanOS: energy, tasks, mode and status
    life,     \* HumanOS: goals, habits and skills, and the days
    happened, \* auxiliary: how much happened
    restored  \* auxiliary: whether nothing but checks came after eight hours of sleep

hosVars == <<os, life, happened, restored>>

Clamped(v, lo, hi) == IF v < lo THEN lo ELSE IF v > hi THEN hi ELSE v

\* In hundredths of a percent.
energy_overall(e) == e.mental * 40 + e.physical * 35 + e.emotional * 25

energy_efficiency(e) ==
    LET base == IF energy_overall(e) >= 7000 THEN 100 ELSE IF energy_overall(e) >= 4000 THEN 75 ELSE 50
    IN  Clamped(base - (e.burnout * 3) \div 100, 10, 100)

hos_boot ==
    [mental |-> 100, physical |-> 100, emotional |-> 100, burnout |-> 0, worked |-> 0,
     hour_of_day |-> 9, mode |-> "PRODUCTIVE", status |-> "OPTIMAL", tasks |-> << >>]

HosInit ==
    /\ os = hos_boot
    /\ life = [goals |-> << >>, habits |-> << >>, day_number |-> 1, week_number |-> 1]
    /\ happened = 0 /\ restored = FALSE

hos_add_task(t) ==
    /\ Len(os.tasks) < MAX_HUMAN_TASKS
    /\ os' = [os EXCEPT !.tasks = Append(@, [kind |-> t, status |-> "PENDING"])]

hos_start_task(i) == os.tasks[i].status = "PENDING" /\ os' = [os EXCEPT !.tasks[i].status = "RUNNING"]

hos_complete_task(i) ==
    os.tasks[i].status \in {"RUNNING", "PENDING"} /\ os' = [os EXCEPT !.tasks[i].status = "COMPLETED"]

\* No task of phase 6 ever gets a deadline.
TaskScore(t) ==
    LET s0 == <<100, 75, 50, 25, 10>>[t.priority + 1] * 1000
        s1 == IF t.energy_type = "MENTAL" /\ energy_overall(os) < 4000 THEN s0 \div 2 ELSE s0
        s2 == IF os.mode = "EMERGENCY" /\ t.priority # 0 THEN s1 \div 10 ELSE s1
        s3 == IF os.mode = "RECOVERY" /\ t.energy_required > 20 THEN s2 \div 5 ELSE s2
    IN  (s3 * energy_efficiency(os)) \div 100 + t.value_score * 500

\* The index of the best task that is pending, the first of those, or none.
hos_get_next_task ==
    LET pending == {i \in DOMAIN os.tasks : os.tasks[i].status = "PENDING"}
        score(i) == TaskScore(os.tasks[i].kind)
    IN  {i \in pending : \A j \in pending : score(j) < score(i) \/ (score(j) = score(i) /\ i <= j)}

\* What working takes from mind, body and feelings, in this order; without a task, NoWork.
NoWork == [energy_type |-> "NONE"]

WorkCost(t, minutes) ==
    IF t = NoWork THEN <<minutes \div 5, 0, 0>>
    ELSE LET longest == IF t.duration_minutes < 1 THEN 1 ELSE t.duration_minutes
             cost == (t.energy_required * minutes * 100) \div (energy_efficiency(os) * longest)
         IN  CASE t.energy_type = "MENTAL"    -> <<cost, 0, 0>>
               [] t.energy_type = "PHYSICAL"  -> <<0, cost, 0>>
               [] t.energy_type = "EMOTIONAL" -> <<0, 0, cost>>
               [] t.energy_type = "MIXED"     -> <<(cost * 2) \div 5, (cost * 3) \div 10, (cost * 3) \div 10>>

Changed(e, mental, physical, emotional) ==
    [e EXCEPT !.mental = Clamped(@ + mental, 0, 100),
              !.physical = Clamped(@ + physical, 0, 100),
              !.emotional = Clamped(@ + emotional, 0, 100)]

\* The task need not run, and is not looked up by its state.
hos_work(t, minutes) ==
    LET c == WorkCost(t, minutes)
        tired == Changed(os, -c[1], -c[2], -c[3])
        gain == (minutes * (100 - energy_efficiency(tired))) \div 120
    IN  os' = [tired EXCEPT !.worked = @ + minutes, !.burnout = Clamped(@ + gain, 0, 1000)]

\* What an hour of it restores.
Restoring ==
    [exercise |-> <<3, 15, 0>>, social |-> <<2, 0, 12>>, sleep |-> <<12, 10, 10>>,
     meditation |-> <<10, 0, 8>>, other |-> <<5, 4, 4>>]

hos_rest(activity, minutes) ==
    LET r == [k \in 1 .. 3 |-> (Restoring[activity][k] * minutes) \div 60]
    IN  os' = [Changed(os, r[1], r[2], r[3]) EXCEPT
                  !.burnout = Clamped(@ - (minutes * 80) \div 60, 0, 1000)]

hos_sleep(hours) ==
    LET q == IF hours > 8 THEN 8 ELSE IF hours < 1 THEN 1 ELSE hours
    IN  os' = [Changed(os, (90 * q) \div 8, (85 * q) \div 8, (80 * q) \div 8) EXCEPT
                  !.burnout = Clamped(@ - hours * 80, 0, 1000), !.worked = 0]

AutoMode(e) ==
    LET energy == energy_overall(e)  hour == e.hour_of_day
    IN  IF e.burnout >= 850 \/ energy < 1500 THEN "RECOVERY"
        ELSE IF hour \in 9 .. 11 /\ energy >= 7000 THEN "FOCUSED"
        ELSE IF hour \in 12 .. 13 THEN "PRODUCTIVE"
        ELSE IF hour \in 19 .. 21 /\ energy >= 4000 THEN "LEARNING"
        ELSE IF energy < 3000 THEN "RECOVERY" ELSE "PRODUCTIVE"

hos_auto_mode == os' = [os EXCEPT !.mode = AutoMode(os)]

HealthOf(e) ==
    LET energy == energy_overall(e)
    IN  IF e.burnout >= 800 \/ energy < 2000 THEN "SHUTDOWN"
        ELSE IF e.burnout >= 600 \/ energy < 4000 THEN "CRITICAL"
        ELSE IF e.burnout >= 400 \/ energy < 6000 THEN "DEGRADED" ELSE "OPTIMAL"

hos_health_check == os' = [os EXCEPT !.status = HealthOf(os)]

\* The caller moves the clock on, and in an emergency sets the mode by hand.
SetHour(h) == os' = [os EXCEPT !.hour_of_day = h]

SetMode(mode) == os' = [os EXCEPT !.mode = mode]

hos_add_goal(target) ==
    /\ Len(life.goals) < 1
    /\ life' = [life EXCEPT !.goals = Append(@, [current |-> 0, target |-> target])]

hos_update_goal(i, progress) ==
    life' = [life EXCEPT !.goals[i].current = Clamped(@ + progress, 0, life.goals[i].target)]

hos_add_habit ==
    /\ Len(life.habits) < 1
    /\ life' = [life EXCEPT !.habits = Append(@, [streak |-> 0, completion_rate |-> 0, done_today |-> FALSE])]

\* Each mark adds to the streak, the second of a day too; no missed day ends it.
hos_mark_habit_done(i) ==
    life' = [life EXCEPT !.habits[i] =
        [streak |-> @.streak + 1, completion_rate |-> Clamped(@.completion_rate + 5, 0, 100), done_today |-> TRUE]]

hos_new_day ==
    /\ life.day_number < MAX_DAY_NUMBER
    /\ life' = [life EXCEPT !.day_number = @ + 1,
                            !.week_number = IF (life.day_number + 1) % 7 = 0 THEN @ + 1 ELSE @,
                            !.habits = [i \in DOMAIN @ |-> [@[i] EXCEPT !.done_today = FALSE]]]
    /\ os' = [os EXCEPT !.worked = 0]

\* productivity_score, habit_adherence, goal_velocity and focus_ratio.
hos_compute_metrics ==
    LET done == {i \in DOMAIN os.tasks : os.tasks[i].status = "COMPLETED"}
    IN  [productivity_score |-> IF os.tasks = << >> THEN 0
                                ELSE (Cardinality(done) * 100) \div Len(os.tasks),
         goal_velocity |-> IF life.goals = << >> THEN 0
                           ELSE FoldLeft(LAMBDA n, g : n + (g.current * 100) \div g.target, 0, life.goals)
                                  \div Len(life.goals),
         habit_adherence |-> IF life.habits = << >> THEN 0
                             ELSE FoldLeft(LAMBDA n, h : n + h.completion_rate, 0, life.habits) \div Len(life.habits),
         focus_ratio |-> (os.worked * 100) \div 480]

\* What asks for a next task, or takes one that was given.
Kinds == {os.tasks[i].kind : i \in DOMAIN os.tasks} \cup {NoWork}

Quiet == UNCHANGED <<life, happened>>

HosNext ==
    \/ /\ happened < MAX_EVENTS /\ happened' = happened + 1
       /\ \/ /\ \/ \E t \in Kinds, minutes \in WorkMinutes : hos_work(t, minutes)
                \/ \E a \in DOMAIN Restoring, minutes \in RestMinutes : hos_rest(a, minutes)
             /\ restored' = FALSE
          \/ \E hours \in SleepHours : hos_sleep(hours) /\ restored' = (hours >= 8)
       /\ UNCHANGED life
    \/ /\ \/ \E t \in HumanTasks : hos_add_task(t)
          \/ \E i \in DOMAIN os.tasks : hos_start_task(i) \/ hos_complete_task(i)
          \/ hos_auto_mode \/ hos_health_check
          \/ \E h \in DayHours : SetHour(h)
          \/ SetMode("EMERGENCY")
       /\ Quiet /\ UNCHANGED restored
    \/ /\ hos_new_day
       /\ UNCHANGED <<happened, restored>>
    \/ /\ happened < MAX_EVENTS /\ happened' = happened + 1
       /\ \/ \E target \in {50, 100} : hos_add_goal(target)
          \/ \E i \in DOMAIN life.goals, progress \in {-30, 60} : hos_update_goal(i, progress)
          \/ hos_add_habit
          \/ \E i \in DOMAIN life.habits : hos_mark_habit_done(i)
       /\ UNCHANGED <<os, restored>>

HosSpec == HosInit /\ [][HosNext]_hosVars

\* Eight hours of sleep restore the system whatever came before: a health check
\* then says OPTIMAL, and the mode that is chosen is not RECOVERY; an emergency puts
\* a critical task first among tasks worth the same; where mode is RECOVERY for
\* want of nearly all energy, the system is to be shut down; and what is shown in
\* percent is, but for hours worked beyond those of a day.  human_os.c:217-541.
SleepRestores ==
    /\ restored => HealthOf(os) = "OPTIMAL" /\ AutoMode(os) # "RECOVERY"
    /\ energy_overall(os) < 1500 \/ os.burnout >= 850 => HealthOf(os) = "SHUTDOWN" /\ AutoMode(os) = "RECOVERY"
    /\ os.mode = "EMERGENCY" =>
          \A i \in hos_get_next_task, j \in DOMAIN os.tasks :
             os.tasks[j].status = "PENDING" /\ os.tasks[j].kind.priority = 0
               /\ os.tasks[j].kind.value_score = os.tasks[i].kind.value_score =>
                  os.tasks[i].kind.priority = 0
    /\ LET m == hos_compute_metrics
       IN  /\ {m.productivity_score, m.goal_velocity, m.habit_adherence} \subseteq 0 .. 100
           /\ os.worked <= 480 => m.focus_ratio <= 100
=============================================================================
