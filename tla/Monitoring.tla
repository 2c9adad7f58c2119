----------------------------- MODULE Monitoring -----------------------------
(***************************************************************************)
(* What goes wrong is captured as events, in Redis or, when it does not    *)
(* answer, in the memory of the process.  The events are taken out, each   *)
(* minute by a task and each time the page of the errors is opened, and    *)
(* grouped in the base, one row for each kind of error.  The task then     *)
(* writes to the administrators: one email for the errors that are new or  *)
(* came back, one for those that are many.                                 *)
(*                                                                         *)
(* An event is the kind of error it is and its time.                       *)
(***************************************************************************)
EXTENDS Integers, Sequences, FiniteSets, Functions, SequencesExt

CONSTANTS
    Errors,         \* the kinds of error (signatures)
    Csp,            \* those a browser reports at each page it opens
    QueueMax,       \* events a queue holds
    Cooldown,       \* time between two emails of new errors
    SpikeAt,        \* occurrences within SpikeSpan that make a spike
    SpikeSpan, Realert,   \* the time they are counted over; the time between two emails on one
    Retention,      \* how long what is over is kept
    WatchHorizon, EventMax, WatchDeaths, HandsMax   \* bounds: time, events, deaths and rollbacks, acts

ASSUME WatchAssumption ==
    /\ IsFiniteSet(Errors) /\ Csp \subseteq Errors /\ {EventMax, HandsMax} \subseteq Nat
    /\ {QueueMax, SpikeAt} \subseteq Nat \ {0}
    /\ {Cooldown, SpikeSpan, Realert, Retention, WatchHorizon} \subseteq Nat
    /\ Retention >= SpikeSpan + Realert /\ Retention >= Cooldown

VARIABLES
    queue,      \* events, in Redis and in the memory of the page's process and of the task's
    issue,      \* the rows
    seenAt,     \* the times of the occurrences kept
    drain,      \* what the page and the task have under way
    watchHour,
    newsSent,   \* history: the emails of new errors: the time, the errors, how often each was opened
    peaksSent,  \* history: the emails of spikes
    captured,   \* history: how many events of each kind there were
    gone,       \* history: those that died with a process, a rollback or a full queue, or were purged
    opened,     \* history: how often each error was created or came back
    crossed,    \* history: somebody wrote a row between its reading by a drain and the commit
    fell, hands \* deaths and rollbacks; acts of the administrators

watchVars ==
    <<queue, issue, seenAt, drain, watchHour, newsSent, peaksSent, captured, gone, opened, crossed, fell, hands>>

Drainers == {"page", "task"}
Stores   == {"redis"} \cup Drainers
Never  == -1
NoIssue  == [status |-> "none"]
SameRow(r, s) == r # NoIssue /\ s # NoIssue /\ r.id = s.id   \* one created again is another
Unread   == {"NEW", "REOPENED"}
Event    == [error : Errors, at : 0..WatchHorizon]
NoDrain  == [at |-> "idle"]

WatchInit ==
    /\ queue = [q \in Stores |-> <<>>]
    /\ issue = [e \in Errors |-> NoIssue]
    /\ seenAt = [e \in Errors |-> <<>>]
    /\ drain = [d \in Drainers |-> NoDrain]
    /\ watchHour = 0 /\ newsSent = <<>> /\ peaksSent = <<>>
    /\ captured = [e \in Errors |-> 0] /\ gone = [e \in Errors |-> 0] /\ opened = [e \in Errors |-> 0]
    /\ crossed = FALSE /\ fell = 0 /\ hands = 0

OfError(s, e) == Cardinality({i \in DOMAIN s : s[i].error = e})
Lose(s) == gone' = [e \in Errors |-> gone[e] + OfError(s, e)]
Exists(e) == issue[e] # NoIssue
LatestOf(times) == CHOOSE t \in times : \A u \in times : u <= t
WatchIdle(d) == drain[d] = NoDrain
Unheard == <<newsSent, peaksSent>>
Reading(d) == drain[d].at = "read"

-----------------------------------------------------------------------------
(* Capture.                                                                *)

\* Redis keeps the last QueueMax events, and so does a process that could
\* not reach it.
Capture(e, where) ==
    LET full == Len(queue[where]) = QueueMax
        kept == IF full THEN Tail(queue[where]) ELSE queue[where]
    IN /\ SumFunctionOnSet(captured, Errors) < EventMax
       /\ captured' = [captured EXCEPT ![e] = @ + 1]
       /\ queue' = [queue EXCEPT ![where] = Append(kept, [error |-> e, at |-> watchHour])]
       /\ IF full THEN Lose(<<Head(queue[where])>>) ELSE UNCHANGED gone
       /\ UNCHANGED <<issue, seenAt, drain, watchHour, Unheard, opened, crossed, fell, hands>>

-----------------------------------------------------------------------------
(* Grouping.                                                               *)

\* The events of its own process, and those of Redis if it answers.  With
\* none, the task goes straight to the alerts.
PopEvents(d) ==
    /\ WatchIdle(d)
    /\ \E redis \in BOOLEAN :
          LET s == queue[d] \o (IF redis THEN queue["redis"] ELSE <<>>)
          IN
          /\ drain' = [drain EXCEPT ![d] =
                 IF s # <<>> THEN [at |-> "popped", events |-> s]
                 ELSE IF d = "task" THEN [at |-> "alerts"] ELSE NoDrain]
          /\ queue' = [queue EXCEPT ![d] = <<>>, !["redis"] = IF redis THEN <<>> ELSE @]
    /\ UNCHANGED <<issue, seenAt, watchHour, Unheard, captured, gone, opened, crossed, fell, hands>>

Touched(d) == {e \in Errors : OfError(drain[d].events, e) > 0}

\* The rows are read, and nothing locks them.
ReadIssues(d) ==
    /\ drain[d].at = "popped"
    /\ drain' = [drain EXCEPT ![d] = [at |-> "read", events |-> @.events, rows |-> [e \in Touched(d) |-> issue[e]]]]
    /\ UNCHANGED <<queue, issue, seenAt, watchHour, Unheard, captured, gone, opened, crossed, fell, hands>>

NewIssue(id, times) ==
    [id |-> id, status |-> "NEW", count |-> 0, lastSeen |-> CHOOSE t \in times : \A u \in times : t <= u,
     resolvedAt |-> Never, alertedAt |-> Never, peakAt |-> Never, reopened |-> 0]

\* Faulty variant: whatever the time of the event.
ComesBackAnyway(row, times) == row.status = "RESOLVED"

\* Corrected, and seen again since.
ComesBack(row, times) == row.status = "RESOLVED" /\ LatestOf(times) > row.resolvedAt

\* The row as one commit leaves it: the columns the drain assigns come from
\* the row it read, the others from the row there is.
Grouped(read, now, id, times, n) ==
    LET row   == IF read = NoIssue THEN (IF now = NoIssue THEN NewIssue(id, times) ELSE now) ELSE read
        under == IF now = NoIssue THEN row ELSE now
        later == IF LatestOf(times) > row.lastSeen THEN LatestOf(times) ELSE under.lastSeen
    IN IF ComesBack(row, times)
       THEN [under EXCEPT !.status = "REOPENED", !.alertedAt = Never, !.reopened = row.reopened + 1,
                          !.count = row.count + n, !.lastSeen = later]
       ELSE [under EXCEPT !.count = row.count + n, !.lastSeen = later]

TimesOf(s, e) == {s[i].at : i \in {j \in DOMAIN s : s[j].error = e}}
TimesIn(s, e) == LET of == SetToSeq({i \in DOMAIN s : s[i].error = e}) IN [k \in DOMAIN of |-> s[of[k]].at]

\* A row read and purged meanwhile is not there to be written: the commit
\* fails.
Stale(d) == Reading(d) /\ \E e \in Touched(d) : drain[d].rows[e] # NoIssue /\ ~SameRow(drain[d].rows[e], issue[e])

Ingested(d) ==
    LET s == drain[d].events  rows == drain[d].rows  here == Touched(d)
    IN /\ ~Stale(d)
       /\ issue' = [e \in Errors |->
             IF e \in here THEN Grouped(rows[e], issue[e], opened[e], TimesOf(s, e), OfError(s, e)) ELSE issue[e]]
       /\ seenAt' = [e \in Errors |-> seenAt[e] \o TimesIn(s, e)]

\* Nobody was told of it as it is now: it is new, or it came back.
Opens(e) == issue'[e] # NoIssue /\ issue'[e].alertedAt = Never /\ (issue[e] = NoIssue \/ issue[e].alertedAt # Never)

\* The task goes on to the alerts, the page shows its list.
Ingest(d) ==
    /\ Reading(d)
    /\ Ingested(d)
    /\ opened' = [e \in Errors |-> IF Opens(e) THEN opened[e] + 1 ELSE opened[e]]
    /\ crossed' = (crossed \/ \E f \in Drainers \ {d} : Reading(f))
    /\ drain' = [drain EXCEPT ![d] = IF d = "task" THEN [at |-> "alerts"] ELSE NoDrain]
    /\ UNCHANGED <<queue, watchHour, Unheard, captured, gone, fell, hands>>

\* A bound on what falls by itself, none on what fails each time.
Falls(anyway) == (anyway \/ fell < WatchDeaths) /\ fell' = fell + 1

\* The commit fails, or the process dies: the events were already taken.
BreakDrain(d) ==
    /\ drain[d].at \in {"popped", "read"}
    /\ Falls(Stale(d)) /\ Lose(drain[d].events)
    /\ drain' = [drain EXCEPT ![d] = NoDrain]
    /\ UNCHANGED <<queue, issue, seenAt, watchHour, Unheard, captured, opened, crossed, hands>>

\* A process restarts with nothing in memory.
RestartProcess(d) ==
    /\ WatchIdle(d) /\ queue[d] # <<>> /\ fell < WatchDeaths
    /\ fell' = fell + 1 /\ Lose(queue[d])
    /\ queue' = [queue EXCEPT ![d] = <<>>]
    /\ UNCHANGED <<issue, seenAt, drain, watchHour, Unheard, captured, opened, crossed, hands>>

-----------------------------------------------------------------------------
(* Alerts.                                                                 *)

NewsToTell == {e \in Errors : Exists(e) /\ issue[e].status \in Unread /\ issue[e].alertedAt = Never}

\* The latest alert the rows remember: an error that came back forgot its own.
LastAlert == LatestOf({Never} \cup {issue[e].alertedAt : e \in {f \in Errors : Exists(f)}})

MayTell == LastAlert = Never \/ watchHour - LastAlert >= Cooldown

\* Faulty variant: as often as the task runs.
MayTellAlways == LastAlert >= Never

InLastHour(e) == Cardinality({i \in DOMAIN seenAt[e] : seenAt[e][i] >= watchHour - SpikeSpan})

Peaks ==
    {e \in Errors \ Csp : /\ Exists(e) /\ InLastHour(e) >= SpikeAt
                          /\ issue[e].peakAt = Never \/ watchHour - issue[e].peakAt >= Realert}

\* The emails leave, then their times are committed.
SendAlerts ==
    LET tell == IF MayTell THEN NewsToTell ELSE {}
    IN /\ drain["task"].at = "alerts"
       /\ newsSent' = IF tell = {} THEN newsSent ELSE Append(newsSent, [at |-> watchHour, of |-> tell, opened |-> opened])
       /\ peaksSent' = IF Peaks = {} THEN peaksSent ELSE Append(peaksSent, [at |-> watchHour, of |-> Peaks])
       /\ drain' = [drain EXCEPT !["task"] = [at |-> "sent", tell |-> tell, peaks |-> Peaks, when |-> watchHour,
                                               rows |-> [e \in tell \cup Peaks |-> issue[e]]]]
       /\ UNCHANGED <<queue, issue, seenAt, watchHour, captured, gone, opened, crossed, fell, hands>>

Told == IF drain["task"].at = "sent" THEN drain["task"].tell \cup drain["task"].peaks ELSE {}
Erased == \E e \in Told : ~SameRow(drain["task"].rows[e], issue[e])

RecordAlerts ==
    /\ drain["task"].at = "sent"
    /\ ~Erased
    /\ issue' = [e \in Errors |->
          IF e \notin Told THEN issue[e]
          ELSE [issue[e] EXCEPT !.alertedAt = IF e \in drain["task"].tell THEN drain["task"].when ELSE @,
                                !.peakAt = IF e \in drain["task"].peaks THEN drain["task"].when ELSE @]]
    /\ drain' = [drain EXCEPT !["task"] = NoDrain]
    /\ UNCHANGED <<queue, seenAt, watchHour, Unheard, captured, gone, opened, crossed, fell, hands>>

\* The task dies before the commit: what it sent is not recorded.
BreakAlerts ==
    /\ drain["task"].at \in {"alerts", "sent"}
    /\ Falls(Erased)
    /\ drain' = [drain EXCEPT !["task"] = NoDrain]
    /\ UNCHANGED <<queue, issue, seenAt, watchHour, Unheard, captured, gone, opened, crossed, hands>>

-----------------------------------------------------------------------------
(* The administrators, the night and the clock.                            *)

\* An error handled by hand is not told any more.
HandleByHand(e, st) ==
    /\ Exists(e) /\ hands < HandsMax
    /\ hands' = hands + 1
    /\ crossed' = (crossed \/ \E d \in Drainers : Reading(d))
    /\ issue' = [issue EXCEPT ![e] =
          [issue[e] EXCEPT
              !.status = st,
              !.resolvedAt = IF st = "RESOLVED" THEN watchHour ELSE IF st = "NEW" THEN Never ELSE issue[e].resolvedAt,
              !.alertedAt = IF issue[e].alertedAt = Never THEN watchHour ELSE issue[e].alertedAt]]
    /\ UNCHANGED <<queue, seenAt, drain, watchHour, Unheard, captured, gone, opened, fell>>

Since(times, limit) ==
    LET kept == SetToSeq({i \in DOMAIN times : times[i] >= limit}) IN [k \in DOMAIN kept |-> times[kept[k]]]

Purge ==
    LET old == {e \in Errors : Exists(e) /\ issue[e].lastSeen < watchHour - Retention}
    IN /\ issue' = [e \in Errors |-> IF e \in old THEN NoIssue ELSE issue[e]]
       /\ seenAt' = [e \in Errors |-> IF e \in old THEN <<>> ELSE Since(seenAt[e], watchHour - Retention)]
       /\ gone' = [e \in Errors |-> IF e \in old THEN gone[e] + issue[e].count ELSE gone[e]]
       /\ UNCHANGED <<queue, drain, watchHour, Unheard, captured, opened, crossed, fell, hands>>

TimePasses ==
    /\ watchHour < WatchHorizon /\ watchHour' = watchHour + 1
    /\ UNCHANGED <<queue, issue, seenAt, drain, Unheard, captured, gone, opened, crossed, fell, hands>>

WatchNext ==
    \/ \E e \in Errors : \/ \E q \in Stores : Capture(e, q)
                         \/ \E st \in {"IN_PROGRESS", "RESOLVED", "NEW"} : HandleByHand(e, st)
    \/ \E d \in Drainers : PopEvents(d) \/ ReadIssues(d) \/ Ingest(d) \/ BreakDrain(d) \/ RestartProcess(d)
    \/ SendAlerts \/ RecordAlerts \/ BreakAlerts \/ Purge \/ TimePasses

WatchSpec == WatchInit /\ [][WatchNext]_watchVars

-----------------------------------------------------------------------------
(* Properties.                                                             *)

WatchTypeOK ==
    /\ queue \in [Stores -> Seq(Event)] /\ \A q \in Stores : Len(queue[q]) <= QueueMax
    /\ \A e \in Errors :
          /\ Exists(e) => /\ issue[e].status \in Unread \cup {"IN_PROGRESS", "RESOLVED"}
                          /\ {issue[e].resolvedAt, issue[e].alertedAt, issue[e].peakAt} \subseteq {Never} \cup 0..watchHour
                          /\ issue[e].lastSeen \in 0..watchHour
          /\ captured[e] \in 0..EventMax
    /\ \A d \in Drainers : drain[d].at \in {"idle", "popped", "read", "alerts", "sent"}
    /\ watchHour \in 0..WatchHorizon /\ fell \in Nat /\ hands \in 0..HandsMax

Waiting(e) ==
    LET held(d) == IF drain[d].at \in {"popped", "read"} THEN OfError(drain[d].events, e) ELSE 0
    IN OfError(queue["redis"], e) + OfError(queue["page"], e) + OfError(queue["task"], e) + held("page") + held("task")
Count(e) == IF Exists(e) THEN issue[e].count ELSE 0

\* An event is counted once, whatever fails between the queue and the base,
\* and as long as nobody writes between a drain's reading and its commit
\* every event is counted, waits, or is known to be gone.
CountedOnce ==
    \A e \in Errors : /\ Waiting(e) + Count(e) + gone[e] <= captured[e]
                      /\ crossed \/ Waiting(e) + Count(e) + gone[e] = captured[e]

\* An error said to have come back occurred after it was said corrected: an
\* event that waited in a queue meanwhile does not bring it back.
CameBackSince ==
    \A e \in Errors : Exists(e) /\ issue[e].status = "REOPENED" /\ ~crossed => issue[e].lastSeen > issue[e].resolvedAt

\* "UN email": an error is told as new once each time it appears or comes
\* back, and once more for each task that died before its commit.
ToldOncePerOpening ==
    \A e \in Errors : Cardinality({i \in DOMAIN newsSent : e \in newsSent[i].of}) <= opened[e] + fell

\* The emails of new errors are Cooldown apart.  The rows remember when; so
\* unless each error of the earlier email came back or was purged since.
CooldownKept ==
    \A i, j \in DOMAIN newsSent :
        i < j /\ newsSent[j].at - newsSent[i].at < Cooldown /\ fell = 0 =>
            \A e \in newsSent[i].of : opened[e] > newsSent[i].opened[e] \/ ~Exists(e)

\* An error that occurs again and again is the matter of one email of spike
\* per Realert, its correction and its coming back notwithstanding.
PeaksSpaced ==
    \A i, j \in DOMAIN peaksSent :
        i < j /\ peaksSent[i].of \cap peaksSent[j].of # {} /\ fell = 0 /\ ~crossed =>
            peaksSent[j].at - peaksSent[i].at >= Realert

WatchRight == CountedOnce /\ CameBackSince /\ ToldOncePerOpening /\ CooldownKept /\ PeaksSpaced
=============================================================================
