---------------------------- MODULE Notifications ----------------------------
(***************************************************************************)
(* The Hub's mail notifications (notify/notifier.go): the delayed alarm    *)
(* for a node that went away, the two queues, the worker that sends, the   *)
(* cached mail settings and the shutdown.  One node comes and goes; its    *)
(* connection handlers (grpcserver/handler.go) call Notify from their own  *)
(* goroutines.  Lock regions of the notifier are single steps.             *)
(***************************************************************************)
EXTENDS Naturals, Sequences, FiniteSets

CONSTANTS MaxGens,    \* bound: connections of the node
          MaxAlarms,  \* bound: account events
          MaxEdits,   \* bound: changes of settings and preferences
          QueueSize   \* queueSize, of each of the two queues

VARIABLES conn,     \* the registered connection, 0 when there is none
          used,     \* connections so far
          on,       \* onAgentConnected of each connection
          fin,      \* finishAgentDisconnected of each connection
          timer,    \* the debounce entry: the connection whose loss armed it
          fired,    \* timers that fired, their callbacks wait for the lock
          late,     \* events on their way into a queue, past the lock
          queue, priorityQueue,
          open,     \* channels still open: 2, then 1 (priority), then 0
          closing,  \* Close: "no", "stopped", "waiting" or "done"
          worker,
          settings, \* the stored mail settings: on or off, and a version
          cache,    \* the notifier's copy
          admin,    \* a settings request: "idle" or "saved"
          muted,    \* event types the reader does not want
          alarms, edits,
          panicked  \* a send on a closed channel ends the process

agentVars == <<conn, used, on, fin>>
queues == <<queue, priorityQueue>>
adminVars == <<settings, admin, muted, edits>>
vars == <<agentVars, timer, fired, late, queues, open, closing, worker,
          adminVars, cache, alarms, panicked>>

Gens == 1 .. MaxGens
Events == {"offline", "online", "account_locked"}
securityEvents == {"account_locked"}
Working == [pc |-> "idle", drain |-> "no", cfg |-> 0]

TypeOK ==
    /\ conn \in 0 .. used /\ used \in 0 .. MaxGens
    /\ timer \in 0 .. MaxGens /\ fired \subseteq Gens
    /\ late \subseteq Events /\ muted \subseteq Events
    /\ Len(queue) <= QueueSize /\ Len(priorityQueue) <= QueueSize
    /\ open \in 0 .. 2 /\ settings.on \in BOOLEAN

Init ==
    /\ conn = 0 /\ used = 0
    /\ on = [g \in Gens |-> "none"] /\ fin = [g \in Gens |-> "none"]
    /\ timer = 0 /\ fired = {} /\ late = {}
    /\ queue = <<>> /\ priorityQueue = <<>>
    /\ open = 2 /\ closing = "no"
    /\ worker = Working
    /\ settings = [on |-> TRUE, v |-> 1]
    /\ cache = [v |-> 1, fresh |-> FALSE]
    /\ admin = "idle" /\ muted = {}
    /\ alarms = 0 /\ edits = 0 /\ panicked = FALSE

(***************************************************************************)
(* Notify                                                                  *)
(***************************************************************************)

\* An event is on its way: recipients and settings are read when it is put
\* into a queue.
Notified(e) == late' = late \cup {e}

\* scheduleDebounced: a loss replaces the timer of an earlier one.
ScheduleDebounced(g) == timer' = g /\ UNCHANGED late

\* cancelDebounce: a return stops the pending timer and is not announced.
NotifyOnline ==
    IF timer # 0 THEN timer' = 0 /\ UNCHANGED late
    ELSE Notified("online") /\ UNCHANGED timer

\* The timer runs out; its callback then waits for the lock, out of Stop's
\* reach.
TimerFires ==
    /\ timer # 0 /\ timer \notin fired
    /\ fired' = fired \cup {timer}
    /\ UNCHANGED <<agentVars, timer, late, queues, open, closing, worker,
                   adminVars, cache, alarms, panicked>>

\* The callback removes the entry, whichever timer it belongs to, and sends.
DebounceExpired(g) ==
    /\ g \in fired
    /\ fired' = fired \ {g}
    /\ timer' = 0
    /\ Notified("offline")
    /\ UNCHANGED <<agentVars, queues, open, closing, worker, adminVars, cache,
                   alarms, panicked>>

\* GetEnabledRecipients, for one reader.
GetEnabledRecipients(e) == e \notin muted

\* enqueueJob: a full queue drops the event, unless it is a security event
\* for which the priority queue has room.
EnqueueJob(e) ==
    \/ /\ Len(queue) < QueueSize
       /\ queue' = Append(queue, e) /\ UNCHANGED priorityQueue
    \/ /\ Len(queue) = QueueSize
       /\ e \in securityEvents /\ Len(priorityQueue) < QueueSize
       /\ priorityQueue' = Append(priorityQueue, e) /\ UNCHANGED queue
    \/ /\ Len(queue) = QueueSize
       /\ e \in securityEvents => Len(priorityQueue) = QueueSize
       /\ UNCHANGED queues

\* Nothing is sent while mail is off; a send on a closed channel panics.
EnqueueNotification(e) ==
    /\ e \in late
    /\ late' = late \ {e}
    /\ IF ~settings.on \/ ~GetEnabledRecipients(e)
       THEN UNCHANGED <<queues, panicked>>
       ELSE IF open < 2 THEN panicked' = TRUE /\ UNCHANGED queues
       ELSE EnqueueJob(e) /\ UNCHANGED panicked
    /\ UNCHANGED <<agentVars, timer, fired, open, closing, worker, adminVars,
                   cache, alarms>>

(***************************************************************************)
(* The node's connections                                                  *)
(***************************************************************************)

\* A connection registers, beside or instead of an earlier one.
Register ==
    /\ used < MaxGens /\ closing = "no"
    /\ used' = used + 1 /\ conn' = used + 1
    /\ on' = [on EXCEPT ![used + 1] = "notify"]
    /\ UNCHANGED <<fin, timer, fired, late, queues, open, closing, worker,
                   adminVars, cache, alarms, panicked>>

OnAgentConnected(g) ==
    /\ on[g] = "notify" /\ on' = [on EXCEPT ![g] = "done"]
    /\ NotifyOnline
    /\ UNCHANGED <<conn, used, fin, fired, queues, open, closing, worker,
                   adminVars, cache, alarms, panicked>>

\* The stream of the registered connection ends, once its handler has
\* announced it; the bookkeeping goes on in a goroutine.
OnAgentDisconnected ==
    /\ conn # 0 /\ on[conn] = "done"
    /\ conn' = 0
    /\ fin' = [fin EXCEPT ![conn] = "check"]
    /\ UNCHANGED <<used, on, timer, fired, late, queues, open, closing, worker,
                   adminVars, cache, alarms, panicked>>

\* finishAgentDisconnected looks for a replacement ...
FinishChecks(g) ==
    /\ fin[g] = "check"
    /\ fin' = [fin EXCEPT ![g] = IF conn # 0 THEN "done" ELSE "notify"]
    /\ UNCHANGED <<conn, used, on, timer, fired, late, queues, open, closing,
                   worker, adminVars, cache, alarms, panicked>>

\* ... and raises the alarm if it found none.
FinishNotifies(g) ==
    /\ fin[g] = "notify" /\ fin' = [fin EXCEPT ![g] = "done"]
    /\ ScheduleDebounced(g)
    /\ UNCHANGED <<conn, used, on, fired, queues, open, closing, worker,
                   adminVars, cache, alarms, panicked>>

\* A request locks an account and notifies.
NotifyAccountLocked ==
    /\ alarms < MaxAlarms /\ closing = "no" /\ "account_locked" \notin late
    /\ alarms' = alarms + 1
    /\ Notified("account_locked")
    /\ UNCHANGED <<agentVars, timer, fired, queues, open, closing, worker,
                   adminVars, cache, panicked>>

(***************************************************************************)
(* Settings and preferences                                                *)
(***************************************************************************)

HandleUpdateSMTPConfig ==
    /\ admin = "idle" /\ edits < MaxEdits
    /\ edits' = edits + 1
    /\ \E b \in BOOLEAN : settings' = [on |-> b, v |-> settings.v + 1]
    /\ admin' = "saved"
    /\ UNCHANGED <<agentVars, timer, fired, late, queues, open, closing,
                   worker, muted, cache, alarms, panicked>>

InvalidateSMTPCache ==
    /\ admin = "saved" /\ admin' = "idle"
    /\ cache' = [cache EXCEPT !.fresh = FALSE]
    /\ UNCHANGED <<agentVars, timer, fired, late, queues, open, closing,
                   worker, settings, muted, edits, alarms, panicked>>

SetNotificationPreference(e) ==
    /\ edits < MaxEdits /\ edits' = edits + 1
    /\ muted' = IF e \in muted THEN muted \ {e} ELSE muted \cup {e}
    /\ UNCHANGED <<agentVars, timer, fired, late, queues, open, closing,
                   worker, settings, admin, cache, alarms, panicked>>

\* The copy is good for a minute.
CacheExpires ==
    /\ cache.fresh /\ cache' = [cache EXCEPT !.fresh = FALSE]
    /\ UNCHANGED <<agentVars, timer, fired, late, queues, open, closing,
                   worker, adminVars, alarms, panicked>>

(***************************************************************************)
(* The worker                                                              *)
(***************************************************************************)

WorkerGoes(w) == worker' = w

TakeFrom(q) ==
    IF q = "queue" THEN queue' = Tail(queue) /\ UNCHANGED priorityQueue
    ELSE priorityQueue' = Tail(priorityQueue) /\ UNCHANGED queue
Pending(q) == IF q = "queue" THEN queue # <<>> ELSE priorityQueue # <<>>
Closed(q) == IF q = "queue" THEN open < 2 ELSE open = 0
Other(q) == IF q = "queue" THEN "priority" ELSE "queue"

\* A queue may be read when it has a job or is closed.
Ready(q) == Pending(q) \/ Closed(q)

\* A closed queue that is empty: the worker drains the other one and ends.
AfterClosed_Returns(q) == [worker EXCEPT !.pc = "exit"]
AfterClosed(q) == [worker EXCEPT !.pc = "idle", !.drain = Other(q)]

\* The worker looks at the priority queue ...
WorkerPolls ==
    /\ worker.pc = "idle" /\ worker.drain = "no" /\ ~Ready("priority")
    /\ WorkerGoes([worker EXCEPT !.pc = "select"])
    /\ UNCHANGED <<agentVars, timer, fired, late, queues, open, closing,
                   adminVars, cache, alarms, panicked>>

\* ... and only if it found nothing there waits for either.
WorkerTakes(q) ==
    /\ worker.drain = "no" /\ Ready(q)
    /\ worker.pc = "select" \/ (worker.pc = "idle" /\ q = "priority")
    /\ IF Pending(q) THEN TakeFrom(q) /\ WorkerGoes([worker EXCEPT !.pc = "job"])
       ELSE WorkerGoes(AfterClosed(q)) /\ UNCHANGED queues
    /\ UNCHANGED <<agentVars, timer, fired, late, open, closing, adminVars,
                   cache, alarms, panicked>>

DrainQueue ==
    /\ worker.pc = "idle" /\ worker.drain # "no"
    /\ LET q == worker.drain IN
       \/ Pending(q) /\ TakeFrom(q) /\ WorkerGoes([worker EXCEPT !.pc = "job"])
       \/ /\ ~Pending(q) /\ Closed(q)
          /\ WorkerGoes([worker EXCEPT !.pc = "exit"]) /\ UNCHANGED queues
    /\ UNCHANGED <<agentVars, timer, fired, late, open, closing, adminVars,
                   cache, alarms, panicked>>

\* processJob: the settings come from the copy, or from the store, and the
\* store's are kept in a second step.
CachedSMTPConfig ==
    /\ worker.pc = "job"
    /\ WorkerGoes(IF cache.fresh
                  THEN [worker EXCEPT !.pc = "send", !.cfg = cache.v]
                  ELSE [worker EXCEPT !.pc = "load", !.cfg = settings.v])
    /\ UNCHANGED <<agentVars, timer, fired, late, queues, open, closing,
                   adminVars, cache, alarms, panicked>>

KeepSMTPConfig ==
    /\ worker.pc = "load"
    /\ cache' = [cache EXCEPT !.v = worker.cfg, !.fresh = TRUE]
    /\ WorkerGoes([worker EXCEPT !.pc = "send"])
    /\ UNCHANGED <<agentVars, timer, fired, late, queues, open, closing,
                   adminVars, alarms, panicked>>

\* The mail is sent, or not, and the log says which.
ProcessJob ==
    /\ worker.pc = "send"
    /\ WorkerGoes([worker EXCEPT !.pc = "idle", !.cfg = 0])
    /\ UNCHANGED <<agentVars, timer, fired, late, queues, open, closing,
                   adminVars, cache, alarms, panicked>>

(***************************************************************************)
(* Shutdown                                                                *)
(***************************************************************************)

CloseStopsTimers ==
    /\ closing = "no" /\ closing' = "stopped"
    /\ timer' = 0
    /\ UNCHANGED <<agentVars, fired, late, queues, open, worker, adminVars,
                   cache, alarms, panicked>>

CloseChannel ==
    /\ closing = "stopped" /\ open > 0
    /\ open' = open - 1
    /\ closing' = IF open = 1 THEN "waiting" ELSE closing
    /\ UNCHANGED <<agentVars, timer, fired, late, queues, worker, adminVars,
                   cache, alarms, panicked>>

CloseReturns ==
    /\ closing = "waiting" /\ worker.pc = "exit"
    /\ closing' = "done"
    /\ UNCHANGED <<agentVars, timer, fired, late, queues, open, worker,
                   adminVars, cache, alarms, panicked>>

Close == CloseStopsTimers \/ CloseChannel \/ CloseReturns
Worker ==
    \/ \E q \in {"queue", "priority"} : WorkerTakes(q)
    \/ WorkerPolls \/ DrainQueue \/ CachedSMTPConfig \/ KeepSMTPConfig \/ ProcessJob

Next ==
    /\ ~panicked
    /\ \/ Register \/ OnAgentDisconnected \/ NotifyAccountLocked \/ TimerFires
       \/ HandleUpdateSMTPConfig \/ InvalidateSMTPCache \/ CacheExpires
       \/ Close \/ Worker
       \/ \E g \in Gens :
             \/ OnAgentConnected(g) \/ FinishChecks(g) \/ FinishNotifies(g)
             \/ DebounceExpired(g)
       \/ \E e \in Events : EnqueueNotification(e) \/ SetNotificationPreference(e)

Spec == Init /\ [][Next]_vars

(***************************************************************************)
(* Properties                                                              *)
(***************************************************************************)

\* When Close returns, every job that enqueueJob accepted has been taken by
\* the worker, whichever queue was closed first and whatever it was doing
\* (worker, drainQueue, Close).
ClosedIsDrained ==
    closing = "done" => queue = <<>> /\ priorityQueue = <<>>

=============================================================================
