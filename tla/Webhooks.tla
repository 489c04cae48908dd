------------------------------ MODULE Webhooks ------------------------------
(***************************************************************************)
(* WebhooksService and WebhookWorker (apps/api/src/webhooks): registered   *)
(* webhooks, the fan-out of an event to their delivery jobs, and the       *)
(* worker that posts a job's payload and counts the failures in a row that *)
(* switch a webhook off.                                                   *)
(*                                                                         *)
(* BullMQ and the endpoints are external.  The audit log is left out: it   *)
(* is written between the delivery row and the counter, nothing reads it   *)
(* but its owner's listing, and a failure to write it is one of Interrupt. *)
(***************************************************************************)
EXTENDS Integers, Sequences, FiniteSets, SequencesExt

CONSTANTS
    Hooks,          \* webhook ids
    Events,         \* event types
    Subscribed,     \* webhook -> the event types it was created for
    Processes,      \* API processes; each has one WebhookWorker
    Attempts,       \* WEBHOOK_RETRY_ATTEMPTS
    MaxFails,       \* WEBHOOK_MAX_CONSECUTIVE_FAILS
    MaxStalled,     \* BullMQ's maxStalledCount, 1
    MaxJobs, MaxRetries, MaxLosses  \* bounds of the model

ASSUME WebhooksAssumption ==
    /\ Subscribed \in [Hooks -> SUBSET Events] /\ IsFiniteSet(Processes)
    /\ Attempts \in Nat \ {0} /\ MaxFails \in Nat \ {0} /\ MaxStalled \in Nat
    /\ MaxJobs \in Nat /\ MaxRetries \in Nat /\ MaxLosses \in Nat

VARIABLES
    hooks,      \* the webhook table: id -> status, disabled, consecutiveFails
    log,        \* WebhookDelivery: id -> was each recorded attempt a success
    jobs,       \* the delivery queue, by job number
    up,         \* the processes that run
    fanout,     \* process -> webhooks its dispatch has still to queue a job for
    handler,    \* process -> the delivery its worker is in
    accepted,   \* jobs an endpoint has answered with success
    posts,      \* job -> POSTs made for it
    retried,    \* job -> how often its owner had it retried
    losses,     \* calls and processes lost
    blurred     \* history: webhooks whose rows and counts can have come apart: two of its
                \* deliveries overlapped, or one was cut off between its row and its count

queueVars == <<jobs, retried>>
worldVars == <<accepted, posts>>
vars == <<hooks, log, queueVars, up, fanout, handler, worldVars, losses, blurred>>

JobIds == 1 .. MaxJobs
Idle == [pc |-> "idle", job |-> 0, fails |-> 0, ok |-> FALSE]
NoJob == [state |-> "none", hook |-> "none", made |-> 0, stalls |-> 0]

Live(w) == hooks[w].status = "live"
JobsIn(state) == {j \in JobIds : jobs[j].state = state}
PutHook(w, status, disabled, fails) ==
    [hooks EXCEPT ![w] = [status |-> status, disabled |-> disabled, consecutiveFails |-> fails]]
PutJob(j, state, made, stalls) ==
    jobs' = [jobs EXCEPT ![j] = [state |-> state, hook |-> jobs[j].hook, made |-> made,
                                 stalls |-> stalls]]
Move(j, state) == PutJob(j, state, jobs[j].made, jobs[j].stalls)
Work(p, pc, job, fails, ok) ==
    handler' = [handler EXCEPT ![p] = [pc |-> pc, job |-> job, fails |-> fails, ok |-> ok]]
Lose == losses < MaxLosses /\ losses' = losses + 1

At(p, pc) == p \in up /\ handler[p].pc = pc
HookOf(p) == jobs[handler[p].job].hook

(* The webhooks a delivery is under way to, and the one whose row a process  *)
(* has written and not counted.                                              *)
Delivering(p) == IF handler[p].pc \in {"post", "log", "record"} THEN {HookOf(p)} ELSE {}
Uncounted(p)  == IF handler[p].pc = "record" THEN {HookOf(p)} ELSE {}

----------------------------------------------------------------------------
(* WebhooksService *)

Create(w) ==
    /\ hooks[w].status = "new"
    /\ hooks' = PutHook(w, "live", FALSE, 0)
    /\ UNCHANGED <<log, queueVars, up, fanout, handler, worldVars, losses, blurred>>

(* remove: the rows of its deliveries go with the webhook (ON DELETE CASCADE). *)
RemoveHook(w) ==
    /\ Live(w)
    /\ hooks' = PutHook(w, "removed", hooks[w].disabled, hooks[w].consecutiveFails)
    /\ log' = [log EXCEPT ![w] = <<>>]
    /\ UNCHANGED <<queueVars, up, fanout, handler, worldVars, losses, blurred>>

Subscribers(e) == {w \in Hooks : Live(w) /\ ~hooks[w].disabled /\ e \in Subscribed[w]}

(* dispatch looks the subscribers up, then adds one job for each. *)
Dispatch(p, e) ==
    /\ p \in up /\ fanout[p] = {} /\ JobsIn("none") # {}
    /\ fanout' = [fanout EXCEPT ![p] = Subscribers(e)]
    /\ UNCHANGED <<hooks, log, queueVars, up, handler, worldVars, losses, blurred>>

(* WebhookWorker.dispatch; BullMQ numbers the jobs in order. *)
AddJob(w) ==
    \E j \in JobsIn("none") :
        /\ \A k \in JobsIn("none") : j <= k
        /\ jobs' = [jobs EXCEPT ![j] = [state |-> "wait", hook |-> w, made |-> 0,
                                        stalls |-> 0]]

Queue(p) ==
    /\ p \in up
    /\ \E w \in fanout[p] : AddJob(w) /\ fanout' = [fanout EXCEPT ![p] = @ \ {w}]
    /\ UNCHANGED <<hooks, log, retried, up, handler, worldVars, losses, blurred>>

(* queue.add fails: the caller of dispatch logs it and goes on. *)
QueueFails(p) ==
    /\ p \in up /\ Lose
    /\ \E w \in fanout[p] : fanout' = [fanout EXCEPT ![p] = @ \ {w}]
    /\ UNCHANGED <<hooks, log, queueVars, up, handler, worldVars, blurred>>

(* ping: one job for one webhook, whether it is disabled or not. *)
Ping(w) ==
    /\ up # {} /\ Live(w)
    /\ AddJob(w)
    /\ UNCHANGED <<hooks, log, retried, up, fanout, handler, worldVars, losses, blurred>>

(* retryDeliveries: the failed jobs of the webhook wait again; the attempts  *)
(* they have made are kept.                                                  *)
Retry(w) ==
    LET again == {j \in JobsIn("failed") : jobs[j].hook = w}
    IN  /\ up # {} /\ Live(w)
        /\ again # {} /\ \A j \in again : retried[j] < MaxRetries
        /\ jobs' = [j \in JobIds |->
                       [state |-> IF j \in again THEN "wait" ELSE jobs[j].state,
                        hook |-> jobs[j].hook, made |-> jobs[j].made, stalls |-> jobs[j].stalls]]
        /\ retried' = [j \in JobIds |-> IF j \in again THEN retried[j] + 1 ELSE retried[j]]
        /\ UNCHANGED <<hooks, log, up, fanout, handler, worldVars, losses, blurred>>

----------------------------------------------------------------------------
(* The queue *)

(* A worker takes a waiting job; it handles one at a time. *)
Take(p) ==
    /\ p \in up /\ handler[p].pc = "idle"
    /\ \E j \in JobsIn("wait") :
          /\ Move(j, "active")
          /\ Work(p, "lookup", j, 0, FALSE)
    /\ UNCHANGED <<hooks, log, retried, up, fanout, worldVars, losses, blurred>>

(* The handler threw: the job waits for its next attempt, unless it was the last. *)
FailAttempt(p) ==
    LET j == handler[p].job
    IN  /\ PutJob(j, IF jobs[j].made + 1 < Attempts THEN "delayed" ELSE "failed",
                  jobs[j].made + 1, jobs[j].stalls)
        /\ handler' = [handler EXCEPT ![p] = Idle]

BackoffOver ==
    /\ \E j \in JobsIn("delayed") : Move(j, "wait")
    /\ UNCHANGED <<hooks, log, retried, up, fanout, handler, worldVars, losses, blurred>>

(* A job whose handler died is given back, not more than MaxStalled times. *)
Stalled ==
    /\ up # {}
    /\ \E j \in JobsIn("active") :
          /\ \A p \in Processes : handler[p].job # j
          /\ PutJob(j, IF jobs[j].stalls < MaxStalled THEN "wait" ELSE "failed",
                    jobs[j].made, jobs[j].stalls + 1)
    /\ UNCHANGED <<hooks, log, retried, up, fanout, handler, worldVars, losses, blurred>>

Crash(p) ==
    /\ p \in up /\ Lose
    /\ up' = up \ {p}
    /\ handler' = [handler EXCEPT ![p] = Idle]
    /\ fanout' = [fanout EXCEPT ![p] = {}]
    /\ blurred' = blurred \cup Uncounted(p)
    /\ UNCHANGED <<hooks, log, queueVars, worldVars>>

Restart(p) ==
    /\ p \notin up
    /\ up' = up \cup {p}
    /\ UNCHANGED <<hooks, log, queueVars, fanout, handler, worldVars, losses, blurred>>

----------------------------------------------------------------------------
(* deliver *)

(* Variant: the handler does not return. *)
Hang(p) == Move(handler[p].job, "done") /\ UNCHANGED handler

Finish(p) ==
    /\ Move(handler[p].job, "done")
    /\ handler' = [handler EXCEPT ![p] = Idle]

(* The webhook is read; a job for one that is gone or disabled is done. *)
Lookup(p) ==
    /\ At(p, "lookup")
    /\ LET w == HookOf(p)
       IN  IF ~Live(w) \/ hooks[w].disabled
           THEN Finish(p) /\ UNCHANGED blurred
           ELSE /\ Work(p, "post", handler[p].job, hooks[w].consecutiveFails, FALSE)
                /\ blurred' = blurred \cup ({w} \cap UNION {Delivering(q) : q \in Processes})
                /\ UNCHANGED jobs
    /\ UNCHANGED <<hooks, log, retried, up, fanout, worldVars, losses>>

(* fetch: an answer below 400 is a success; anything else, a timeout or a    *)
(* refused address is not.                                                   *)
Post(p) ==
    /\ At(p, "post")
    /\ \E ok \in BOOLEAN :
          /\ Work(p, "log", handler[p].job, handler[p].fails, ok)
          /\ accepted' = IF ok THEN accepted \cup {handler[p].job} ELSE accepted
    /\ posts' = [posts EXCEPT ![handler[p].job] = @ + 1]
    /\ UNCHANGED <<hooks, log, queueVars, up, fanout, losses, blurred>>

LogRow(w, ok) == [log EXCEPT ![w] = Append(@, ok)]

(* The delivery row; there is no row for a webhook that is gone, and the     *)
(* attempt fails.                                                            *)
Log(p) ==
    /\ At(p, "log")
    /\ IF Live(HookOf(p))
       THEN /\ log' = LogRow(HookOf(p), handler[p].ok)
            /\ Work(p, "record", handler[p].job, handler[p].fails, handler[p].ok)
            /\ UNCHANGED jobs
       ELSE FailAttempt(p) /\ UNCHANGED log
    /\ UNCHANGED <<hooks, retried, up, fanout, worldVars, losses, blurred>>

(* Variants: a success leaves the counter alone; a failure completes the job, *)
(* or is tried again without a count.                                        *)
KeepFails(w) == hooks
FinishAnyway(p) == Finish(p)
RetryForever(p) ==
    /\ Move(handler[p].job, "wait")
    /\ handler' = [handler EXCEPT ![p] = Idle]

Out(fails) == fails >= MaxFails

CountFailure(w, fails) == PutHook(w, hooks[w].status, Out(fails + 1), fails + 1)

ResetFails(w) == PutHook(w, hooks[w].status, hooks[w].disabled, 0)

FailedDelivery(p) == FailAttempt(p)

(* The counter is reset by a success and set to one more than was read by a  *)
(* failure, which also fails the attempt.                                    *)
Record(p) ==
    /\ At(p, "record")
    /\ LET w == HookOf(p)
       IN  CASE ~Live(w) -> FailAttempt(p) /\ UNCHANGED hooks
             [] Live(w) /\ handler[p].ok -> Finish(p) /\ hooks' = ResetFails(w)
             [] OTHER -> FailedDelivery(p) /\ hooks' = CountFailure(w, handler[p].fails)
    /\ UNCHANGED <<log, retried, up, fanout, worldVars, losses, blurred>>

(* A database call of the handler throws. *)
Interrupt(p) ==
    /\ p \in up /\ handler[p].pc \in {"lookup", "log", "record"}
    /\ Lose
    /\ FailAttempt(p)
    /\ blurred' = blurred \cup Uncounted(p)
    /\ UNCHANGED <<hooks, log, retried, up, fanout, worldVars>>

----------------------------------------------------------------------------

Init ==
    /\ hooks = [w \in Hooks |-> [status |-> "new", disabled |-> FALSE, consecutiveFails |-> 0]]
    /\ log = [w \in Hooks |-> <<>>]
    /\ jobs = [j \in JobIds |-> NoJob]
    /\ up = Processes
    /\ fanout = [p \in Processes |-> {}] /\ handler = [p \in Processes |-> Idle]
    /\ accepted = {} /\ posts = [j \in JobIds |-> 0] /\ retried = [j \in JobIds |-> 0]
    /\ losses = 0 /\ blurred = {}

ServiceStep ==
    \/ \E w \in Hooks : Create(w) \/ RemoveHook(w) \/ Ping(w) \/ Retry(w)
    \/ \E p \in Processes, e \in Events : Dispatch(p, e)
    \/ \E p \in Processes : Queue(p) \/ QueueFails(p)

DeliverStep(p) == Lookup(p) \/ Post(p) \/ Log(p) \/ Record(p)

Next ==
    \/ ServiceStep \/ BackoffOver \/ Stalled
    \/ \E p \in Processes :
          Take(p) \/ DeliverStep(p) \/ Interrupt(p) \/ Crash(p) \/ Restart(p)

Spec == Init /\ [][Next]_vars

(* A process that died is started again, its worker takes waiting jobs and   *)
(* awaited calls return; BullMQ promotes delayed and gives back stalled jobs.*)
Fairness ==
    /\ WF_vars(BackoffOver) /\ WF_vars(Stalled)
    /\ \A p \in Processes : /\ WF_vars(Restart(p)) /\ WF_vars(Take(p))
                            /\ WF_vars(DeliverStep(p))

FairSpec == Spec /\ Fairness

----------------------------------------------------------------------------
(* Properties *)

Hook == [status : {"new", "live", "removed"}, disabled : BOOLEAN,
         consecutiveFails : 0 .. MaxFails]
Job == [state : {"none", "wait", "active", "delayed", "failed", "done"},
        hook : Hooks \cup {"none"}, made : Nat, stalls : Nat]
Handler == [pc : {"idle", "lookup", "post", "log", "record"}, job : JobIds \cup {0},
            fails : 0 .. MaxFails - 1, ok : BOOLEAN]

TypeOK ==
    /\ hooks \in [Hooks -> Hook] /\ log \in [Hooks -> Seq(BOOLEAN)]
    /\ jobs \in [JobIds -> Job] /\ up \subseteq Processes
    /\ fanout \in [Processes -> SUBSET Hooks] /\ handler \in [Processes -> Handler]
    /\ accepted \subseteq JobIds
    /\ posts \in [JobIds -> Nat] /\ retried \in [JobIds -> 0 .. MaxRetries]
    /\ losses \in 0 .. MaxLosses /\ blurred \subseteq Hooks

Recording(w) == \E p \in Processes : handler[p].pc = "record" /\ HookOf(p) = w

FailsInARow(rows) ==
    Cardinality({i \in 1 .. Len(rows) : \A k \in i .. Len(rows) : ~rows[k]})

(* ARCHITECTURE.md: "after WEBHOOK_MAX_CONSECUTIVE_FAILS consecutive         *)
(* failures a webhook is automatically disabled".  The counter is the number *)
(* of failed rows at the end of the webhook's delivery log, and the webhook  *)
(* is disabled exactly when that number has reached the limit, for any       *)
(* number of workers and whatever is lost before a row is written.  It stops *)
(* at two deliveries of one webhook that overlap (the counter is read before *)
(* the POST and written after it) and at one cut off between row and count.  *)
CountsConsecutive ==
    \A w \in Hooks :
        Live(w) /\ ~Recording(w) /\ w \notin blurred =>
            /\ hooks[w].consecutiveFails = FailsInARow(log[w])
            /\ hooks[w].disabled <=> FailsInARow(log[w]) >= MaxFails

(* A job becomes done only if its endpoint took the payload, or if its       *)
(* webhook is gone or disabled at that moment: a delivery that failed is     *)
(* never taken for a success, whatever crash, retry or removal came between  *)
(* and whatever the workers of other processes do to the webhook.            *)
DoneIsDelivered ==
    [][\A j \in JobIds :
          jobs[j].state # "done" /\ jobs'[j].state = "done" =>
              j \in accepted \/ ~Live(jobs[j].hook) \/ hooks[jobs[j].hook].disabled]_vars

(* An endpoint is asked at most once per attempt, per retry by its owner and *)
(* per handler that died: the attempts of a job are never more than allowed. *)
PostsBounded ==
    \A j \in JobIds : posts[j] <= Attempts + retried[j] + jobs[j].stalls
        + (IF jobs[j].state = "active" /\ \A p \in Processes : handler[p].job # j
           THEN 1 ELSE 0)

(* "Every delivery attempt (success or failure) is recorded in               *)
(* WebhookDelivery": the log of a webhook has a row for every POST that a    *)
(* worker is done with, less at most one for each call or process lost, and  *)
(* never a row more, however a delivery is interrupted and made again.       *)
EveryPostLogged ==
    \A w \in Hooks :
        LET due == MapThenSumSet(LAMBDA j : posts[j], {j \in JobIds : jobs[j].hook = w})
                     - Cardinality({p \in Processes : handler[p].pc = "log" /\ HookOf(p) = w})
        IN  Live(w) => Len(log[w]) <= due /\ due <= Len(log[w]) + losses

(* Every job that was queued ends done or failed. *)
EveryDeliverySettles ==
    \A j \in JobIds : jobs[j].state \in {"wait", "active", "delayed"}
                        ~> jobs[j].state \in {"done", "failed"}

(* The delivery log holds every POST, and the counter and the switch of a    *)
(* webhook are what its log says.                                          *)
LogAgrees == TypeOK /\ EveryPostLogged /\ CountsConsecutive
=============================================================================
