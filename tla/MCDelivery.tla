----------------------------- MODULE MCDelivery -----------------------------
(***************************************************************************)
(* The three links an event passes on its way through the back end, with    *)
(* the failures each of them lives with, checked in one run: the poller     *)
(* that hands effects to the queues, the checkpoint it restarts from, and   *)
(* the webhooks that tell the owners.  They share no variable; a behaviour  *)
(* exercises the one that `link` names.                                     *)
(***************************************************************************)
EXTENDS LedgerCursor, HorizonPoller, Webhooks

CONSTANTS Links, p1, p2

VARIABLE link

(* Two concurrent callers of the checkpoint over three ledgers. *)
Callers == {p1, p2}
Ledgers == 1..3

(* A factory that creates two pools, in one ledger and in the next, and the  *)
(* events of those pools, some in the ledger their pool was created in.      *)
MCRoots == {"factory"}
MCAccounts == {"factory", "pool1", "pool2"}

LOCAL E(ledger, place, queue, creates, priced) ==
    [ledger |-> ledger, place |-> place, queue |-> queue, creates |-> creates,
     priced |-> priced, complete |-> TRUE]

MCChain ==
    [a \in MCAccounts |->
        CASE a = "factory" -> <<E(1, 0, "pool.created", "pool1", FALSE),
                                E(2, 0, "pool.created", "pool2", TRUE)>>
          [] a = "pool1" -> <<E(1, 1, "position.minted", "none", FALSE),
                              E(2, 1, "swap.processed", "none", TRUE),
                              E(2, 2, "fees.collected", "none", FALSE)>>
          [] a = "pool2" -> <<E(2, 3, "swap.processed", "none", FALSE)>>]

(* Two webhooks: one for both event types, one for a single one. *)
MCHooks == {"w1", "w2"}
MCEvents == {"pool.created", "swap.large"}
MCSubscribed == [w \in MCHooks |-> IF w = "w1" THEN MCEvents ELSE {"swap.large"}]
MCProcesses == {"api1", "api2"}

----------------------------------------------------------------------------

linkVars == <<link, ledgerVars, pollerVars, vars>>

DeliveryInit == link \in Links /\ CursorInit /\ PollerInit /\ Init

AtCursor(A) == link = "cursor" /\ A /\ UNCHANGED <<link, pollerVars, vars>>
AtPoller(A) == link = "poller" /\ A /\ UNCHANGED <<link, ledgerVars, vars>>

(* The webhooks, of which the second may be removed, served by one of the    *)
(* processes; and one webhook served by both, while neither dies.            *)
OneProcess == /\ handler'["api2"] = Idle /\ fanout'["api2"] = {} /\ "api2" \in up'
              /\ hooks'["w1"].status # "removed"
OneWebhook == /\ hooks'["w1"].status = "new"
              /\ up' = Processes /\ retried' = [j \in JobIds |-> 0]
AtHooks(A) == /\ A
              /\ \/ link = "hooks" /\ OneProcess
                 \/ link = "replicas" /\ OneWebhook
              /\ UNCHANGED <<link, ledgerVars, pollerVars>>

DeliveryNext == AtCursor(CursorNext) \/ AtPoller(PollerNext) \/ AtHooks(Next)

(* PollerFairness and Fairness, each for its own link. *)
DeliveryFairness ==
    /\ WF_linkVars(AtPoller(Start)) /\ WF_linkVars(AtPoller(mode = "stopping" /\ Exit))
    /\ WF_linkVars(AtPoller(Poll)) /\ WF_linkVars(AtPoller(AttemptDue))
    /\ WF_linkVars(AtPoller(Fetch)) /\ WF_linkVars(AtPoller(LookAtRecord))
    /\ WF_linkVars(AtPoller(Enqueue))
    /\ WF_linkVars(AtHooks(BackoffOver)) /\ WF_linkVars(AtHooks(Stalled))
    /\ \A p \in Processes : /\ WF_linkVars(AtHooks(Restart(p)))
                            /\ WF_linkVars(AtHooks(Take(p)))
                            /\ WF_linkVars(AtHooks(DeliverStep(p)))

DeliverySpec == DeliveryInit /\ [][DeliveryNext]_linkVars /\ DeliveryFairness
=============================================================================
