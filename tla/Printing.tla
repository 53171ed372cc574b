------------------------------ MODULE Printing ------------------------------
(***************************************************************************)
(* Print jobs: printing.service.ts, the edge print agent (print-agent.js)  *)
(* and the browser print station (dashboard/lib/print/station.ts).  One    *)
(* printer; the agents that can reach it claim jobs, print them and report *)
(* back.  A station prints through the agent on its machine or in the      *)
(* browser, and in the browser when that agent fails it.  What the system  *)
(* knows of paper is that bytes or a page were handed to a spooler, a      *)
(* socket or a print dialog; whether paper comes nobody asks.              *)
(***************************************************************************)
EXTENDS Naturals, FiniteSets

CONSTANTS
    Tickets,     \* jobs of order events, each under a sourceKey of its own
    Asked,       \* jobs somebody asks for: reprints, bills, tests, drawer kicks
    Kicks,       \* the drawer kicks among them, which no browser can do
    Agents,      \* edge agents and browser stations
    Stations,    \* the browser stations among them
    Clicks,      \* concurrent requests to retry a job
    MaxJobs,     \* bound on the jobs made
    MaxHandling  \* bound on how often one job is claimed

ASSUME PrintingAssumption ==
    /\ Tickets \cap Asked = {} /\ Kicks \subseteq Asked /\ Stations \subseteq Agents
    /\ {MaxJobs, MaxHandling} \subseteq Nat \ {0}

PrintJobs == Tickets \cup Asked

VARIABLES
    printer,    \* active, disabled or gone
    notice,     \* events whose handler has found the printer
    print,      \* print_jobs: status, claimedBy, claimedAt (as a claim number), whether that
                \* claim is stale, and whether the job was made too long ago
    agent,      \* the jobs an agent has claimed and the one it is at
    late,       \* sends nobody waits for any more that a local agent is still at
    click,      \* jobs a retry request has found failed or cancelled
    jobClaims, spooled,        \* history: claims of a job, and how often it was handed to a printer
    staled, retried, fellBack  \* history: claims presumed lost, retries, and prints after a failed send

printVars == <<printer, notice, print, agent, late, click, jobClaims, spooled, staled, retried, fellBack>>

NoJob == [status |-> "none", by |-> "none", claim |-> 0, stale |-> FALSE, old |-> FALSE]
AgentIdle == [todo |-> {}, at |-> "idle", on |-> "none", claim |-> 0]

AgentAts == {"idle", "sending", "unsent", "printing", "ok", "error", "okRead", "errorRead"}

PrintTypeOK ==
    /\ printer \in {"active", "disabled", "gone"}
    /\ notice \subseteq Tickets
    /\ print \in [PrintJobs -> [status : {"none", "QUEUED", "PRINTING", "PRINTED", "FAILED", "CANCELLED"},
                                by : Agents \cup {"none"}, claim : Nat, stale : BOOLEAN, old : BOOLEAN]]
    /\ agent \in [Agents -> [todo : SUBSET PrintJobs, at : AgentAts, on : PrintJobs \cup {"none"}, claim : Nat]]
    /\ late \in [PrintJobs -> Nat]
    /\ click \in [Clicks -> PrintJobs \cup {"none"}]

PrintInit ==
    /\ printer = "active" /\ notice = {}
    /\ print = [j \in PrintJobs |-> NoJob]
    /\ agent = [a \in Agents |-> AgentIdle]
    /\ click = [c \in Clicks |-> "none"]
    /\ late = [j \in PrintJobs |-> 0]
    /\ jobClaims = [j \in PrintJobs |-> 0] /\ spooled = [j \in PrintJobs |-> 0]
    /\ staled = [j \in PrintJobs |-> 0] /\ retried = [j \in PrintJobs |-> 0]
    /\ fellBack = [j \in PrintJobs |-> 0]

----------------------------------------------------------------------------
(* Printers and the jobs made for them. *)

UpdatePrinter ==
    /\ printer # "gone"
    /\ printer' = IF printer = "active" THEN "disabled" ELSE "active"
    /\ UNCHANGED <<notice, print, agent, late, click, jobClaims, spooled, staled, retried, fellBack>>

DeletePrinter ==
    /\ printer # "gone" /\ printer' = "gone"
    /\ print' = [j \in PrintJobs |-> IF print[j].status \in {"QUEUED", "PRINTING"}
                    THEN [print[j] EXCEPT !.status = "CANCELLED"] ELSE print[j]]
    /\ UNCHANGED <<notice, agent, late, click, jobClaims, spooled, staled, retried, fellBack>>

JobsLeft == Cardinality({j \in PrintJobs : print[j].status # "none"}) < MaxJobs
NewJob(j) == print' = [print EXCEPT ![j] = [NoJob EXCEPT !.status = "QUEUED"]]

\* onOrderEvent looks for an active printer; an event may come twice
OnOrderEvent(j) ==
    /\ printer = "active" /\ j \notin notice
    /\ notice' = notice \cup {j}
    /\ UNCHANGED <<printer, print, agent, late, click, jobClaims, spooled, staled, retried, fellBack>>

\* enqueue: a second insert under the same sourceKey is skipped
EnqueueTicket(j) ==
    /\ j \in notice
    /\ notice' = notice \ {j}
    /\ IF print[j].status = "none" /\ printer # "gone" THEN NewJob(j) ELSE UNCHANGED print
    /\ UNCHANGED <<printer, agent, late, click, jobClaims, spooled, staled, retried, fellBack>>

\* printKot, printBill, testPrint, kickDrawer and reprint
AskForPrint(j) ==
    /\ printer # "gone" /\ print[j].status = "none" /\ NewJob(j)
    /\ UNCHANGED <<printer, notice, agent, late, click, jobClaims, spooled, staled, retried, fellBack>>

----------------------------------------------------------------------------
(* Claiming, printing and reporting. *)

\* variant: a job another agent is printing is offered at once
ClaimableAlways(j) == print[j].status \in {"QUEUED", "PRINTING"} /\ ~print[j].old

\* retrying does not make an old job young: its createdAt stays
Claimable(j) ==
    /\ ~print[j].old
    /\ print[j].status = "QUEUED" \/ (print[j].status = "PRINTING" /\ print[j].stale)

\* which of them is up to the filters and the limit the agent sends
ClaimJobs(a) ==
    \E J \in SUBSET {j \in PrintJobs : Claimable(j) /\ jobClaims[j] < MaxHandling} \ {{}} :
        /\ agent[a] = AgentIdle /\ printer = "active"
        /\ print' = [j \in PrintJobs |-> IF j \in J
                        THEN [status |-> "PRINTING", by |-> a, claim |-> jobClaims[j] + 1, stale |-> FALSE, old |-> FALSE]
                        ELSE print[j]]
        /\ agent' = [agent EXCEPT ![a].todo = J]
        /\ jobClaims' = [j \in PrintJobs |-> IF j \in J THEN jobClaims[j] + 1 ELSE jobClaims[j]]
        /\ UNCHANGED <<printer, notice, late, click, spooled, staled, retried, fellBack>>

\* STALE_CLAIM_SECONDS after a claim ...
ClaimGoesStale(j) ==
    /\ print[j].status = "PRINTING" /\ ~print[j].stale
    /\ print' = [print EXCEPT ![j].stale = TRUE]
    /\ staled' = [staled EXCEPT ![j] = @ + 1]
    /\ UNCHANGED <<printer, notice, agent, late, click, jobClaims, spooled, retried, fellBack>>

\* ... and MAX_JOB_AGE_HOURS after the job was made
JobAges(j) ==
    /\ print[j].status # "none" /\ ~print[j].old
    /\ print' = [print EXCEPT ![j].old = TRUE]
    /\ UNCHANGED <<printer, notice, agent, late, click, jobClaims, spooled, staled, retried, fellBack>>

\* a station sends to the agent on its machine, if it has one and the printer is not
\* the browser's own
StartPrint(a, j) ==
    /\ agent[a].at = "idle" /\ j \in agent[a].todo
    /\ \E at \in IF a \in Stations THEN {"sending", "printing"} ELSE {"printing"} :
          agent' = [agent EXCEPT ![a].todo = @ \ {j}, ![a].at = at, ![a].on = j]
    /\ UNCHANGED <<printer, notice, print, late, click, jobClaims, spooled, staled, retried, fellBack>>

Hands(j, out) == spooled' = [spooled EXCEPT ![j] = IF out THEN @ + 1 ELSE @]

\* variant: a connection that breaks is taken for the end of the transfer
AnswersSwallowed(out) == {"ok", "error"}

\* the end of the transfer, or an error, which may come after the last byte
Answers(out) == IF out THEN {"ok", "error"} ELSE {"error"}

\* in the browser print() is called and counts as printed, whatever becomes of the
\* dialog; a drawer it cannot kick
BrowserAnswers(j, out) ==
    CASE out /\ j \notin Kicks -> {"ok"}
      [] out /\ j \in Kicks -> {}
      [] OTHER -> {"error"}

PrintOut(a) ==
    LET j == agent[a].on
    IN  /\ agent[a].at = "printing"
        /\ \E out \in BOOLEAN : \E result \in IF a \in Stations THEN BrowserAnswers(j, out) ELSE Answers(out) :
              agent' = [agent EXCEPT ![a].at = result] /\ Hands(j, out)
        /\ UNCHANGED <<printer, notice, print, late, click, jobClaims, staled, retried, fellBack>>

\* sendToAgent: the local agent answers, or has not when the station's patience ends
SendToAgent(a) ==
    LET j == agent[a].on
    IN  /\ agent[a].at = "sending"
        /\ \/ /\ \E out \in BOOLEAN : \E result \in Answers(out) :
                    /\ agent' = [agent EXCEPT ![a].at = IF result = "ok" THEN "ok" ELSE "unsent"]
                    /\ Hands(j, out)
              /\ UNCHANGED late
           \/ /\ agent' = [agent EXCEPT ![a].at = "unsent"]
              /\ late' = [late EXCEPT ![j] = @ + 1]
              /\ UNCHANGED spooled
        /\ UNCHANGED <<printer, notice, print, click, jobClaims, staled, retried, fellBack>>

\* a local agent nobody waits for finishes the transfer
LatePrint(j) ==
    /\ late[j] > 0
    /\ late' = [late EXCEPT ![j] = @ - 1] /\ Hands(j, TRUE)
    /\ UNCHANGED <<printer, notice, print, agent, click, jobClaims, staled, retried, fellBack>>

\* a send that failed falls through to a browser print, but for a drawer kick
FallBack(a) ==
    LET j == agent[a].on
    IN  /\ agent[a].at = "unsent"
        /\ IF j \in Kicks
           THEN agent' = [agent EXCEPT ![a].at = "error"] /\ UNCHANGED fellBack
           ELSE agent' = [agent EXCEPT ![a].at = "printing"] /\ fellBack' = [fellBack EXCEPT ![j] = @ + 1]
        /\ UNCHANGED <<printer, notice, print, late, click, jobClaims, spooled, staled, retried>>

AgentNext(a) == agent' = [agent EXCEPT ![a] = [AgentIdle EXCEPT !.todo = agent[a].todo]]

\* a report that is refused or lost: a station whose ok is not taken reports an error
NotHeard(a) ==
    IF a \in Stations /\ agent[a].at \in {"ok", "okRead"}
    THEN agent' = [agent EXCEPT ![a].at = "error", ![a].claim = 0] ELSE AgentNext(a)

ReportAccepted(a) ==
    LET j == agent[a].on IN print[j].status = "PRINTING" /\ print[j].by = a

\* completeJob reads the job; a report nobody waits for any more is refused
ReadForReport(a) ==
    /\ agent[a].at \in {"ok", "error"}
    /\ IF ReportAccepted(a)
       THEN agent' = [agent EXCEPT ![a].at = IF @ = "ok" THEN "okRead" ELSE "errorRead",
                                   ![a].claim = print[agent[a].on].claim]
       ELSE NotHeard(a)
    /\ UNCHANGED <<printer, notice, print, late, click, jobClaims, spooled, staled, retried, fellBack>>

\* the update's condition: still PRINTING under the claim that was read; its answer
\* may be lost
WriteReport(a) ==
    LET j == agent[a].on
        same == print[j].status = "PRINTING" /\ print[j].claim = agent[a].claim
    IN  /\ agent[a].at \in {"okRead", "errorRead"}
        /\ print' = IF same
                    THEN [print EXCEPT ![j].status = IF agent[a].at = "okRead" THEN "PRINTED" ELSE "FAILED"]
                    ELSE print
        /\ (same /\ AgentNext(a)) \/ NotHeard(a)
        /\ UNCHANGED <<printer, notice, late, click, jobClaims, spooled, staled, retried, fellBack>>

ReportLost(a) ==
    /\ agent[a].at \in {"ok", "error"}
    /\ NotHeard(a)
    /\ UNCHANGED <<printer, notice, print, late, click, jobClaims, spooled, staled, retried, fellBack>>

\* a station that dies does not stop the agent it was sending to
AgentDies(a) ==
    /\ agent[a] # AgentIdle
    /\ agent' = [agent EXCEPT ![a] = AgentIdle]
    /\ IF agent[a].at = "sending" THEN late' = [late EXCEPT ![agent[a].on] = @ + 1] ELSE UNCHANGED late
    /\ UNCHANGED <<printer, notice, print, click, jobClaims, spooled, staled, retried, fellBack>>

----------------------------------------------------------------------------
(* Retrying and cancelling. *)

\* retry checks the status it read, then updates the row whatever it is by then
ReadForRetry(c, j) ==
    /\ click[c] = "none" /\ print[j].status \in {"FAILED", "CANCELLED"} /\ printer # "gone"
    /\ click' = [click EXCEPT ![c] = j]
    /\ UNCHANGED <<printer, notice, print, agent, late, jobClaims, spooled, staled, retried, fellBack>>

RetryJob(c) ==
    LET j == click[c]
    IN  /\ j # "none"
        /\ print' = [print EXCEPT ![j].status = "QUEUED", ![j].by = "none", ![j].claim = 0, ![j].stale = FALSE]
        /\ click' = [click EXCEPT ![c] = "none"]
        /\ retried' = [retried EXCEPT ![j] = @ + 1]
        /\ UNCHANGED <<printer, notice, agent, late, jobClaims, spooled, staled, fellBack>>

CancelJob(j) ==
    /\ print[j].status \in {"QUEUED", "FAILED"}
    /\ print' = [print EXCEPT ![j].status = "CANCELLED"]
    /\ UNCHANGED <<printer, notice, agent, late, click, jobClaims, spooled, staled, retried, fellBack>>

----------------------------------------------------------------------------

PrintNext ==
    \/ UpdatePrinter \/ DeletePrinter
    \/ \E j \in Tickets : OnOrderEvent(j) \/ ((JobsLeft \/ print[j].status # "none") /\ EnqueueTicket(j))
    \/ \E j \in Asked : JobsLeft /\ AskForPrint(j)
    \/ \E j \in PrintJobs : ClaimGoesStale(j) \/ JobAges(j) \/ CancelJob(j) \/ LatePrint(j)
    \/ \E a \in Agents :
          \/ ClaimJobs(a) \/ PrintOut(a) \/ SendToAgent(a) \/ FallBack(a)
          \/ ReadForReport(a) \/ WriteReport(a) \/ ReportLost(a) \/ AgentDies(a)
          \/ \E j \in PrintJobs : StartPrint(a, j)
    \/ \E c \in Clicks : RetryJob(c) \/ \E j \in PrintJobs : retried[j] < MaxHandling /\ ReadForRetry(c, j)

PrintSpec == PrintInit /\ [][PrintNext]_printVars

----------------------------------------------------------------------------
(* Properties. *)

PrintState(j) ==
    CASE print[j].status = "none" -> "absent"
      [] print[j].status \in {"QUEUED", "PRINTING"} -> "open"
      [] print[j].status = "PRINTED" -> "done"
      [] OTHER -> "failed"

PrintQueue == INSTANCE JobQueue WITH
    Jobs <- PrintJobs, state <- [j \in PrintJobs |-> PrintState(j)],
    taken <- [j \in PrintJobs |-> jobClaims[j] + fellBack[j]], handed <- spooled

\* Print jobs are a job queue: one is reported printed only after it was handed to a
\* printer or a print dialog, and that happens no more often than it was claimed or
\* taken on by a browser after a failed send - through lost reports, local agents that
\* answer too late, agents that die, retries, cancellations and a printer that is removed.
PrintingImplementsQueue == PrintQueue!QueueSpec

\* A ticket is printed twice only when a claim was presumed lost, somebody retried the
\* job, or a browser stepped in for a local agent that may have printed it all the
\* same: agents polling the same printer do not share a job.
DuplicatesExplained ==
    \A j \in PrintJobs : spooled[j] <= 1 + staled[j] + retried[j] + fellBack[j]
=============================================================================
