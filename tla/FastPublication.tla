-------------------------- MODULE FastPublication --------------------------
(***************************************************************************)
(* The publisher of fast receipts beside the worker of FastReceipts: it    *)
(* captures the pending receipts and the local head, observes the remote,  *)
(* settles the jobs earlier publishers left, admits a durable job for its  *)
(* candidate, pushes it under an exact lease on the observed remote and    *)
(* records only what it then observes.                                     *)
(*                                                                         *)
(* Commands of the worker and of other clones run between any two of its   *)
(* steps.  A push may fail, or land after its publisher gave up on it.     *)
(***************************************************************************)
EXTENDS FastReceipts

VARIABLES
    jobs,        \* rows of publication_jobs
    publisher,   \* the process that holds the publication lock
    inflight     \* a push that outlived its publisher

pubVars == <<jobs, publisher, inflight>>
vars == <<fastVars, pubVars>>

Idle == [pc |-> "idle", pending |-> {}, head |-> 0, seen |-> 0, job |-> 0]

\* The receipts' shapes, and those of the jobs and of the publisher.
TypeOK ==
    /\ FastTypeOK
    /\ jobs \in Seq([candidate : DOMAIN commits, expected : DOMAIN commits,
                     phase : {"queued", "publishing", "published", "rejected", "ambiguous"},
                     live : BOOLEAN, code : STRING])
    /\ publisher.pc \in {"idle", "observe", "recover", "admit", "claim", "push",
                         "confirm", "timedout", "finish"}
    /\ publisher.pending \subseteq DOMAIN intents

Init ==
    /\ FastInit
    /\ jobs = <<>> /\ publisher = Idle /\ inflight = None

Step(pc) == publisher.pc = pc
\* What no step of the publisher touches.
world == <<clientVars, worker, commits, local, kept, orphan>>

-----------------------------------------------------------------------------
(* publication_jobs.                                                       *)

\* The phase a fresh observation of the remote gives a job that is no
\* longer being pushed: recover_publication.
Recovered(job, seen) ==
    IF seen = job.candidate THEN [job EXCEPT !.phase = "published", !.live = FALSE]
    ELSE IF seen = job.expected THEN [job EXCEPT !.phase = "queued", !.live = FALSE]
    ELSE [job EXCEPT !.phase = "rejected", !.live = FALSE, !.code = "REMOTE_BASE_CHANGED"]

\* resolve_superseded_publication.
Superseded(job, seen) ==
    IF seen = job.candidate THEN [job EXCEPT !.phase = "published"]
    ELSE [job EXCEPT !.phase = "rejected",
                     !.code = IF seen = job.expected THEN "LOCAL_HEAD_SUPERSEDED"
                              ELSE "REMOTE_BASE_CHANGED"]

\* recoverable_publications: a lease that has not expired protects its job.
Recoverable ==
    {j \in DOMAIN jobs :
        \/ jobs[j].phase \in {"queued", "ambiguous"}
        \/ jobs[j].phase = "publishing" /\ ~ jobs[j].live}

\* The publisher lease of a job runs out.
LeaseExpires(j) ==
    /\ jobs[j].live
    /\ jobs' = [jobs EXCEPT ![j].live = FALSE]
    /\ UNCHANGED <<fastVars, publisher, inflight>>

-----------------------------------------------------------------------------
(* publish_pending, one observation or transaction per step.               *)

Pending == {i \in DOMAIN intents : intents[i].phase = "completed-local"}

\* pending_publication and the local head.  Of the polls of serve_publication
\* that find nothing to do none is modelled, so a publisher that waits and one
\* that is not running are the same.
Select ==
    /\ Step("idle") /\ (Pending # {} \/ Recoverable # {})
    /\ publisher' = [publisher EXCEPT !.pc = "observe", !.head = local, !.pending = Pending]
    /\ UNCHANGED <<fastVars, jobs, inflight>>

\* record_publication_failure for each receipt of the batch.
Failures(code) ==
    intents' = [i \in DOMAIN intents |->
                  IF i \in publisher.pending /\ intents[i].phase = "completed-local"
                  THEN [intents[i] EXCEPT !.failure = code] ELSE intents[i]]

\* _observe_remote_main answers.
Observe ==
    /\ Step("observe")
    /\ publisher' = [publisher EXCEPT !.pc = "recover", !.seen = remote]
    /\ UNCHANGED <<fastVars, jobs, inflight>>

ObserveUnknown ==
    /\ Step("observe") /\ Fault
    /\ Failures("REMOTE_UNKNOWN")
    /\ publisher' = Idle
    /\ UNCHANGED <<world, remote, jobs, inflight>>

\* _recover_outstanding_publications: every job an earlier publisher left is
\* settled from the observation; only the local head's may stay queued.
Sweep ==
    /\ Step("recover")
    /\ jobs' = [j \in DOMAIN jobs |->
          LET job == jobs[j] IN
          IF j \notin Recoverable THEN job
          ELSE IF job.phase # "queued" THEN Recovered(job, publisher.seen)
          ELSE IF job.candidate = publisher.head THEN job
          ELSE Superseded(job, publisher.seen)]
    /\ publisher' = [publisher EXCEPT !.pc = "admit"]
    /\ UNCHANGED <<fastVars, inflight>>

NeedsPush ==
    /\ \E i \in publisher.pending :
          /\ IsAncestor(intents[i].oid, publisher.head)
          /\ ~ IsAncestor(intents[i].oid, publisher.seen)
    /\ IsAncestor(publisher.seen, publisher.head)

JobsFor(candidate) == {j \in DOMAIN jobs : jobs[j].candidate = candidate}

\* _publish_if_needed without a push: nothing to publish, or no fast forward.
NothingToPush ==
    /\ Step("admit") /\ ~ NeedsPush
    /\ publisher' = [publisher EXCEPT !.pc = "finish"]
    /\ UNCHANGED <<fastVars, jobs, inflight>>

\* admit_publication of a new candidate.
AdmitNew ==
    /\ Step("admit") /\ NeedsPush /\ JobsFor(publisher.head) = {}
    /\ jobs' = Append(jobs, [candidate |-> publisher.head, expected |-> publisher.seen,
                             phase |-> "queued", live |-> FALSE, code |-> ""])
    /\ publisher' = [publisher EXCEPT !.pc = "claim", !.job = Len(jobs) + 1]
    /\ UNCHANGED <<fastVars, inflight>>

\* admit_publication of a candidate that has a job, and its recovery.
AdmitKnown ==
    /\ Step("admit") /\ NeedsPush
    /\ \E j \in JobsFor(publisher.head) :
       /\ jobs[j].expected = publisher.seen
       /\ LET job == IF jobs[j].phase = "ambiguous"
                        \/ (jobs[j].phase = "publishing" /\ ~ jobs[j].live)
                     THEN Recovered(jobs[j], publisher.seen) ELSE jobs[j]
          IN
          /\ jobs' = [jobs EXCEPT ![j] = job]
          /\ publisher' = IF job.phase = "queued"
                          THEN [publisher EXCEPT !.pc = "claim", !.job = j]
                          ELSE [publisher EXCEPT !.pc = "finish"]
    /\ UNCHANGED <<fastVars, inflight>>

\* The candidate binds another remote base: the conflict ends the publisher.
AdmitConflict ==
    /\ Step("admit") /\ NeedsPush
    /\ \E j \in JobsFor(publisher.head) : jobs[j].expected # publisher.seen
    /\ publisher' = Idle
    /\ UNCHANGED <<fastVars, jobs, inflight>>

\* claim_publication.
Claim ==
    /\ Step("claim")
    /\ LET job == jobs[publisher.job] IN
       IF job.phase = "queued"
       THEN /\ jobs' = [jobs EXCEPT ![publisher.job] =
                          [job EXCEPT !.phase = "publishing", !.live = TRUE, !.code = ""]]
            /\ publisher' = [publisher EXCEPT !.pc = "push"]
       ELSE /\ publisher' = [publisher EXCEPT !.pc = "finish"]
            /\ UNCHANGED jobs
    /\ UNCHANGED <<fastVars, inflight>>

\* git push --force-with-lease: the remote moves only from the observed head.
PushRef(candidate, expected) ==
    remote' = IF remote = expected THEN candidate ELSE remote

Push ==
    /\ Step("push")
    /\ PushRef(publisher.head, publisher.seen)
    /\ publisher' = [publisher EXCEPT !.pc = "confirm"]
    /\ UNCHANGED <<world, intents, faults, jobs, inflight>>

\* The push fails and nothing reaches the remote.
PushFails ==
    /\ Step("push") /\ Fault
    /\ publisher' = [publisher EXCEPT !.pc = "confirm"]
    /\ UNCHANGED <<world, intents, remote, jobs, inflight>>

\* The push times out; its process may still reach the remote later.
PushTimesOut ==
    /\ Step("push") /\ Fault
    /\ inflight' = [candidate |-> publisher.head, expected |-> publisher.seen]
    /\ publisher' = [publisher EXCEPT !.pc = "timedout"]
    /\ UNCHANGED <<world, intents, remote, jobs>>

PushLandsLate ==
    /\ inflight # None
    /\ PushRef(inflight.candidate, inflight.expected)
    /\ inflight' = None
    /\ UNCHANGED <<world, intents, faults, jobs, publisher>>

\* finish_publication: an expired lease raises and ends the publisher.
FinishJob(phase, code, then) ==
    LET job == jobs[publisher.job] IN
    IF job.live
    THEN /\ jobs' = [jobs EXCEPT ![publisher.job] =
                       [job EXCEPT !.phase = phase, !.code = code, !.live = FALSE]]
         /\ publisher' = then
    ELSE publisher' = Idle /\ UNCHANGED jobs

\* _record_admitted_push_observation with a known remote head, then either
\* the receipts or the timeout's failures.
Observation ==
    IF remote = publisher.head THEN <<"published", "">>
    ELSE <<"rejected", IF IsAncestor(publisher.head, remote) THEN "REMOTE_ADVANCED"
                       ELSE "REMOTE_CHANGED">>

Confirm ==
    /\ Step("confirm")
    /\ FinishJob(Observation[1], Observation[2],
                 [publisher EXCEPT !.pc = "finish", !.seen = remote])
    /\ UNCHANGED <<fastVars, inflight>>

ConfirmUnknown ==
    /\ Step("confirm") /\ Fault
    /\ FinishJob("ambiguous", "REMOTE_UNKNOWN", Idle)
    /\ IF jobs[publisher.job].live THEN Failures("REMOTE_UNKNOWN") ELSE UNCHANGED intents
    /\ UNCHANGED <<world, remote, inflight>>

\* publish_pending absorbs the timeout of the push; the job keeps what the
\* observation after it shows.
TimeoutRecorded(phase, code) ==
    /\ Step("timedout")
    /\ FinishJob(phase, code, Idle)
    /\ IF jobs[publisher.job].live THEN Failures("PUBLICATION_TIMEOUT") ELSE UNCHANGED intents
    /\ UNCHANGED <<world, remote, inflight>>

TimedOut ==
    \/ TimeoutRecorded(Observation[1], Observation[2]) /\ UNCHANGED faults
    \/ TimeoutRecorded("ambiguous", "PUSH_UNKNOWN") /\ UNCHANGED faults

\* _finish_publications, one receipt at a time.
Contained_Local(i) == IsAncestor(intents[i].oid, publisher.head)
Contained(i) == IsAncestor(intents[i].oid, publisher.seen)

FinishReceipt ==
    /\ Step("finish")
    /\ \E i \in publisher.pending :
       /\ intents' = [intents EXCEPT ![i] =
             IF ~ IsAncestor(@.oid, publisher.head)
             THEN [@ EXCEPT !.failure = "LOCAL_BRANCH_MOVED"]
             ELSE IF Contained(i)
             THEN [@ EXCEPT !.phase = "published-remote", !.failure = "",
                            !.remoteOid = publisher.seen]
             ELSE [@ EXCEPT !.failure = "REMOTE_NOT_CONTAINING_COMMIT"]]
       /\ publisher' = [publisher EXCEPT !.pending = @ \ {i}]
    /\ UNCHANGED <<world, remote, faults, jobs, inflight>>

FinishDone ==
    /\ Step("finish") /\ publisher.pending = {}
    /\ publisher' = Idle
    /\ UNCHANGED <<fastVars, jobs, inflight>>

\* The publisher is killed; a push it was running may still land.
CrashPublisher ==
    /\ ~ Step("idle") /\ Fault
    /\ publisher' = Idle
    /\ inflight' = IF Step("push")
                   THEN [candidate |-> publisher.head, expected |-> publisher.seen]
                   ELSE inflight
    /\ UNCHANGED <<world, intents, remote, jobs>>

PublisherStep ==
    \/ Select \/ Observe \/ Sweep
    \/ NothingToPush \/ AdmitNew \/ AdmitKnown \/ AdmitConflict \/ Claim \/ Push
    \/ Confirm \/ TimedOut \/ FinishReceipt \/ FinishDone

Next ==
    \/ FastNext /\ UNCHANGED pubVars
    \/ PublisherStep
    \/ ObserveUnknown \/ PushFails \/ PushTimesOut \/ PushLandsLate
    \/ ConfirmUnknown \/ CrashPublisher
    \/ \E j \in DOMAIN jobs : LeaseExpires(j)

\* The service polls, and whoever runs it starts it again after a crash; the
\* writer thread and the clients' fallback go on by themselves.
Fairness ==
    /\ \A w \in Workers : WF_vars(WorkerStep(w) /\ UNCHANGED pubVars)
    /\ WF_vars(WriterStep /\ UNCHANGED pubVars)
    /\ \A c \in Clients : WF_vars(DirectStep(c) /\ UNCHANGED pubVars)

Spec == Init /\ [][Next]_vars /\ Fairness

-----------------------------------------------------------------------------
(* Properties.                                                             *)

\* published-remote is said only of a commit the remote contains, and a job
\* is published only when its candidate reached the remote.
PublishedIsOnRemote ==
    /\ \A i \in DOMAIN intents :
          intents[i].phase = "published-remote" => IsAncestor(intents[i].oid, remote)
    /\ \A j \in DOMAIN jobs :
          jobs[j].phase = "published" => IsAncestor(jobs[j].candidate, remote)

Settled(c) ==
    \/ clients[c].pc = "refused"
    \/ /\ clients[c].pc = "acked"
       /\ \E i \in RowsOf(clients[c].key) : intents[i].phase \notin {"queued-local", "running"}

\* Every request gets an answer and every accepted intent an outcome: a crash,
\* a timeout or a lost answer leaves none queued or running for ever.
IntentsSettle == \A c \in Clients : (clients[c].pc # "idle") ~> Settled(c)
=============================================================================
