----------------------------- MODULE SubjectData -----------------------------
\* Everything PostgreSQL keeps about a subject: the components that write it,
\* and the two operations that reach across them, the deletion and the export
\* of a subject's data (privacy/*, infrastructure/privacy_repository.py). Every
\* transaction of a subject holds its advisory lock, so each is one step here.
EXTENDS Entitlements, JobAcceptance, Leaderboard

VARIABLE forgotten \* history: deleted subjects nothing was written for since

subjectVars == <<now, forgotten, billingVars, acceptanceVars, boardVars>>

\* SqlAlchemyPrivacyRepository.load and DataExporter.export.
Export(s) ==
  [entitlements |-> {k \in DOMAIN entitlements : k[1] = s},
   jobs |-> {j \in DOMAIN jobs : jobs[j].owner = s},
   billing_events |-> {e \in DOMAIN events : events[e].subject = s}]

\* delete_subject: entitlements, contributions and jobs are deleted (the keys go
\* with their jobs), the store events lose what ties them to the subject.
DeleteSubject(s) ==
  /\ entitlements' = Restrict(entitlements, DOMAIN entitlements \ Export(s).entitlements)
  /\ contributions' = Restrict(contributions, {k \in DOMAIN contributions : k[2] # s})
  /\ RemoveJobs(Export(s).jobs)
  /\ events' = [e \in DOMAIN events |->
       IF events[e].subject = s THEN [events[e] EXCEPT !.subject = Forgotten] ELSE events[e]]
  /\ forgotten' = forgotten \union {s}
  /\ accepted' = {a \in accepted : Owner(a.slot) # s}
  /\ UNCHANGED <<now, subscription, request, images, call, pass, ids, standing>>

\* Time passes; Redis drops the images that outlived their time.
Tick ==
  /\ now < MaxTime
  /\ now' = now + 1
  /\ images' = Restrict(images, {i \in DOMAIN images : images[i] > now'})
  /\ UNCHANGED <<forgotten, billingVars, jobs, keys, call, accepted, pass, ids, boardVars>>

\* Subjects that own a row no row of the state before matches.
Writers ==
  {s \in Subjects :
     \/ \E k \in DOMAIN entitlements' : k[1] = s /\ k \notin DOMAIN entitlements
     \/ \E j \in DOMAIN jobs' : jobs'[j].owner = s /\ j \notin DOMAIN jobs
     \/ \E k \in DOMAIN contributions' : k[2] = s /\ k \notin DOMAIN contributions
     \/ \E e \in DOMAIN events' : events'[e].subject = s /\ e \notin DOMAIN events}

Billing == BillingNext /\ UNCHANGED <<acceptanceVars, boardVars>>
Accepting == AcceptanceNext /\ UNCHANGED <<billingVars, boardVars>>
Comparing == BoardNext /\ UNCHANGED <<billingVars, acceptanceVars>>

Written == forgotten' = forgotten \ Writers /\ UNCHANGED now

Serving == (Billing \/ Accepting \/ Comparing) /\ Written

SubjectInit == now = 1 /\ forgotten = {} /\ BillingInit /\ AcceptanceInit /\ BoardInit

SubjectNext == Serving \/ Tick \/ \E s \in Subjects : DeleteSubject(s)

SubjectSpec == SubjectInit /\ [][SubjectNext]_subjectVars

-----------------------------------------------------------------------------
\* Types of everything kept per subject (infrastructure/tables.py).
SubjectTypeOK ==
  /\ now \in 1 .. MaxTime /\ forgotten \subseteq Subjects
  /\ BillingTypeOK /\ AcceptanceTypeOK /\ BoardTypeOK

\* After a deletion and until a request of the subject writes again (one under
\* way at the deletion may), no table holds a row that leads to it: nothing to
\* export, no key, no contribution; no purge and no request of another subject
\* brings one back.
DeletedLeavesNothing ==
  \A s \in forgotten :
    /\ \A part \in DOMAIN Export(s) : Export(s)[part] = {}
    /\ \A k \in DOMAIN keys : Owner(k) # s
    /\ \A k \in DOMAIN contributions : k[2] # s
=============================================================================
