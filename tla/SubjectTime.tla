----------------------------- MODULE SubjectTime -----------------------------
\* The clock and the subjects shared by the modules about data that is kept in
\* PostgreSQL per subject: entitlements, jobs and their idempotency keys, and
\* contributions to the leaderboard.
EXTENDS Tables, Naturals

CONSTANTS
  Subjects,  \* owners of a session, named by the hash of their identifier
  MaxTime    \* bound: the last reading of the clock

ASSUME TimeAssumption == MaxTime \in Nat \ {0}

VARIABLE now \* the reading of the clock that every service is given

\* Stands for the owner of a row that can no longer be tied to a subject.
Forgotten == "forgotten"
ASSUME ForgottenAssumption == Forgotten \notin Subjects
=============================================================================
