------------------------- MODULE ParticipationProofs -------------------------
(* Proofs about Participation, for any numbers of challenges, agents, rows,    *)
(* calls and revisions, any limits and any policies. ParticipationInv carries  *)
(* the counts a transaction took under its locks to the row it inserts, and a  *)
(* reader's policy check to its answer. RowsStep sums up what a step may do to *)
(* the rows; the parts of the invariant are then kept one by one.              *)
EXTENDS Participation, FiniteSetTheorems, TLAPS

-----------------------------------------------------------------------------
(* The invariant.                                                             *)

SubRecord == [status : {"absent", "pending", "queued", "completed", "failed"},
              agent : AgentIds \cup {None}, challenge : Challenges \cup {None},
              mode : Modes, parent : Submissions \cup {None}, late : BOOLEAN, recent : BOOLEAN,
              active : Modes \cup {None}, official : {"none", "completed", "failed"},
              validated : BOOLEAN, visible : BOOLEAN]
CallRecord == [pc : {"idle", "staged", "begun", "counted"}, agent : AgentIds \cup {None},
               challenge : Challenges \cup {None}, mode : Modes,
               parent : Submissions \cup {None}, late : BOOLEAN]
RevisionRecord == [pc : {"absent", "stored", "ended"}, challenge : Challenges \cup {None},
                   agents : SUBSET UNION Deltas]
OfSubmission == {"detail", "artifact", "ranking"}
Surfaces == OfSubmission \cup {"list", "leaderboard", "distribution"}
ReaderRecord == [pc : {"idle", "loaded", "allowed"}, surface : Surfaces \cup {"none"},
                 challenge : Challenges \cup {None}, sub : Submissions \cup {None}]

ParticipationTypeOK ==
    /\ time \in {"before", "open", "closed"}
    /\ policy \in [Challenges -> Policy]
    /\ archived \subseteq Challenges
    /\ shortlist \in [Challenges -> SUBSET UNION Deltas]
    /\ revision \in [Revisions -> RevisionRecord]
    /\ sub \in [Submissions -> SubRecord]
    /\ creation \in [CreateCalls -> CallRecord]
    /\ reader \in ReaderRecord

Stored == {s \in Submissions : Exists(s)}

\* A deleted row leaves nothing behind, and nothing is public before it is staged.
RowsAreSound ==
    /\ IsFiniteSet(Stored)
    /\ \A s \in Submissions :
           /\ ~Exists(s) => sub[s] = AbsentSub
           /\ Exists(s) => sub[s].agent \in AgentIds /\ sub[s].challenge \in Challenges
           /\ sub[s].visible => sub[s].status \notin {"absent", "pending"}

\* created_at is past the close only if the close is past.
CallsAreSound ==
    \A r \in CreateCalls : creation[r].pc # "idle" =>
        /\ creation[r].agent \in AgentIds /\ creation[r].challenge \in Challenges
        /\ creation[r].late => HasClosed(creation[r].challenge)

ParentInScope(p, a, c) ==
    p # None => sub[p].visible /\ sub[p].agent = a /\ sub[p].challenge = c

\* What a transaction checked still holds while it has the rows it locked.
AdmissionHolds(a, c, m, p) ==
    /\ Published(c)
    /\ policy[c].shortlisted => a \in shortlist[c]
    /\ ParentInScope(p, a, c)
    /\ QuotaAvailable(a, c, m)

CountedAdmissionsHold ==
    \A r \in CreateCalls : creation[r].pc = "counted" =>
        /\ ~creation[r].late
        /\ \A a \in AgentIds, c \in Challenges, m \in Modes, p \in Submissions \cup {None} :
               /\ creation[r].agent = a /\ creation[r].challenge = c
               /\ creation[r].mode = m /\ creation[r].parent = p
               => AdmissionHolds(a, c, m, p)

\* One admission per challenge, and one official admission, is past its counts.
AdmissionsExclude ==
    \A q, r \in CreateCalls :
        /\ creation[q].pc = "counted" /\ creation[r].pc = "counted" /\ q # r
        => /\ creation[q].challenge # creation[r].challenge
           /\ ~(creation[q].mode = "official" /\ creation[r].mode = "official")

\* The policy check a reader has passed still passes, and its row is still public.
ReaderIsWarranted ==
    /\ reader.pc = "loaded" => reader.surface \in OfSubmission
    /\ reader.pc = "allowed" => reader.surface \in Surfaces /\ Gate(reader.surface, reader.challenge)
    /\ reader.pc # "idle" => reader.challenge \in Challenges
    /\ reader.pc # "idle" /\ reader.surface \in OfSubmission =>
           /\ reader.sub \in Submissions /\ sub[reader.sub].visible
           /\ sub[reader.sub].challenge = reader.challenge

ParticipationInv ==
    /\ ParticipationTypeOK
    /\ RowsAreSound
    /\ CallsAreSound
    /\ CountedAdmissionsHold
    /\ AdmissionsExclude
    /\ WithinSubmissionQuota
    /\ AdmittedUnderPolicy
    /\ ReaderIsWarranted

-----------------------------------------------------------------------------
(* Types.                                                                     *)

LEMMA InitHolds == ParticipationInit => ParticipationInv
<1> SUFFICES ASSUME ParticipationInit PROVE ParticipationInv
  OBVIOUS
<1>1. ParticipationTypeOK
  BY PolicyAssumption DEF ParticipationInit, ParticipationTypeOK, AbsentRevision, RevisionRecord,
      AbsentSub, SubRecord, IdleRequest, CallRecord, IdleReader, ReaderRecord, Modes
<1>2. \A s \in Submissions : sub[s] = AbsentSub /\ ~Exists(s)
  BY DEF ParticipationInit, Exists, AbsentSub
<1>3. RowsAreSound
  <2>1. Stored = {}
    BY <1>2 DEF Stored
  <2>2. IsFiniteSet(Stored)
    BY <2>1, FS_EmptySet
  <2>3. AbsentSub.visible = FALSE
    BY DEF AbsentSub
  <2> QED
    BY <1>2, <2>2, <2>3 DEF RowsAreSound
<1>4. \A r \in CreateCalls : creation[r].pc = "idle"
  BY DEF ParticipationInit, IdleRequest
<1>5. CallsAreSound /\ CountedAdmissionsHold /\ AdmissionsExclude
  BY <1>4 DEF CallsAreSound, CountedAdmissionsHold, AdmissionsExclude
<1>6. WithinSubmissionQuota
  <2>1. ActiveOfficial = {}
    BY <1>2 DEF ActiveOfficial
  <2>2. \A a \in AgentIds, c \in Challenges, m \in Modes :
            RecentRuns(a, c, m) = {} /\ LifetimeRuns(a, c, m) = {}
    BY <1>2 DEF RecentRuns, LifetimeRuns, Rows
  <2>3. \A c \in Challenges, m \in Modes : policy[c].limit[m] \in Nat
    BY <1>1 DEF ParticipationTypeOK, Policy
  <2> QED
    BY <2>1, <2>2, <2>3, FS_EmptySet, LimitsAssumption DEF WithinSubmissionQuota
<1>7. AdmittedUnderPolicy
  BY <1>2 DEF AdmittedUnderPolicy
<1>8. ReaderIsWarranted
  BY DEF ParticipationInit, IdleReader, ReaderIsWarranted
<1> QED
  BY <1>1, <1>3, <1>5, <1>6, <1>7, <1>8 DEF ParticipationInv

\* What no step does: change a policy, reopen a challenge, take a name off a
\* shortlist, or publish an archived challenge again.
LEMMA ScheduleFrame ==
    ASSUME ParticipationTypeOK, [ParticipationNext]_participationVars
    PROVE  /\ policy' = policy
           /\ archived \subseteq archived'
           /\ \A c \in Challenges : HasClosed(c) => HasClosed(c)'
           /\ \A c \in Challenges : shortlist[c] \subseteq shortlist'[c]
<1>1. CASE UNCHANGED participationVars
  BY <1>1 DEF participationVars, HasClosed
<1>2. CASE Submit
  BY <1>2 DEF Submit, Preflight, BeginCreate, EnforceAdmission, InsertSubmission, FinishStaging,
      lists, HasClosed
<1>3. CASE Evaluate
  BY <1>3 DEF Evaluate, JobEnds, Rejudge, LeaveWindow, lists, HasClosed
<1>4. CASE Read
  BY <1>4 DEF Read, LoadSubmission, LoadPolicy, EndRead, lists, HasClosed
<1>5. CASE Administer
  <2>1. CASE Tick
    BY <2>1 DEF Tick, lists, HasClosed
  <2>2. CASE \E c \in Challenges : Archive(c)
    BY <2>2 DEF Archive, lists, HasClosed
  <2>3. CASE \E v \in Revisions, c \in Challenges, add \in Deltas : StoreRevision(v, c, add)
    BY <2>3 DEF StoreRevision, HasClosed
  <2>4. CASE \E v \in Revisions, eligible \in BOOLEAN : CommitRevision(v, eligible)
    BY <2>4 DEF CommitRevision, HasClosed, ParticipationTypeOK
  <2> QED
    BY <1>5, <2>1, <2>2, <2>3, <2>4 DEF Administer
<1> QED
  BY <1>1, <1>2, <1>3, <1>4, <1>5 DEF ParticipationNext

\* What the end of a job does to its row.
LEMMA JobEndsRow ==
    ASSUME ParticipationTypeOK, NEW s \in Submissions, NEW ok \in BOOLEAN, JobEnds(s, ok)
    PROVE  /\ sub'[s] \in SubRecord
           /\ sub'[s].status \in {"completed", "failed"} /\ sub'[s].active = None
           /\ sub'[s].agent = sub[s].agent /\ sub'[s].challenge = sub[s].challenge
           /\ sub'[s].mode = sub[s].mode /\ sub'[s].parent = sub[s].parent
           /\ sub'[s].late = sub[s].late /\ sub'[s].recent = sub[s].recent
           /\ sub[s].visible => sub'[s].visible
<1>1. sub[s] \in SubRecord
  BY DEF ParticipationTypeOK
<1>2. PICK x \in {"completed", "failed"}, y \in {"none", "completed", "failed"},
           d \in BOOLEAN, w \in BOOLEAN :
           /\ sub'[s] = [sub[s] EXCEPT !.status = x, !.active = None, !.official = y,
                                       !.validated = d, !.visible = w]
           /\ sub[s].visible => w
  <2>1. sub[s].validated \in BOOLEAN /\ sub[s].visible \in BOOLEAN
    BY <1>1 DEF SubRecord
  <2>2. PICK w \in BOOLEAN : w = (sub[s].visible \/ (sub[s].active = "official" /\ ok))
    BY <2>1
  <2>3. PICK d \in BOOLEAN : d = (sub[s].validated \/ ~(sub[s].active = "official"))
    BY <2>1
  <2>4. PICK x \in {"completed", "failed"} :
            x = IF ok \/ sub[s].visible THEN "completed" ELSE "failed"
    OBVIOUS
  <2>5. PICK y \in {"none", "completed", "failed"} :
            y = IF sub[s].active = "official" THEN (IF ok THEN "completed" ELSE "failed")
                ELSE sub[s].official
    BY <1>1 DEF SubRecord
  <2>6. sub'[s] = [sub[s] EXCEPT !.status = x, !.active = None, !.official = y,
                                 !.validated = d, !.visible = w]
    BY <2>2, <2>3, <2>4, <2>5 DEF JobEnds, ParticipationTypeOK
  <2> QED
    BY <2>1, <2>2, <2>6
<1> QED
  BY ZenonT(40), <1>1, <1>2 DEF SubRecord

LEMMA TypeStep ==
    ASSUME ParticipationTypeOK, [ParticipationNext]_participationVars
    PROVE  ParticipationTypeOK'
<1>1. CASE UNCHANGED participationVars
  BY <1>1 DEF participationVars, ParticipationTypeOK
<1>2. CASE Submit
  <2>1. CASE \E r \in CreateCalls, a \in AgentIds, c \in Challenges, m \in Modes,
                p \in Submissions \cup {None} : Preflight(r, a, c, m, p)
    BY <2>1 DEF Preflight, ParticipationTypeOK, CallRecord, lists
  <2>2. CASE \E r \in CreateCalls : BeginCreate(r)
    <3>1. PICK r \in CreateCalls : BeginCreate(r)
      BY <2>2
    <3>2. creation'[r].late \in BOOLEAN /\ creation'[r] \in CallRecord
      <4>1. HasClosed(creation[r].challenge) \in BOOLEAN
        BY DEF HasClosed
      <4> QED
        BY ZenonT(40), <3>1, <4>1 DEF BeginCreate, ParticipationTypeOK, CallRecord
    <3> QED
      BY <3>1, <3>2 DEF BeginCreate, ParticipationTypeOK, lists
  <2>3. CASE \E r \in CreateCalls : EnforceAdmission(r)
    <3>1. PICK r \in CreateCalls : EnforceAdmission(r)
      BY <2>3
    <3>2. \/ creation' = [creation EXCEPT ![r].pc = "counted"]
          \/ creation' = [creation EXCEPT ![r] = IdleRequest]
      BY <3>1 DEF EnforceAdmission, Answer
    <3>3. IdleRequest \in CallRecord
      BY DEF IdleRequest, CallRecord, Modes
    <3>4. creation' \in [CreateCalls -> CallRecord]
      BY <3>2, <3>3 DEF ParticipationTypeOK, CallRecord
    <3> QED
      BY <3>1, <3>4 DEF EnforceAdmission, ParticipationTypeOK, lists
  <2>4. CASE \E r \in CreateCalls, s \in Submissions : InsertSubmission(r, s)
    <3>1. PICK r \in CreateCalls, s \in Submissions : InsertSubmission(r, s)
      BY <2>4
    <3>2. creation' \in [CreateCalls -> CallRecord]
      BY <3>1 DEF InsertSubmission, Answer, IdleRequest, ParticipationTypeOK, CallRecord, Modes
    <3>3. creation[r] \in CallRecord
      BY DEF ParticipationTypeOK
    <3>4. sub'[s] \in SubRecord
      BY ZenonT(40), <3>1, <3>3 DEF InsertSubmission, AbsentSub, ParticipationTypeOK, CallRecord, SubRecord
    <3>5. sub' \in [Submissions -> SubRecord]
      BY <3>1, <3>4 DEF InsertSubmission, ParticipationTypeOK
    <3> QED
      BY <3>1, <3>2, <3>5 DEF InsertSubmission, ParticipationTypeOK, lists
  <2>5. CASE \E s \in Submissions, promoted \in BOOLEAN : FinishStaging(s, promoted)
    BY <2>5 DEF FinishStaging, AbsentSub, ParticipationTypeOK, SubRecord, lists, Modes
  <2> QED
    BY <1>2, <2>1, <2>2, <2>3, <2>4, <2>5 DEF Submit
<1>3. CASE Evaluate
  <2>1. CASE \E s \in Submissions, ok \in BOOLEAN : JobEnds(s, ok)
    <3>1. PICK s \in Submissions, ok \in BOOLEAN : JobEnds(s, ok)
      BY <2>1
    <3>2. sub'[s] \in SubRecord
      BY <3>1, JobEndsRow
    <3> QED
      BY <3>1, <3>2 DEF JobEnds, ParticipationTypeOK, lists
  <2>2. CASE \E s \in Submissions : Rejudge(s) \/ LeaveWindow(s)
    <3>1. PICK s \in Submissions : Rejudge(s) \/ LeaveWindow(s)
      BY <2>2
    <3>2. sub[s] \in SubRecord
      BY DEF ParticipationTypeOK
    <3>3. CASE Rejudge(s)
      <4>1. sub'[s] = [sub[s] EXCEPT !.status = "queued", !.active = "official"]
        BY <3>3 DEF Rejudge, ParticipationTypeOK
      <4>2. sub'[s] \in SubRecord
        BY <3>2, <4>1 DEF SubRecord, Modes
      <4> QED
        BY <3>3, <4>2 DEF Rejudge, ParticipationTypeOK, lists
    <3>4. CASE LeaveWindow(s)
      <4>1. sub'[s] = [sub[s] EXCEPT !.recent = FALSE]
        BY <3>4 DEF LeaveWindow, ParticipationTypeOK
      <4>2. sub'[s] \in SubRecord
        BY <3>2, <4>1 DEF SubRecord
      <4> QED
        BY <3>4, <4>2 DEF LeaveWindow, ParticipationTypeOK, lists
    <3> QED
      BY <3>1, <3>3, <3>4
  <2> QED
    BY <1>3, <2>1, <2>2 DEF Evaluate
<1>4. CASE Administer
  <2>1. CASE Tick \/ \E c \in Challenges : Archive(c)
    BY <2>1 DEF Tick, Archive, ParticipationTypeOK, lists, admission
  <2>2. CASE \E v \in Revisions, c \in Challenges, add \in Deltas : StoreRevision(v, c, add)
    BY <2>2 DEF StoreRevision, ParticipationTypeOK, RevisionRecord, admission
  <2>3. CASE \E v \in Revisions, eligible \in BOOLEAN : CommitRevision(v, eligible)
    <3>1. PICK v \in Revisions, eligible \in BOOLEAN : CommitRevision(v, eligible)
      BY <2>3
    <3>2. revision[v].agents \subseteq UNION Deltas
      BY DEF ParticipationTypeOK, RevisionRecord
    <3>3. shortlist' \in [Challenges -> SUBSET UNION Deltas]
      BY <3>1, <3>2 DEF CommitRevision, ParticipationTypeOK
    <3>4. revision' \in [Revisions -> RevisionRecord]
      BY <3>1 DEF CommitRevision, AbsentRevision, ParticipationTypeOK, RevisionRecord
    <3> QED
      BY <3>1, <3>3, <3>4 DEF CommitRevision, ParticipationTypeOK, admission
  <2> QED
    BY <1>4, <2>1, <2>2, <2>3 DEF Administer
<1>5. CASE Read
  <2>1. CASE \E f \in OfSubmission, s \in Submissions : LoadSubmission(f, s)
    BY <2>1 DEF LoadSubmission, ParticipationTypeOK, ReaderRecord, Surfaces, OfSubmission, SubRecord,
        lists, admission
  <2>2. CASE \E f \in Surfaces, c \in Challenges : LoadPolicy(f, c)
    BY <2>2 DEF LoadPolicy, ParticipationTypeOK, ReaderRecord, lists, admission
  <2>3. CASE EndRead
    BY <2>3 DEF EndRead, IdleReader, ParticipationTypeOK, ReaderRecord, lists, admission
  <2> QED
    BY <1>5, <2>1, <2>2, <2>3 DEF Read, OfSubmission, Surfaces
<1> QED
  BY <1>1, <1>2, <1>3, <1>4, <1>5 DEF ParticipationNext

-----------------------------------------------------------------------------
(* What a step does to the rows.                                              *)

\* A row that is there after the step was there before it, with the same owner,
\* scope and history; it stays visible, and recent only if it was.
RowFollows(s) ==
    /\ sub'[s].status = "absent" => sub'[s] = AbsentSub
    /\ sub'[s].status # "absent" =>
           /\ sub[s].status # "absent"
           /\ sub'[s].agent = sub[s].agent /\ sub'[s].challenge = sub[s].challenge
           /\ sub'[s].mode = sub[s].mode /\ sub'[s].parent = sub[s].parent
           /\ sub'[s].late = sub[s].late
           /\ sub'[s].recent => sub[s].recent
    /\ sub[s].visible => sub'[s].visible
    /\ sub'[s].visible => sub'[s].status \notin {"absent", "pending"}

\* No job becomes active.
LoadFollows(s) ==
    sub'[s].status # "absent" /\ sub'[s].active # None => sub'[s].active = sub[s].active

LEMMA UntouchedRow ==
    ASSUME RowsAreSound, NEW s \in Submissions, sub'[s] = sub[s]
    PROVE  RowFollows(s) /\ LoadFollows(s)
BY DEF RowFollows, LoadFollows, RowsAreSound, Exists

LEMMA FinishStagingRows ==
    ASSUME ParticipationTypeOK, RowsAreSound, NEW s \in Submissions, NEW promoted \in BOOLEAN,
           FinishStaging(s, promoted)
    PROVE  \A t \in Submissions : RowFollows(t) /\ LoadFollows(t)
<1>1. ASSUME NEW t \in Submissions, t # s PROVE sub'[t] = sub[t]
  BY <1>1 DEF FinishStaging, ParticipationTypeOK
<1>2. sub[s] \in SubRecord /\ ~sub[s].visible /\ sub[s].status = "pending"
  BY DEF ParticipationTypeOK, RowsAreSound, FinishStaging
<1>3. CASE promoted
  <2>1. sub'[s] = [sub[s] EXCEPT !.status = "queued"]
    BY <1>3 DEF FinishStaging, ParticipationTypeOK
  <2>2. RowFollows(s) /\ LoadFollows(s)
    BY <1>2, <2>1 DEF RowFollows, LoadFollows, SubRecord
  <2> QED
    BY <1>1, <2>2, UntouchedRow
<1>4. CASE ~promoted
  <2>1. sub'[s] = AbsentSub
    BY <1>4 DEF FinishStaging, ParticipationTypeOK
  <2>2. RowFollows(s) /\ LoadFollows(s)
    BY <1>2, <2>1 DEF RowFollows, LoadFollows, AbsentSub
  <2> QED
    BY <1>1, <2>2, UntouchedRow
<1> QED
  BY <1>3, <1>4

LEMMA JobEndsRows ==
    ASSUME ParticipationTypeOK, RowsAreSound, NEW s \in Submissions, NEW ok \in BOOLEAN,
           JobEnds(s, ok)
    PROVE  \A t \in Submissions : RowFollows(t) /\ LoadFollows(t)
<1>1. ASSUME NEW t \in Submissions, t # s PROVE sub'[t] = sub[t]
  BY <1>1 DEF JobEnds, ParticipationTypeOK
<1>2. sub[s].status = "queued"
  BY DEF JobEnds
<1>3. RowFollows(s) /\ LoadFollows(s)
  BY <1>2, JobEndsRow, NoneAssumption DEF RowFollows, LoadFollows, Modes
<1> QED
  BY <1>1, <1>3, UntouchedRow

\* A rejudged row is the same submission, queued.
LEMMA RejudgeRows ==
    ASSUME ParticipationTypeOK, RowsAreSound, NEW s \in Submissions, Rejudge(s)
    PROVE  /\ \A t \in Submissions : RowFollows(t)
           /\ \A t \in Submissions : t # s => LoadFollows(t)
           /\ sub[s].challenge \in Challenges /\ sub'[s].status = "queued"
<1>1. ASSUME NEW t \in Submissions, t # s PROVE sub'[t] = sub[t]
  BY <1>1 DEF Rejudge, ParticipationTypeOK
<1>2. sub'[s] = [sub[s] EXCEPT !.status = "queued", !.active = "official"]
  BY DEF Rejudge, ParticipationTypeOK
<1>3. sub[s] \in SubRecord /\ sub[s].status # "absent"
  BY DEF ParticipationTypeOK, Rejudge, Exists
<1>4. RowFollows(s)
  BY <1>2, <1>3 DEF RowFollows, SubRecord
<1>5. sub'[s].status = "queued"
  BY <1>2, <1>3 DEF SubRecord
<1> QED
  BY <1>1, <1>3, <1>4, <1>5, UntouchedRow DEF RowsAreSound, Exists

LEMMA LeaveWindowRows ==
    ASSUME ParticipationTypeOK, RowsAreSound, NEW s \in Submissions, LeaveWindow(s)
    PROVE  \A t \in Submissions : RowFollows(t) /\ LoadFollows(t)
<1>1. ASSUME NEW t \in Submissions, t # s PROVE sub'[t] = sub[t]
  BY <1>1 DEF LeaveWindow, ParticipationTypeOK
<1>2. sub'[s] = [sub[s] EXCEPT !.recent = FALSE]
  BY DEF LeaveWindow, ParticipationTypeOK
<1>3. sub[s].recent /\ sub[s] \in SubRecord
  BY DEF LeaveWindow, ParticipationTypeOK
<1>4. sub[s].status # "absent"
  BY <1>3 DEF RowsAreSound, Exists, AbsentSub
<1>5. RowFollows(s) /\ LoadFollows(s)
  BY <1>2, <1>3, <1>4 DEF RowFollows, LoadFollows, SubRecord, RowsAreSound
<1> QED
  BY <1>1, <1>5, UntouchedRow

\* The row an admitted call inserts.
LEMMA InsertedRow ==
    ASSUME ParticipationTypeOK, NEW r \in CreateCalls, NEW s \in Submissions, InsertSubmission(r, s)
    PROVE  /\ sub'[s].status = "pending" /\ sub[s].status = "absent" /\ ~sub'[s].visible
           /\ sub'[s].agent = creation[r].agent /\ sub'[s].challenge = creation[r].challenge
           /\ sub'[s].mode = creation[r].mode /\ sub'[s].parent = creation[r].parent
           /\ sub'[s].late = creation[r].late /\ sub'[s].active = creation[r].mode
           /\ \A t \in Submissions : t # s => sub'[t] = sub[t]
           /\ creation' = [creation EXCEPT ![r] = IdleRequest]
BY DEF InsertSubmission, ParticipationTypeOK, AbsentSub, Exists, Answer

\* Every step, as the rows see it: they only follow, or one call inserts one
\* row, or one row is rejudged.
LEMMA RowsStep ==
    ASSUME ParticipationTypeOK, RowsAreSound, [ParticipationNext]_participationVars
    PROVE  \/ \A s \in Submissions : RowFollows(s) /\ LoadFollows(s)
           \/ \E r \in CreateCalls, s \in Submissions : InsertSubmission(r, s)
           \/ \E s \in Submissions : Rejudge(s)
<1>1. CASE UNCHANGED sub
  BY <1>1, UntouchedRow
<1>2. CASE \E s \in Submissions, promoted \in BOOLEAN : FinishStaging(s, promoted)
  BY <1>2, FinishStagingRows
<1>3. CASE \E s \in Submissions, ok \in BOOLEAN : JobEnds(s, ok)
  BY <1>3, JobEndsRows
<1>4. CASE \E s \in Submissions : LeaveWindow(s)
  BY <1>4, LeaveWindowRows
<1>5. CASE Administer \/ Read \/ UNCHANGED participationVars
  <2>1. UNCHANGED sub
    BY <1>5 DEF Administer, Tick, Archive, StoreRevision, CommitRevision, Read, LoadSubmission,
        LoadPolicy, EndRead, admission, participationVars
  <2> QED
    BY <1>1, <2>1
<1>6. CASE Submit
  BY <1>1, <1>2, <1>6 DEF Submit, Preflight, BeginCreate, EnforceAdmission
<1> QED
  BY <1>3, <1>4, <1>5, <1>6 DEF ParticipationNext, Evaluate

LEMMA RowsAreSoundStep ==
    ASSUME ParticipationTypeOK, RowsAreSound, CallsAreSound, [ParticipationNext]_participationVars
    PROVE  RowsAreSound'
<1>1. CASE \A s \in Submissions : RowFollows(s)
  <2>1. Stored' \subseteq Stored
    BY <1>1 DEF Stored, Exists, RowFollows
  <2>2. IsFiniteSet(Stored')
    BY <2>1, FS_Subset DEF RowsAreSound
  <2>3. ASSUME NEW s \in Submissions
        PROVE  /\ ~Exists(s)' => sub'[s] = AbsentSub
               /\ Exists(s)' => sub'[s].agent \in AgentIds /\ sub'[s].challenge \in Challenges
               /\ sub'[s].visible => sub'[s].status \notin {"absent", "pending"}
    BY <1>1 DEF RowsAreSound, RowFollows, Exists
  <2> QED
    BY <2>2, <2>3 DEF RowsAreSound
<1>2. CASE \E r \in CreateCalls, s \in Submissions : InsertSubmission(r, s)
  <2>1. PICK r \in CreateCalls, s \in Submissions : InsertSubmission(r, s)
    BY <1>2
  <2>2. Stored' = Stored \cup {s}
    BY <2>1, InsertedRow DEF Stored, Exists
  <2>3. IsFiniteSet(Stored')
    BY <2>2, FS_AddElement DEF RowsAreSound
  <2>4. creation[r].agent \in AgentIds /\ creation[r].challenge \in Challenges
    BY <2>1 DEF InsertSubmission, CallsAreSound
  <2>5. ASSUME NEW t \in Submissions
        PROVE  /\ ~Exists(t)' => sub'[t] = AbsentSub
               /\ Exists(t)' => sub'[t].agent \in AgentIds /\ sub'[t].challenge \in Challenges
               /\ sub'[t].visible => sub'[t].status \notin {"absent", "pending"}
    BY <2>1, <2>4, InsertedRow DEF RowsAreSound, Exists
  <2> QED
    BY <2>3, <2>5 DEF RowsAreSound
<1> QED
  BY <1>1, <1>2, RowsStep, RejudgeRows

-----------------------------------------------------------------------------
(* Locks and calls.                                                           *)

\* What a transaction past its counts holds, nobody else is granted.
LEMMA HeldChallenge ==
    ASSUME NEW r \in CreateCalls, creation[r].pc = "counted",
           NEW locks, <<"challenge", creation[r].challenge>> \in locks
    PROVE  ~Free(locks)
<1>1. <<"challenge", creation[r].challenge>>
         \in CreateLocks(creation[r].pc, creation[r].challenge, creation[r].mode, creation[r].agent)
  BY Zenon DEF CreateLocks
<1>2. <<"challenge", creation[r].challenge>> \in Held
  BY <1>1, Zenon DEF Held
<1> QED
  BY <1>2 DEF Free

LEMMA HeldOfficialScope ==
    ASSUME NEW r \in CreateCalls, creation[r].pc = "counted", creation[r].mode = "official",
           NEW locks, <<"global", "official-active">> \in locks
    PROVE  ~Free(locks)
<1>1. <<"global", "official-active">>
         \in CreateLocks(creation[r].pc, creation[r].challenge, creation[r].mode, creation[r].agent)
  BY Zenon DEF CreateLocks
<1>2. <<"global", "official-active">> \in Held
  BY <1>1, Zenon DEF Held
<1> QED
  BY <1>2 DEF Free

\* A call is past its counts because it was, or because it has just counted.
Counts(r) ==
    /\ creation[r].pc = "begun"
    /\ creation'[r] = [creation[r] EXCEPT !.pc = "counted"]
    /\ \A q \in CreateCalls : q # r => creation'[q] = creation[q]
    /\ Free(CreateLocks("counted", creation[r].challenge, creation[r].mode, creation[r].agent))
    /\ Admitted(r)
    /\ UNCHANGED <<time, policy, archived, shortlist, sub>>

LEMMA CountedStep ==
    ASSUME ParticipationTypeOK, [ParticipationNext]_participationVars,
           NEW r \in CreateCalls, creation'[r].pc = "counted"
    PROVE  creation'[r] = creation[r] \/ Counts(r)
<1>1. CASE UNCHANGED creation
  BY <1>1
<1>2. CASE Submit
  <2>1. CASE \E q \in CreateCalls, a \in AgentIds, c \in Challenges, m \in Modes,
                p \in Submissions \cup {None} : Preflight(q, a, c, m, p)
    BY <2>1 DEF Preflight, ParticipationTypeOK
  <2>2. CASE \E q \in CreateCalls : BeginCreate(q)
    <3>1. PICK q \in CreateCalls : BeginCreate(q)
      BY <2>2
    <3>2. CASE q = r
      BY <3>1, <3>2 DEF BeginCreate, ParticipationTypeOK, CallRecord
    <3>3. CASE q # r
      BY <3>1, <3>3 DEF BeginCreate, ParticipationTypeOK
    <3> QED
      BY <3>2, <3>3
  <2>3. CASE \E q \in CreateCalls : EnforceAdmission(q)
    <3>1. PICK q \in CreateCalls : EnforceAdmission(q)
      BY <2>3
    <3>2. CASE q # r
      BY <3>1, <3>2 DEF EnforceAdmission, Answer, ParticipationTypeOK
    <3>3. CASE q = r /\ Admitted(r)
      BY <3>1, <3>3 DEF EnforceAdmission, Counts, ParticipationTypeOK, CallRecord, lists
    <3>4. CASE q = r /\ ~Admitted(r)
      BY <3>1, <3>4 DEF EnforceAdmission, Answer, IdleRequest, ParticipationTypeOK
    <3> QED
      BY <3>2, <3>3, <3>4
  <2>4. CASE \E q \in CreateCalls, s \in Submissions : InsertSubmission(q, s)
    BY <2>4 DEF InsertSubmission, Answer, IdleRequest, ParticipationTypeOK
  <2>5. CASE \E s \in Submissions, promoted \in BOOLEAN : FinishStaging(s, promoted)
    BY <2>5, <1>1 DEF FinishStaging
  <2> QED
    BY <1>2, <2>1, <2>2, <2>3, <2>4, <2>5 DEF Submit
<1>3. CASE Evaluate \/ Administer \/ Read \/ UNCHANGED participationVars
  <2>1. UNCHANGED creation
    BY <1>3 DEF Evaluate, JobEnds, Rejudge, LeaveWindow, Administer, Tick, Archive, StoreRevision,
        CommitRevision, Read, LoadSubmission, LoadPolicy, EndRead, admission, participationVars
  <2> QED
    BY <2>1
<1> QED
  BY <1>2, <1>3 DEF ParticipationNext

LEMMA CallsAreSoundStep ==
    ASSUME ParticipationTypeOK, CallsAreSound, [ParticipationNext]_participationVars
    PROVE  CallsAreSound'
<1> SUFFICES ASSUME NEW r \in CreateCalls, creation'[r].pc # "idle"
             PROVE  /\ creation'[r].agent \in AgentIds /\ creation'[r].challenge \in Challenges
                    /\ creation'[r].late => HasClosed(creation[r].challenge)'
  BY DEF CallsAreSound
<1>0. \A c \in Challenges : HasClosed(c) => HasClosed(c)'
  BY ScheduleFrame
<1>1. CASE creation'[r] = creation[r]
  <2>1. PICK c \in Challenges : creation[r].challenge = c
    BY <1>1 DEF CallsAreSound
  <2> QED
    BY <1>0, <1>1, <2>1 DEF CallsAreSound, HasClosed
<1>2. CASE \E a \in AgentIds, c \in Challenges, m \in Modes, p \in Submissions \cup {None} :
               Preflight(r, a, c, m, p)
  BY <1>2 DEF Preflight, ParticipationTypeOK
<1>3. CASE BeginCreate(r)
  <2>1. PICK c \in Challenges : creation[r].challenge = c
    BY <1>3 DEF BeginCreate, CallsAreSound
  <2>2. creation'[r].agent = creation[r].agent /\ creation'[r].challenge = c
    BY <1>3, <2>1 DEF BeginCreate, ParticipationTypeOK, CallRecord
  <2>3. creation'[r].late => HasClosed(c)
    BY <1>3, <2>1 DEF BeginCreate, ParticipationTypeOK, CallRecord
  <2> QED
    BY <1>0, <1>3, <2>2, <2>3 DEF BeginCreate, CallsAreSound, HasClosed
<1>4. CASE Counts(r)
  <2>1. PICK c \in Challenges : creation[r].challenge = c
    BY <1>4 DEF Counts, CallsAreSound
  <2>2. /\ creation'[r].agent = creation[r].agent /\ creation'[r].challenge = c
        /\ creation'[r].late = creation[r].late
    BY <1>4, <2>1 DEF Counts, ParticipationTypeOK, CallRecord
  <2> QED
    BY <1>0, <1>4, <2>1, <2>2 DEF Counts, CallsAreSound, HasClosed
<1>5. \/ creation'[r] = creation[r]
      \/ \E a \in AgentIds, c \in Challenges, m \in Modes, p \in Submissions \cup {None} :
             Preflight(r, a, c, m, p)
      \/ BeginCreate(r)
      \/ Counts(r)
  <2>1. CASE Submit
    <3>1. CASE \E q \in CreateCalls, a \in AgentIds, c \in Challenges, m \in Modes,
                  p \in Submissions \cup {None} : Preflight(q, a, c, m, p)
      <4>1. PICK q \in CreateCalls, a \in AgentIds, c \in Challenges, m \in Modes,
                 p \in Submissions \cup {None} : Preflight(q, a, c, m, p)
        BY <3>1
      <4>2. q # r => creation'[r] = creation[r]
        BY <4>1 DEF Preflight, ParticipationTypeOK
      <4> QED
        BY <4>1, <4>2
    <3>2. CASE \E q \in CreateCalls : BeginCreate(q)
      <4>1. PICK q \in CreateCalls : BeginCreate(q)
        BY <3>2
      <4>2. q # r => creation'[r] = creation[r]
        BY <4>1 DEF BeginCreate, ParticipationTypeOK
      <4> QED
        BY <4>1, <4>2
    <3>3. CASE \E q \in CreateCalls : EnforceAdmission(q)
      <4>1. PICK q \in CreateCalls : EnforceAdmission(q)
        BY <3>3
      <4>2. creation'[r].pc = "counted" \/ creation'[r] = creation[r]
        BY <4>1 DEF EnforceAdmission, Answer, IdleRequest, ParticipationTypeOK, CallRecord
      <4> QED
        BY <4>2, CountedStep
    <3>4. CASE \E q \in CreateCalls, s \in Submissions : InsertSubmission(q, s)
      BY <3>4 DEF InsertSubmission, Answer, IdleRequest, ParticipationTypeOK
    <3>5. CASE \E s \in Submissions, promoted \in BOOLEAN : FinishStaging(s, promoted)
      BY <3>5 DEF FinishStaging
    <3> QED
      BY <2>1, <3>1, <3>2, <3>3, <3>4, <3>5 DEF Submit
  <2>2. CASE Evaluate \/ Administer \/ Read \/ UNCHANGED participationVars
    <3>1. UNCHANGED creation
      BY <2>2 DEF Evaluate, JobEnds, Rejudge, LeaveWindow, Administer, Tick, Archive, StoreRevision,
          CommitRevision, Read, LoadSubmission, LoadPolicy, EndRead, admission, participationVars
    <3> QED
      BY <3>1
  <2> QED
    BY <2>1, <2>2 DEF ParticipationNext
<1> QED
  BY <1>1, <1>2, <1>3, <1>4, <1>5

LEMMA AdmissionsExcludeStep ==
    ASSUME ParticipationTypeOK, AdmissionsExclude, [ParticipationNext]_participationVars
    PROVE  AdmissionsExclude'
<1> SUFFICES ASSUME NEW q \in CreateCalls, NEW r \in CreateCalls, q # r,
                    creation'[q].pc = "counted", creation'[r].pc = "counted"
             PROVE  /\ creation'[q].challenge # creation'[r].challenge
                    /\ ~(creation'[q].mode = "official" /\ creation'[r].mode = "official")
  BY DEF AdmissionsExclude
<1>1. CASE creation'[q] = creation[q] /\ creation'[r] = creation[r]
  BY <1>1 DEF AdmissionsExclude
<1>2. ASSUME NEW x \in CreateCalls, NEW y \in CreateCalls, x # y, Counts(x), creation'[y].pc = "counted"
      PROVE  /\ creation'[x].challenge # creation'[y].challenge
             /\ ~(creation'[x].mode = "official" /\ creation'[y].mode = "official")
  <2>1. creation'[y] = creation[y] /\ creation[y].pc = "counted"
    BY <1>2 DEF Counts
  <2>2. creation'[x].challenge = creation[x].challenge /\ creation'[x].mode = creation[x].mode
    BY <1>2 DEF Counts, ParticipationTypeOK, CallRecord
  <2>3. creation[x].challenge # creation[y].challenge
    <3>1. <<"challenge", creation[x].challenge>>
            \in CreateLocks("counted", creation[x].challenge, creation[x].mode, creation[x].agent)
      BY Zenon DEF CreateLocks
    <3> QED
      BY <1>2, <2>1, <3>1, HeldChallenge DEF Counts
  <2>4. ~(creation[x].mode = "official" /\ creation[y].mode = "official")
    <3>1. creation[x].mode = "official" =>
            <<"global", "official-active">>
              \in CreateLocks("counted", creation[x].challenge, creation[x].mode, creation[x].agent)
      BY Zenon DEF CreateLocks
    <3> QED
      BY <1>2, <2>1, <3>1, HeldOfficialScope DEF Counts
  <2> QED
    BY <2>1, <2>2, <2>3, <2>4
<1>3. CASE Counts(q)
  BY <1>2, <1>3
<1>4. CASE Counts(r)
  BY <1>2, <1>4
<1> QED
  BY <1>1, <1>3, <1>4, CountedStep

-----------------------------------------------------------------------------
(* The counts.                                                                *)

LEMMA SmallerCount ==
    ASSUME NEW S, IsFiniteSet(S), NEW T, T \subseteq S
    PROVE  Cardinality(T) \in Nat /\ Cardinality(S) \in Nat /\ Cardinality(T) <= Cardinality(S)
BY FS_Subset, FS_CardinalityType

LEMMA CountOfOneMore ==
    ASSUME NEW S, IsFiniteSet(S), NEW x, NEW T, T \subseteq S \cup {x}
    PROVE  /\ Cardinality(T) \in Nat /\ Cardinality(S) \in Nat
           /\ Cardinality(T) <= Cardinality(S) + 1
<1>1. Cardinality(S) \in Nat
  BY FS_CardinalityType
<1>2. /\ IsFiniteSet(S \cup {x})
      /\ Cardinality(S \cup {x}) = IF x \in S THEN Cardinality(S) ELSE Cardinality(S) + 1
  BY FS_AddElement
<1>3. Cardinality(T) \in Nat /\ Cardinality(T) <= Cardinality(S \cup {x})
  BY <1>2, SmallerCount
<1> QED
  BY <1>1, <1>2, <1>3

LEMMA RunsAreFinite ==
    ASSUME RowsAreSound, NEW a, NEW c, NEW m
    PROVE  /\ IsFiniteSet(LifetimeRuns(a, c, m))
           /\ IsFiniteSet(RecentRuns(a, c, m))
           /\ IsFiniteSet(ActiveOfficial)
<1>1. /\ LifetimeRuns(a, c, m) \subseteq Stored
      /\ RecentRuns(a, c, m) \subseteq Stored
      /\ ActiveOfficial \subseteq Stored
  BY DEF LifetimeRuns, RecentRuns, ActiveOfficial, Rows, Stored
<1> QED
  BY <1>1, FS_Subset DEF RowsAreSound

\* The runs of a scope once the rows have followed: some of those there were.
LEMMA RunsFollow ==
    ASSUME ParticipationTypeOK, NEW a, NEW c, NEW m, NEW x,
           \A s \in Submissions : s # x => RowFollows(s)
    PROVE  /\ LifetimeRuns(a, c, m)' \subseteq LifetimeRuns(a, c, m) \cup {x}
           /\ RecentRuns(a, c, m)' \subseteq RecentRuns(a, c, m) \cup {x}
BY DEF LifetimeRuns, RecentRuns, Rows, Exists, RowFollows

LEMMA LoadsFollow ==
    ASSUME ParticipationTypeOK, NEW x,
           \A s \in Submissions : s # x => RowFollows(s) /\ LoadFollows(s)
    PROVE  ActiveOfficial' \subseteq ActiveOfficial \cup {x}
BY NoneAssumption DEF ActiveOfficial, Exists, RowFollows, LoadFollows, Modes

\* The counts of a scope no step adds to do not grow.
LEMMA RunsShrink ==
    ASSUME ParticipationTypeOK, RowsAreSound, NEW a, NEW c, NEW m,
           \A s \in Submissions :
               RowFollows(s) \/ (Exists(s)' => ~(sub'[s].agent = a /\ sub'[s].challenge = c
                                               /\ sub'[s].mode = m))
    PROVE  /\ Cardinality(LifetimeRuns(a, c, m))' <= Cardinality(LifetimeRuns(a, c, m))
           /\ Cardinality(RecentRuns(a, c, m))' <= Cardinality(RecentRuns(a, c, m))
           /\ Cardinality(LifetimeRuns(a, c, m)) \in Nat /\ Cardinality(LifetimeRuns(a, c, m))' \in Nat
           /\ Cardinality(RecentRuns(a, c, m)) \in Nat /\ Cardinality(RecentRuns(a, c, m))' \in Nat
<1>1. LifetimeRuns(a, c, m)' \subseteq LifetimeRuns(a, c, m)
  BY DEF LifetimeRuns, Rows, Exists, RowFollows
<1>2. RecentRuns(a, c, m)' \subseteq RecentRuns(a, c, m)
  BY DEF LifetimeRuns, RecentRuns, Rows, Exists, RowFollows
<1> QED
  BY <1>1, <1>2, RunsAreFinite, SmallerCount

LEMMA LoadShrinks ==
    ASSUME ParticipationTypeOK, RowsAreSound,
           \A s \in Submissions : (RowFollows(s) /\ LoadFollows(s))
                                  \/ (Exists(s)' => sub'[s].active # "official")
    PROVE  /\ Cardinality(ActiveOfficial)' <= Cardinality(ActiveOfficial)
           /\ Cardinality(ActiveOfficial) \in Nat /\ Cardinality(ActiveOfficial)' \in Nat
<1>1. ActiveOfficial' \subseteq ActiveOfficial
  BY NoneAssumption DEF ActiveOfficial, Exists, RowFollows, LoadFollows, Modes
<1> QED
  BY <1>1, RunsAreFinite, SmallerCount

LEMMA LimitTypes ==
    ASSUME ParticipationTypeOK, NEW c \in Challenges, NEW m \in Modes
    PROVE  /\ policy[c].limit[m] \in Nat /\ DailyLimit[m] \in Nat /\ MaxActiveOfficial \in Nat
           /\ policy[c].shortlisted \in BOOLEAN /\ policy[c].closes \in BOOLEAN
BY LimitsAssumption DEF ParticipationTypeOK, Policy

\* What Admitted found of the call it admits.
LEMMA AdmittedHolds ==
    ASSUME NEW r \in CreateCalls, Admitted(r), CallsAreSound, creation[r].pc # "idle"
    PROVE  /\ ~creation[r].late
           /\ AdmissionHolds(creation[r].agent, creation[r].challenge, creation[r].mode,
                             creation[r].parent)
BY DEF Admitted, AdmissionHolds, SupportsEvalType, Eligible, IsShortlisted, ParentMatchesScope,
    ParentInScope, AcceptsSubmissions, HasClosed, CallsAreSound

\* A row that was public is public still, and of the same agent and challenge.
LEMMA PublicStays ==
    ASSUME ParticipationTypeOK, RowsAreSound, [ParticipationNext]_participationVars,
           NEW s \in Submissions, sub[s].visible
    PROVE  /\ sub'[s].visible
           /\ sub'[s].agent = sub[s].agent /\ sub'[s].challenge = sub[s].challenge
<1>1. CASE RowFollows(s)
  BY <1>1 DEF RowFollows
<1>2. CASE \E r \in CreateCalls, t \in Submissions : InsertSubmission(r, t)
  BY <1>2, InsertedRow DEF RowsAreSound
<1> QED
  BY <1>1, <1>2, RowsStep, RejudgeRows

LEMMA ParentStays ==
    ASSUME ParticipationTypeOK, RowsAreSound, [ParticipationNext]_participationVars,
           NEW p \in Submissions \cup {None}, NEW a, NEW c, ParentInScope(p, a, c)
    PROVE  ParentInScope(p, a, c)'
BY PublicStays DEF ParentInScope

LEMMA QuotaStep ==
    ASSUME ParticipationTypeOK, RowsAreSound, CallsAreSound, CountedAdmissionsHold,
           WithinSubmissionQuota, [ParticipationNext]_participationVars
    PROVE  WithinSubmissionQuota'
<1>0. policy' = policy
  BY ScheduleFrame
<1>1. ASSUME NEW a \in AgentIds, NEW c \in Challenges, NEW m \in Modes
      PROVE  /\ Cardinality(RecentRuns(a, c, m))' <= DailyLimit[m]
             /\ policy[c].limit[m] # NoLimit
                   => Cardinality(LifetimeRuns(a, c, m))' <= policy[c].limit[m]
  <2>0. /\ policy[c].limit[m] \in Nat /\ DailyLimit[m] \in Nat
        /\ Cardinality(RecentRuns(a, c, m)) <= DailyLimit[m]
        /\ policy[c].limit[m] # NoLimit => Cardinality(LifetimeRuns(a, c, m)) <= policy[c].limit[m]
    BY LimitTypes DEF WithinSubmissionQuota
  <2>1. CASE \A s \in Submissions : RowFollows(s)
    BY <2>0, <2>1, RunsShrink
  <2>2. CASE \E r \in CreateCalls, s \in Submissions : InsertSubmission(r, s)
    <3>1. PICK r \in CreateCalls, s \in Submissions : InsertSubmission(r, s)
      BY <2>2
    <3>2. \A t \in Submissions : t # s => RowFollows(t)
      BY <3>1, InsertedRow, UntouchedRow
    <3>3. CASE creation[r].agent = a /\ creation[r].challenge = c /\ creation[r].mode = m
      <4>1. QuotaAvailable(a, c, m)
        BY <3>1, <3>3 DEF InsertSubmission, CountedAdmissionsHold, AdmissionHolds,
            ParticipationTypeOK, CallRecord
      <4>2. /\ Cardinality(RecentRuns(a, c, m))' \in Nat /\ Cardinality(RecentRuns(a, c, m)) \in Nat
            /\ Cardinality(RecentRuns(a, c, m))' <= Cardinality(RecentRuns(a, c, m)) + 1
        <5>1. IsFiniteSet(RecentRuns(a, c, m)) /\ RecentRuns(a, c, m)' \subseteq RecentRuns(a, c, m) \cup {s}
          BY <3>2, RunsFollow, RunsAreFinite
        <5> QED
          BY <5>1, CountOfOneMore
      <4>3. /\ Cardinality(LifetimeRuns(a, c, m))' \in Nat /\ Cardinality(LifetimeRuns(a, c, m)) \in Nat
            /\ Cardinality(LifetimeRuns(a, c, m))' <= Cardinality(LifetimeRuns(a, c, m)) + 1
        <5>1. IsFiniteSet(LifetimeRuns(a, c, m)) /\ LifetimeRuns(a, c, m)' \subseteq LifetimeRuns(a, c, m) \cup {s}
          BY <3>2, RunsFollow, RunsAreFinite
        <5> QED
          BY <5>1, CountOfOneMore
      <4> QED
        BY <2>0, <4>1, <4>2, <4>3 DEF QuotaAvailable
    <3>4. CASE ~(creation[r].agent = a /\ creation[r].challenge = c /\ creation[r].mode = m)
      <4>1. ~(sub'[s].agent = a /\ sub'[s].challenge = c /\ sub'[s].mode = m)
        BY <3>1, <3>4, InsertedRow
      <4> QED
        BY <2>0, <3>2, <4>1, RunsShrink
    <3> QED
      BY <3>3, <3>4
  <2> QED
    BY <2>1, <2>2, RowsStep, RejudgeRows
<1>2. Cardinality(ActiveOfficial)' <= MaxActiveOfficial
  <2>0. /\ MaxActiveOfficial \in Nat /\ Cardinality(ActiveOfficial) <= MaxActiveOfficial
        /\ Cardinality(ActiveOfficial) \in Nat
    BY LimitsAssumption, RunsAreFinite, FS_CardinalityType DEF WithinSubmissionQuota
  <2>1. CASE \A s \in Submissions : RowFollows(s) /\ LoadFollows(s)
    BY <2>0, <2>1, LoadShrinks
  <2>2. ASSUME NEW x \in Submissions, Cardinality(ActiveOfficial) < MaxActiveOfficial,
               \A s \in Submissions : s # x => RowFollows(s) /\ LoadFollows(s)
        PROVE  Cardinality(ActiveOfficial)' <= MaxActiveOfficial
    <3>1. /\ Cardinality(ActiveOfficial)' \in Nat
          /\ Cardinality(ActiveOfficial)' <= Cardinality(ActiveOfficial) + 1
      BY <2>2, LoadsFollow, RunsAreFinite, CountOfOneMore
    <3> QED
      BY <2>0, <2>2, <3>1
  <2>3. CASE \E r \in CreateCalls, s \in Submissions : InsertSubmission(r, s)
    <3>1. PICK r \in CreateCalls, s \in Submissions : InsertSubmission(r, s)
      BY <2>3
    <3>2. \A t \in Submissions : t # s => RowFollows(t) /\ LoadFollows(t)
      BY <3>1, InsertedRow, UntouchedRow
    <3>3. CASE creation[r].mode = "official"
      <4>1. PICK a \in AgentIds, c \in Challenges :
                 creation[r].agent = a /\ creation[r].challenge = c
        BY <3>1 DEF InsertSubmission, CallsAreSound
      <4>2. QuotaAvailable(a, c, "official")
        BY <3>1, <3>3, <4>1 DEF InsertSubmission, CountedAdmissionsHold, AdmissionHolds,
            ParticipationTypeOK, CallRecord
      <4> QED
        BY <2>2, <3>2, <4>2 DEF QuotaAvailable
    <3>4. CASE creation[r].mode # "official"
      <4>1. sub'[s].active # "official"
        BY <3>1, <3>4, InsertedRow
      <4> QED
        BY <2>0, <3>2, <4>1, LoadShrinks
    <3> QED
      BY <3>3, <3>4
  <2>4. CASE \E s \in Submissions : Rejudge(s)
    <3>1. PICK s \in Submissions : Rejudge(s)
      BY <2>4
    <3>2. Cardinality(ActiveOfficial) < MaxActiveOfficial
      BY <3>1 DEF Rejudge
    <3> QED
      BY <2>2, <3>1, <3>2, RejudgeRows
  <2> QED
    BY <2>1, <2>3, <2>4, RowsStep
<1> QED
  BY <1>0, <1>1, <1>2 DEF WithinSubmissionQuota

LEMMA AdmittedStep ==
    ASSUME ParticipationTypeOK, RowsAreSound, CallsAreSound, CountedAdmissionsHold,
           AdmittedUnderPolicy, [ParticipationNext]_participationVars
    PROVE  AdmittedUnderPolicy'
<1> SUFFICES ASSUME NEW s \in Submissions, Exists(s)'
             PROVE  /\ policy'[sub'[s].challenge].shortlisted
                           => sub'[s].agent \in shortlist'[sub'[s].challenge]
                    /\ ~sub'[s].late
                    /\ sub'[s].parent # None =>
                           /\ sub'[sub'[s].parent].visible
                           /\ sub'[sub'[s].parent].agent = sub'[s].agent
                           /\ sub'[sub'[s].parent].challenge = sub'[s].challenge
  BY DEF AdmittedUnderPolicy, EffectiveShortlist
<1>1. /\ policy' = policy
      /\ \A c \in Challenges : shortlist[c] \subseteq shortlist'[c]
  BY ScheduleFrame
<1>2. PICK a \in AgentIds, c \in Challenges, p \in Submissions \cup {None} :
          /\ sub'[s].agent = a /\ sub'[s].challenge = c /\ sub'[s].parent = p
  BY RowsAreSoundStep, TypeStep DEF RowsAreSound, ParticipationTypeOK, SubRecord
<1>3. /\ policy[c].shortlisted => a \in shortlist[c]
      /\ ~sub'[s].late
      /\ ParentInScope(p, a, c)
  <2>1. CASE RowFollows(s)
    <3>1. /\ Exists(s) /\ sub[s].agent = a /\ sub[s].challenge = c /\ sub[s].parent = p
          /\ sub'[s].late = sub[s].late
      BY <1>2, <2>1 DEF RowFollows, Exists
    <3> QED
      BY <3>1 DEF AdmittedUnderPolicy, EffectiveShortlist, ParentInScope
  <2>2. CASE \E r \in CreateCalls, t \in Submissions : InsertSubmission(r, t)
    <3>1. PICK r \in CreateCalls, t \in Submissions : InsertSubmission(r, t)
      BY <2>2
    <3>2. CASE t # s
      BY <2>1, <3>1, <3>2, InsertedRow, UntouchedRow
    <3>3. CASE t = s
      <4>1. /\ creation[r].pc = "counted" /\ creation[r].agent = a /\ creation[r].challenge = c
            /\ creation[r].parent = p /\ creation[r].late = sub'[s].late /\ creation[r].mode \in Modes
        BY <1>2, <3>1, <3>3, InsertedRow DEF InsertSubmission, ParticipationTypeOK, CallRecord
      <4> QED
        BY <4>1 DEF CountedAdmissionsHold, AdmissionHolds
    <3> QED
      BY <3>2, <3>3
  <2> QED
    BY <2>1, <2>2, RowsStep, RejudgeRows
<1>4. ParentInScope(p, a, c)'
  BY <1>3, ParentStays
<1> QED
  BY <1>1, <1>2, <1>3, <1>4 DEF ParentInScope

LEMMA CountedAdmissionsStep ==
    ASSUME ParticipationTypeOK, RowsAreSound, CallsAreSound, CountedAdmissionsHold,
           AdmissionsExclude, [ParticipationNext]_participationVars
    PROVE  CountedAdmissionsHold'
<1> SUFFICES ASSUME NEW r \in CreateCalls, creation'[r].pc = "counted"
             PROVE  /\ ~creation'[r].late
                    /\ \A a \in AgentIds, c \in Challenges, m \in Modes, p \in Submissions \cup {None} :
                           /\ creation'[r].agent = a /\ creation'[r].challenge = c
                           /\ creation'[r].mode = m /\ creation'[r].parent = p
                           => AdmissionHolds(a, c, m, p)'
  BY DEF CountedAdmissionsHold
<1>1. CASE Counts(r)
  <2>1. /\ ~creation[r].late
        /\ AdmissionHolds(creation[r].agent, creation[r].challenge, creation[r].mode,
                          creation[r].parent)
    BY <1>1, AdmittedHolds DEF Counts
  <2>2. /\ creation'[r].agent = creation[r].agent /\ creation'[r].challenge = creation[r].challenge
        /\ creation'[r].mode = creation[r].mode /\ creation'[r].parent = creation[r].parent
        /\ creation'[r].late = creation[r].late
    BY <1>1 DEF Counts, ParticipationTypeOK, CallRecord
  <2>3. \A a, c, m, p : AdmissionHolds(a, c, m, p) => AdmissionHolds(a, c, m, p)'
    BY <1>1 DEF Counts, AdmissionHolds, Published, ParentInScope, QuotaAvailable, RecentRuns,
        LifetimeRuns, ActiveOfficial, Rows, Exists
  <2> QED
    BY <2>1, <2>2, <2>3
<1>2. CASE creation'[r] = creation[r]
  <2> SUFFICES ASSUME NEW a \in AgentIds, NEW c \in Challenges, NEW m \in Modes,
                      NEW p \in Submissions \cup {None},
                      creation[r].agent = a, creation[r].challenge = c,
                      creation[r].mode = m, creation[r].parent = p
               PROVE  AdmissionHolds(a, c, m, p)'
    BY <1>2 DEF CountedAdmissionsHold
  <2>1. AdmissionHolds(a, c, m, p) /\ creation[r].pc = "counted"
    BY <1>2 DEF CountedAdmissionsHold
  <2>2. Published(c)'
    <3>1. CASE \E d \in Challenges : Archive(d)
      <4>1. PICK d \in Challenges : Archive(d)
        BY <3>1
      <4>2. d # c
        BY <2>1, <4>1, HeldChallenge DEF Archive
      <4> QED
        BY <2>1, <4>1, <4>2 DEF Archive, Published, AdmissionHolds
    <3>2. CASE UNCHANGED archived
      BY <2>1, <3>2 DEF Published, AdmissionHolds
    <3>3. UNCHANGED archived \/ \E d \in Challenges : Archive(d)
      BY DEF ParticipationNext, Submit, Preflight, BeginCreate, EnforceAdmission, InsertSubmission,
          FinishStaging, Evaluate, JobEnds, Rejudge, LeaveWindow, Administer, Tick, StoreRevision,
          CommitRevision, Read, LoadSubmission, LoadPolicy, EndRead, participationVars
    <3> QED
      BY <3>1, <3>2, <3>3
  <2>3. policy'[c].shortlisted => a \in shortlist'[c]
    BY <2>1, ScheduleFrame DEF AdmissionHolds
  <2>4. ParentInScope(p, a, c)'
    BY <2>1, ParentStays DEF AdmissionHolds
  <2>5. QuotaAvailable(a, c, m) /\ policy' = policy
    BY <2>1, ScheduleFrame DEF AdmissionHolds
  <2>6. /\ Cardinality(RecentRuns(a, c, m))' < DailyLimit[m]
        /\ policy[c].limit[m] # NoLimit
              => Cardinality(LifetimeRuns(a, c, m))' < policy[c].limit[m]
    <3>1. \A s \in Submissions :
              RowFollows(s) \/ (Exists(s)' => ~(sub'[s].agent = a /\ sub'[s].challenge = c
                                              /\ sub'[s].mode = m))
      <4>1. CASE \E q \in CreateCalls, s \in Submissions : InsertSubmission(q, s)
        <5>1. PICK q \in CreateCalls, s \in Submissions : InsertSubmission(q, s)
          BY <4>1
        <5>2. q # r
          BY <1>2, <2>1, <5>1, InsertedRow DEF IdleRequest, ParticipationTypeOK
        <5>3. creation[q].challenge # c
          BY <2>1, <5>1, <5>2 DEF AdmissionsExclude, InsertSubmission
        <5> QED
          BY <5>1, <5>3, InsertedRow, UntouchedRow
      <4> QED
        BY <4>1, RowsStep, RejudgeRows
    <3>2. policy[c].limit[m] \in Nat /\ DailyLimit[m] \in Nat
      BY LimitTypes
    <3> QED
      BY <2>5, <3>1, <3>2, RunsShrink DEF QuotaAvailable
  <2>7. m = "official" => Cardinality(ActiveOfficial)' < MaxActiveOfficial
    <3> SUFFICES ASSUME m = "official" PROVE Cardinality(ActiveOfficial)' < MaxActiveOfficial
      OBVIOUS
    <3>1. \A s \in Submissions : (RowFollows(s) /\ LoadFollows(s))
                                 \/ (Exists(s)' => sub'[s].active # "official")
      <4>1. CASE \E q \in CreateCalls, s \in Submissions : InsertSubmission(q, s)
        <5>1. PICK q \in CreateCalls, s \in Submissions : InsertSubmission(q, s)
          BY <4>1
        <5>2. q # r
          BY <1>2, <2>1, <5>1, InsertedRow DEF IdleRequest, ParticipationTypeOK
        <5>3. creation[q].mode # "official"
          BY <2>1, <5>1, <5>2 DEF AdmissionsExclude, InsertSubmission
        <5> QED
          BY <5>1, <5>3, InsertedRow, UntouchedRow
      <4>2. CASE \E s \in Submissions : Rejudge(s)
        BY <2>1, <4>2, HeldOfficialScope DEF Rejudge
      <4> QED
        BY <4>1, <4>2, RowsStep
    <3> QED
      BY <2>5, <3>1, LoadShrinks, LimitsAssumption DEF QuotaAvailable
  <2> QED
    BY <2>2, <2>3, <2>4, <2>5, <2>6, <2>7 DEF AdmissionHolds, QuotaAvailable
<1> QED
  BY <1>1, <1>2, CountedStep DEF CountedAdmissionsHold

-----------------------------------------------------------------------------
(* The reads.                                                                 *)

\* What the policy allows to be shown it allows from then on.
LEMMA GateStays ==
    ASSUME ParticipationTypeOK, [ParticipationNext]_participationVars,
           NEW f \in Surfaces, NEW c \in Challenges, Gate(f, c)
    PROVE  Gate(f, c)'
<1>1. policy' = policy /\ (HasClosed(c) => HasClosed(c)')
  BY ScheduleFrame
<1>2. CASE f \in {"detail", "list"}
  BY <1>1, <1>2 DEF Gate, DetailVisible
<1>3. CASE f = "artifact"
  BY <1>1, <1>3 DEF Gate, ArtifactVisible, DetailVisible
<1>4. CASE f \in {"leaderboard", "ranking"}
  BY <1>1, <1>4 DEF Gate, VisibilityAllows
<1>5. CASE f = "distribution"
  BY <1>1, <1>5 DEF Gate, VisibilityAllows
<1> QED
  BY <1>2, <1>3, <1>4, <1>5 DEF Surfaces, OfSubmission

LEMMA ReaderStep ==
    ASSUME ParticipationTypeOK, RowsAreSound, ReaderIsWarranted, [ParticipationNext]_participationVars
    PROVE  ReaderIsWarranted'
<1>1. CASE UNCHANGED reader
  <2>1. PICK f, c, s : f = reader.surface /\ c = reader.challenge /\ s = reader.sub
    OBVIOUS
  <2>2. reader.pc = "allowed" => Gate(f, c)'
    BY <2>1, GateStays DEF ReaderIsWarranted
  <2>3. reader.pc # "idle" /\ f \in OfSubmission => sub'[s].visible /\ sub'[s].challenge = c
    BY <2>1, PublicStays DEF ReaderIsWarranted
  <2>4. f = reader'.surface /\ c = reader'.challenge /\ s = reader'.sub
    BY <1>1, <2>1
  <2>5. reader.pc = "allowed" => Gate(reader.surface, reader.challenge)'
    BY <2>2, <2>4
  <2> QED
    BY <1>1, <2>1, <2>3, <2>5 DEF ReaderIsWarranted
<1>2. CASE \E f \in OfSubmission, s \in Submissions : LoadSubmission(f, s)
  <2>1. PICK f \in OfSubmission, s \in Submissions : LoadSubmission(f, s)
    BY <1>2
  <2>2. sub[s].challenge \in Challenges /\ sub[s].visible /\ sub' = sub
    BY <2>1 DEF LoadSubmission, PublicVisible, RowsAreSound, admission
  <2>3. /\ reader'.pc = "loaded" /\ reader'.surface = f
        /\ reader'.challenge = sub[s].challenge /\ reader'.sub = s
    BY <2>1 DEF LoadSubmission
  <2> QED
    BY <2>2, <2>3 DEF ReaderIsWarranted
<1>3. CASE \E f \in Surfaces, c \in Challenges : LoadPolicy(f, c)
  <2>1. PICK f \in Surfaces, c \in Challenges : LoadPolicy(f, c)
    BY <1>3
  <2>2. Gate(f, c)'
    BY <2>1, GateStays DEF LoadPolicy
  <2>3. /\ reader'.pc = "allowed" /\ reader'.surface = f
        /\ reader'.challenge = c /\ reader'.sub = reader.sub
    BY <2>1 DEF LoadPolicy, ParticipationTypeOK, ReaderRecord
  <2>4. f \in OfSubmission => /\ reader.sub \in Submissions /\ sub[reader.sub].visible
                             /\ sub[reader.sub].challenge = c
    BY <2>1 DEF LoadPolicy, OfSubmission, ReaderIsWarranted
  <2>5. sub' = sub
    BY <2>1 DEF LoadPolicy, admission
  <2>6. Gate(reader.surface, reader.challenge)'
    BY <2>2, <2>3
  <2> QED
    BY <2>3, <2>4, <2>5, <2>6 DEF ReaderIsWarranted
<1>4. CASE EndRead
  BY <1>4 DEF EndRead, IdleReader, ReaderIsWarranted
<1>5. CASE Submit \/ Evaluate \/ Administer \/ UNCHANGED participationVars
  <2>1. UNCHANGED reader
    BY <1>5 DEF Submit, Preflight, BeginCreate, EnforceAdmission, InsertSubmission, FinishStaging,
        Evaluate, JobEnds, Rejudge, LeaveWindow, Administer, Tick, Archive, StoreRevision,
        CommitRevision, participationVars
  <2> QED
    BY <1>1, <2>1
<1> QED
  BY <1>2, <1>3, <1>4, <1>5 DEF ParticipationNext, Read, OfSubmission, Surfaces

\* The result of record is all the public is shown of one submission.
LEMMA PublicDetails ==
    ASSUME NEW s \in Submissions, NEW i \in PresentSubmission(s, "public"), sub[s].visible
    PROVE  i.sub = s /\ i.field \in {"result", "primary_metric"}
BY DEF PresentSubmission, PrimaryMetric, PresentEvaluation, Item

LEMMA PublicItems ==
    ASSUME ParticipationTypeOK, RowsAreSound, ReaderIsWarranted, NEW i \in PublicAnswer
    PROVE  \/ i.field = "attempt" /\ sub[i.sub].challenge \notin archived
           \/ \E s \in Submissions, c \in Challenges :
               /\ i.sub = s /\ sub[s].visible /\ sub[s].challenge = c
               /\ \/ i.field = "count" /\ DetailVisible(c)
                  \/ i.field \in {"result", "primary_metric"} /\ DetailVisible(c)
                  \/ i.field = "artifact" /\ ArtifactVisible(c)
                  \/ i.field = "primary_metric" /\ VisibilityAllows(policy[c].leaderboard, c)
                  \/ /\ i.field = "value" /\ policy[c].primaryPublic
                     /\ VisibilityAllows(policy[c].distribution, c)
<1>1. CASE i \in Items(ObserverRows, "count")
  <2>1. PICK s \in ObserverRows : i = Item(s, "count")
    BY <1>1 DEF Items
  <2>2. i.sub = s /\ i.field = "count"
    BY <2>1 DEF Item
  <2>3. /\ s \in Submissions /\ sub[s].visible /\ sub[s].challenge \in Challenges
        /\ DetailVisible(sub[s].challenge)
    BY <2>1 DEF ObserverRows, RowsAreSound, DetailVisible
  <2> QED
    BY <2>2, <2>3
<1>2. CASE reader.pc = "allowed" /\ i \in RowsOf(reader.surface, reader.challenge, reader.sub)
  <2>0. PICK f \in Surfaces : f = reader.surface
    BY <1>2 DEF ReaderIsWarranted
  <2>1. PICK c \in Challenges : c = reader.challenge
    BY <1>2 DEF ReaderIsWarranted
  <2>10. PICK x : x = reader.sub
    OBVIOUS
  <2>2. Gate(f, c) /\ i \in RowsOf(f, c, x)
    BY <1>2, <2>0, <2>1, <2>10 DEF ReaderIsWarranted
  <2>3. f \in OfSubmission => x \in Submissions /\ sub[x].visible /\ sub[x].challenge = c
    BY <1>2, <2>0, <2>1, <2>10 DEF ReaderIsWarranted
  <2>4. CASE f = "detail"
    <3>1. i \in PresentSubmission(x, "public") /\ DetailVisible(c)
      BY <2>2, <2>4 DEF RowsOf, Gate
    <3> QED
      BY <2>3, <2>4, <3>1, PublicDetails DEF OfSubmission
  <2>5. CASE f = "artifact"
    <3>1. i = Item(x, "artifact") /\ ArtifactVisible(c)
      BY <2>2, <2>5 DEF RowsOf, Gate, ArtifactAnswer
    <3>2. i.sub = x /\ i.field = "artifact"
      BY <3>1 DEF Item
    <3> QED
      BY <2>3, <2>5, <3>1, <3>2 DEF OfSubmission
  <2>6. CASE f = "list"
    <3>1. i \in Items(PublicRows(c), "primary_metric") /\ DetailVisible(c)
      BY <2>2, <2>6 DEF RowsOf, Gate, ListAnswer
    <3>2. PICK s \in PublicRows(c) : i = Item(s, "primary_metric")
      BY <3>1 DEF Items
    <3>3. i.sub = s /\ i.field = "primary_metric"
      BY <3>2 DEF Item
    <3> QED
      BY <3>1, <3>2, <3>3 DEF PublicRows, Rows
  <2>7. CASE f \in {"leaderboard", "ranking"}
    <3>1. /\ i \in Items(LeaderboardRows(c), "primary_metric")
          /\ VisibilityAllows(policy[c].leaderboard, c)
      BY <2>2, <2>7 DEF RowsOf, Gate, LeaderboardAnswer
    <3>2. PICK s \in LeaderboardRows(c) : i = Item(s, "primary_metric")
      BY <3>1 DEF Items
    <3>3. i.sub = s /\ i.field = "primary_metric"
      BY <3>2 DEF Item
    <3> QED
      BY <3>1, <3>2, <3>3 DEF LeaderboardRows, Rows
  <2>8. CASE f = "distribution"
    <3>1. /\ policy[c].primaryPublic /\ i \in Items(MetricRows(c), "value")
          /\ VisibilityAllows(policy[c].distribution, c)
      BY <2>2, <2>8 DEF RowsOf, Gate, DistributionAnswer
    <3>2. PICK s \in MetricRows(c) : i = Item(s, "value")
      BY <3>1 DEF Items
    <3>3. i.sub = s /\ i.field = "value"
      BY <3>2 DEF Item
    <3> QED
      BY <3>1, <3>2, <3>3 DEF MetricRows, LeaderboardRows, Rows
  <2> QED
    BY <2>4, <2>5, <2>6, <2>7, <2>8 DEF Surfaces, OfSubmission
<1>3. CASE i \in Items(AttemptRows, "attempt")
  <2>1. PICK s \in AttemptRows : i = Item(s, "attempt")
    BY <1>3 DEF Items
  <2>2. i.sub = s /\ i.field = "attempt"
    BY <2>1 DEF Item
  <2> QED
    BY <2>1, <2>2 DEF AttemptRows, Published
<1> QED
  BY <1>1, <1>2, <1>3 DEF PublicAnswer

\* Whatever the owner is sent of a submission, an official log of a private
\* benchmark is not part of it.
LEMMA OwnerItems ==
    ASSUME NEW s \in Submissions, Item(s, "official_log") \in OwnerAnswer(s)
    PROVE  ~policy[sub[s].challenge].private /\ ~RedactAlways
<1>1. \A f, g : Item(s, f) = Item(s, g) => f = g
  BY DEF Item
<1>2. Item(s, "official_log") \notin PresentSubmission(s, "owner")
  BY <1>1 DEF PresentSubmission, PrimaryMetric, PresentEvaluation
<1> QED
  BY <1>1, <1>2 DEF OwnerAnswer, VisibleLog

LEMMA DisclosureFollows ==
    ASSUME ParticipationTypeOK, RowsAreSound, ReaderIsWarranted
    PROVE  DisclosureIsWarranted
<1> DEFINE Open(level, c) ==
      level \in {"public", "public_live"} \/ (level = "public_after_close" /\ HasClosed(c))
<1>1. ASSUME NEW i \in PublicAnswer
      PROVE  LET p == policy[sub[i.sub].challenge]
                 c == sub[i.sub].challenge
             IN  \/ i.field = "attempt" /\ c \notin archived
                 \/ /\ sub[i.sub].visible
                    /\ i.field \in {"result", "primary_metric", "artifact", "value", "count"}
                    /\ i.field \in {"result", "artifact", "count"} => Open(p.detail, c)
                    /\ i.field = "artifact" => Open(p.publication, c)
                    /\ i.field = "primary_metric" => Open(p.detail, c) \/ Open(p.leaderboard, c)
                    /\ i.field = "value" => p.primaryPublic /\ Open(p.distribution, c)
  <2>1. CASE i.field = "attempt" /\ sub[i.sub].challenge \notin archived
    BY <2>1
  <2>2. CASE \E s \in Submissions, c \in Challenges :
               /\ i.sub = s /\ sub[s].visible /\ sub[s].challenge = c
               /\ \/ i.field = "count" /\ DetailVisible(c)
                  \/ i.field \in {"result", "primary_metric"} /\ DetailVisible(c)
                  \/ i.field = "artifact" /\ ArtifactVisible(c)
                  \/ i.field = "primary_metric" /\ VisibilityAllows(policy[c].leaderboard, c)
                  \/ /\ i.field = "value" /\ policy[c].primaryPublic
                     /\ VisibilityAllows(policy[c].distribution, c)
    <3>1. PICK s \in Submissions, c \in Challenges :
               /\ i.sub = s /\ sub[s].visible /\ sub[s].challenge = c
               /\ \/ i.field = "count" /\ DetailVisible(c)
                  \/ i.field \in {"result", "primary_metric"} /\ DetailVisible(c)
                  \/ i.field = "artifact" /\ ArtifactVisible(c)
                  \/ i.field = "primary_metric" /\ VisibilityAllows(policy[c].leaderboard, c)
                  \/ /\ i.field = "value" /\ policy[c].primaryPublic
                     /\ VisibilityAllows(policy[c].distribution, c)
      BY <2>2
    <3>2. DetailVisible(c) => Open(policy[c].detail, c)
      BY DEF DetailVisible
    <3>3. ArtifactVisible(c) => Open(policy[c].detail, c) /\ Open(policy[c].publication, c)
      BY <3>2 DEF ArtifactVisible
    <3>4. \A level : VisibilityAllows(level, c) => Open(level, c)
      BY DEF VisibilityAllows
    <3> HIDE DEF Open
    <3> QED
      BY <3>1, <3>2, <3>3, <3>4
  <2> QED
    BY <2>1, <2>2, PublicItems
<1>2. \A s \in Submissions : Item(s, "official_log") \in OwnerAnswer(s) =>
          ~policy[sub[s].challenge].private /\ ~RedactAlways
  BY OwnerItems
<1>3. ASSUME NEW c \in Challenges
      PROVE  /\ LeaderboardRows(c) \subseteq CreatorStats(c).completed \cap CreatorStats(c).visible
             /\ {sub[s].agent : s \in PublicRows(c)} \subseteq Participants(c)
  BY DEF LeaderboardRows, CreatorStats, PublicRows, Participants
<1>4. ObserverRows \subseteq AttemptRows
  BY DEF ObserverRows, AttemptRows
<1> QED
  BY <1>1, <1>2, <1>3, <1>4 DEF DisclosureIsWarranted

-----------------------------------------------------------------------------
(* The theorems.                                                              *)

\* The invariant is inductive: whatever requests, evaluations, administration
\* and reads do, in any order.
THEOREM ParticipationInvariance == ParticipationSpec => []ParticipationInv
<1>1. ParticipationInit => ParticipationInv
  BY InitHolds
<1>2. ParticipationInv /\ [ParticipationNext]_participationVars => ParticipationInv'
  <2> SUFFICES ASSUME ParticipationInv, [ParticipationNext]_participationVars
               PROVE  ParticipationInv'
    OBVIOUS
  <2>1. ParticipationTypeOK'
    BY TypeStep DEF ParticipationInv
  <2>2. RowsAreSound'
    BY RowsAreSoundStep DEF ParticipationInv
  <2>3. CallsAreSound'
    BY CallsAreSoundStep DEF ParticipationInv
  <2>4. CountedAdmissionsHold'
    BY CountedAdmissionsStep DEF ParticipationInv
  <2>5. AdmissionsExclude'
    BY AdmissionsExcludeStep DEF ParticipationInv
  <2>6. WithinSubmissionQuota'
    BY QuotaStep DEF ParticipationInv
  <2>7. AdmittedUnderPolicy'
    BY AdmittedStep DEF ParticipationInv
  <2>8. ReaderIsWarranted'
    BY ReaderStep DEF ParticipationInv
  <2> QED
    BY <2>1, <2>2, <2>3, <2>4, <2>5, <2>6, <2>7, <2>8 DEF ParticipationInv
<1> QED
  BY <1>1, <1>2, PTL DEF ParticipationSpec

\* No interleaving of admissions exceeds a daily, a lifetime or the official
\* quota (enforce_quota_admission counts under the locks its caller holds).
THEOREM QuotaSafety == ParticipationSpec => []WithinSubmissionQuota
<1>1. ParticipationInv => WithinSubmissionQuota
  BY DEF ParticipationInv
<1> QED
  BY <1>1, ParticipationInvariance, PTL

\* Every accepted submission is one its challenge's policy admits: shortlist,
\* closing time and parent.
THEOREM AdmissionSafety == ParticipationSpec => []AdmittedUnderPolicy
<1>1. ParticipationInv => AdmittedUnderPolicy
  BY DEF ParticipationInv
<1> QED
  BY <1>1, ParticipationInvariance, PTL

\* Nothing of a submission but its part in the count of attempts leaves the
\* server that the policy does not release, whatever happens between the reads of
\* one request.
THEOREM DisclosureSafety == ParticipationSpec => []DisclosureIsWarranted
<1>1. ParticipationInv => DisclosureIsWarranted
  BY DisclosureFollows DEF ParticipationInv
<1> QED
  BY <1>1, ParticipationInvariance, PTL

\* Neither an admission nor a rejudge gives an archived challenge new work.
THEOREM ArchivedSafety == ParticipationSpec => ArchivedAcceptsNothing
<1>1. ParticipationInv /\ [ParticipationNext]_participationVars
      => [\A s \in Submissions :
             sub[s].active = None /\ sub'[s].active # None
               => sub'[s].challenge \notin archived]_participationVars
  <2> SUFFICES ASSUME ParticipationInv, [ParticipationNext]_participationVars,
                      NEW s \in Submissions, sub[s].active = None, sub'[s].active # None
               PROVE  sub'[s].challenge \notin archived
    OBVIOUS
  <2>1. CASE \E r \in CreateCalls, t \in Submissions : InsertSubmission(r, t)
    <3>1. PICK r \in CreateCalls, t \in Submissions : InsertSubmission(r, t)
      BY <2>1
    <3>2. t = s
      BY <3>1, InsertedRow DEF ParticipationInv
    <3>3. /\ creation[r].pc = "counted" /\ creation[r].mode \in Modes
          /\ creation[r].parent \in Submissions \cup {None}
          /\ creation[r].agent \in AgentIds /\ creation[r].challenge \in Challenges
      BY <3>1 DEF InsertSubmission, ParticipationInv, ParticipationTypeOK, CallRecord, CallsAreSound
    <3>4. Published(creation[r].challenge)
      BY <3>3 DEF ParticipationInv, CountedAdmissionsHold, AdmissionHolds
    <3> QED
      BY <3>1, <3>2, <3>4, InsertedRow DEF ParticipationInv, Published
  <2>2. CASE \E t \in Submissions : Rejudge(t)
    <3>1. PICK t \in Submissions : Rejudge(t)
      BY <2>2
    <3>2. t = s
      BY <3>1 DEF Rejudge, ParticipationInv, ParticipationTypeOK
    <3>3. sub'[s].challenge = sub[s].challenge
      BY <3>1, <3>2, RejudgeRows DEF ParticipationInv, RowFollows
    <3> QED
      BY <3>1, <3>2, <3>3 DEF Rejudge, Published
  <2>3. CASE RowFollows(s) /\ LoadFollows(s)
    BY <2>3 DEF RowFollows, LoadFollows, AbsentSub
  <2> QED
    BY <2>1, <2>2, <2>3, RowsStep DEF ParticipationInv
<1> QED
  BY <1>1, ParticipationInvariance, PTL DEF ParticipationSpec, ArchivedAcceptsNothing

=============================================================================
