------------------------------- MODULE Identity -------------------------------
(* Human accounts, their roles, sessions and tokens, pioneer codes and agents  *)
(* (crates/persistence/src/db/{sessions,pioneer_codes,agents}.rs and the       *)
(* services and extractors over them). A request is a process: its extractor   *)
(* authorises it in one read, then its transaction takes its row locks one by  *)
(* one, decides on what it reads, writes and commits. Postgres may end a       *)
(* transaction that waits in a cycle, and a connection may drop: Rollback.     *)
(* Statements are READ COMMITTED: what no lock of the transaction protects may *)
(* change between the decision and the commit.                                 *)
EXTENDS Integers, Sequences, FiniteSets

CONSTANTS
    Humans,            \* GitHub users; a human row is made at the first sign-in
    IdOf,              \* the id of each human
    Agents,            \* agent ids registrations may generate
    Codes,             \* pioneer codes an admin may create
    Requests,          \* concurrent requests
    BootstrapAdmins,   \* AGENTICS_BOOTSTRAP_ADMIN_GITHUB_USER_IDS
    MaxUses,           \* pioneer_codes.max_uses; -1 is unlimited
    MaxActiveAgents,   \* quotas.max_active_agents
    PublicRegistration,\* agent_registration_mode is Public
    NoId               \* no human, no code, no holder

ASSUME HumansAssumption == /\ BootstrapAdmins \subseteq Humans
                           /\ IdOf \in [Humans -> Nat]
                           /\ \A h, k \in Humans : IdOf[h] = IdOf[k] => h = k
ASSUME UsesAssumption == MaxUses \in [Codes -> Nat \cup {-1}]
ASSUME QuotaAssumption == MaxActiveAgents \in Nat /\ PublicRegistration \in BOOLEAN
ASSUME NoIdAssumption == NoId \notin Humans \cup Codes \cup Requests \cup Agents

VARIABLES
    human,         \* humans with their human_roles: a role is none, granted or revoked
    session,       \* the humans who have a row in human_sessions
    creatorToken,  \* the humans who have an active row in creator_api_tokens
    adminToken,    \* the humans who have an active row in admin_service_tokens
    code,          \* pioneer_codes and pioneer_code_uses
    agent,         \* agents and agent_tokens
    holder,        \* which transaction holds a row lock
    request        \* the requests

accounts == <<human, session, creatorToken, adminToken>>
vars == <<human, session, creatorToken, adminToken, code, agent, holder, request>>

-----------------------------------------------------------------------------
RoleStates == {"none", "granted", "revoked"}
HumanType == [status : {"absent", "setup_required", "active", "deleted"},
              creator : RoleStates, admin : RoleStates]
CodeType == [status : {"absent", "active", "expired", "revoked"},
             uses : SUBSET (Humans \cup Agents)]
AgentType == [status : {"absent", "active", "disabled"}, token : BOOLEAN]

\* quota_admission_locks has one row for each of the two scopes.
Scopes == {"bootstrap-admin", "active-agents"}
ASSUME RowsAssumption == /\ Scopes \cap (Humans \cup Codes) = {}   \* rows of four tables
                         /\ Humans \cap (Codes \cup Agents) = {}
Locks == Scopes \cup Humans \cup Codes
Ops == {"none", "sign_in", "setup", "grant_admin", "revoke_admin", "delete",
        "creator_token", "admin_token", "revoke_code", "register"}
RequestType == [op : Ops, human : Humans \cup {NoId}, code : Codes \cup {NoId},
                pc : {"idle", "state", "locking", "checked", "session"},
                need : Seq(Locks), new : BOOLEAN, bootstrap : BOOLEAN]

Idle == [op |-> "none", human |-> NoId, code |-> NoId, pc |-> "idle",
         need |-> <<>>, new |-> FALSE, bootstrap |-> FALSE]

Init ==
    /\ human = [h \in Humans |-> [status |-> "absent", creator |-> "none", admin |-> "none"]]
    /\ session = {} /\ creatorToken = {} /\ adminToken = {}
    /\ code = [c \in Codes |-> [status |-> "absent", uses |-> {}]]
    /\ agent = [a \in Agents |-> [status |-> "absent", token |-> FALSE]]
    /\ holder = [l \in Locks |-> NoId]
    /\ request = [r \in Requests |-> Idle]

-----------------------------------------------------------------------------
(* What the queries and the extractors decide.                                *)

ActiveAdmins == {h \in Humans : human[h].status = "active" /\ human[h].admin = "granted"}

ActiveAgents == {a \in Agents : agent[a].status = "active"}

\* A session authenticates a human who is active or has still to finish setup.
HumanSession(h) == h \in session /\ human[h].status \in {"active", "setup_required"}

\* The token of the form that a mutating request carries matches the session's.
HumanAuth(h) == HumanSession(h)

CreatorWebAuth(h) ==
    /\ HumanAuth(h) /\ human[h].status = "active"
    /\ human[h].creator = "granted" \/ human[h].admin = "granted"

ServiceToken(h) == h \in adminToken /\ h \in ActiveAdmins

\* Identity management wants the session of an admin, not a service token.
HumanAdminAuth(h) == HumanSession(h) /\ h \in ActiveAdmins

AdminAuth == \E h \in Humans : ServiceToken(h) \/ HumanAdminAuth(h)

Consumable(c) ==
    /\ code[c].status = "active"
    /\ MaxUses[c] = -1 \/ Cardinality(code[c].uses) < MaxUses[c]

-----------------------------------------------------------------------------
(* Row locks.                                                                 *)

Release(r) == [l \in Locks |-> IF holder[l] = r THEN NoId ELSE holder[l]]

Waiting(r) == /\ request[r].pc = "locking" /\ request[r].need # <<>>
              /\ holder[Head(request[r].need)] # NoId

WaitsFor(r) == holder[Head(request[r].need)]

\* The rows a transaction locks, in the order it locks them.
BootstrapThenHuman_NoScope(h) == <<h>>
BootstrapThenHuman(h) == <<"bootstrap-admin", h>>

HumanThenCode(h, c) == <<h, c>>

HumanThenBootstrap(h) ==
    (IF human[h].status = "absent" THEN <<>> ELSE <<h>>)
    \o (IF h \in BootstrapAdmins THEN <<"bootstrap-admin">> ELSE <<>>)

AgentsThenCode_Unlocked(c) == <<"active-agents">>
AgentsThenCode(c) == IF PublicRegistration THEN <<"active-agents">> ELSE <<"active-agents", c>>

HumanOnly_ThenScope(h) == <<h, "bootstrap-admin">>
HumanOnly(h) == <<h>>

\* revoke_pioneer_code locks the humans of the code's uses ORDER BY id.
UsersById(c) ==
    LET users == code[c].uses \cap Humans
    IN  {q \in [1..Cardinality(users) -> users] :
            /\ \A i, k \in DOMAIN q : i < k => IdOf[q[i]] < IdOf[q[k]]
            /\ \A h \in users : \E i \in DOMAIN q : q[i] = h}

Begin(r, op, h, c, need) ==
    /\ request[r].pc = "idle"
    /\ request' = [request EXCEPT ![r] = [Idle EXCEPT !.op = op, !.human = h, !.code = c,
                                                      !.pc = "locking", !.need = need]]
    /\ UNCHANGED <<accounts, code, agent, holder>>

Acquire(r) ==
    LET l == Head(request[r].need)
        rest == IF request[r].op = "revoke_code" /\ l = request[r].code
                THEN UsersById(l) ELSE {Tail(request[r].need)}
    IN  /\ request[r].pc = "locking" /\ request[r].need # <<>>
        /\ holder[l] = NoId
        /\ holder' = [holder EXCEPT ![l] = r]
        /\ \E need \in rest : request' = [request EXCEPT ![r].need = need]
        /\ UNCHANGED <<accounts, code, agent>>

\* An error of a statement, a deadlock victim, a dropped connection.
Rollback(r) ==
    /\ request[r].pc \in {"locking", "checked"}
    /\ holder' = Release(r)
    /\ request' = [request EXCEPT ![r] = Idle]
    /\ UNCHANGED <<accounts, code, agent>>

-----------------------------------------------------------------------------
(* The requests, as their extractors admit them.                              *)

\* start_github_sign_in_login stores the state row of this browser.
StartLogin(r) ==
    /\ request[r].pc = "idle"
    /\ request' = [request EXCEPT ![r] = [Idle EXCEPT !.op = "sign_in", !.pc = "state"]]
    /\ UNCHANGED <<accounts, code, agent, holder>>

\* The state expires, or GitHub refuses the code after the state was consumed.
LoginFails(r) ==
    /\ request[r].pc = "state"
    /\ request' = [request EXCEPT ![r] = Idle]
    /\ UNCHANGED <<accounts, code, agent, holder>>

\* The callback deletes the state row, GitHub answers who signed in, and the
\* transaction looks for the human of that GitHub user.
Callback(r, h) ==
    /\ request[r].pc = "state"
    /\ request' = [request EXCEPT ![r].pc = "locking", ![r].human = h,
                                  ![r].new = human[h].status = "absent",
                                  ![r].need = HumanThenBootstrap(h)]
    /\ UNCHANGED <<accounts, code, agent, holder>>

\* A code that names no row is refused without a lock.
Setup(r, h, c) ==
    /\ HumanAuth(h) /\ code[c].status # "absent"
    /\ Begin(r, "setup", h, c, HumanThenCode(h, c))
DeleteAccount(r, h) == HumanAuth(h) /\ Begin(r, "delete", h, NoId, BootstrapThenHuman(h))
CreateCreatorToken(r, h) == CreatorWebAuth(h) /\ Begin(r, "creator_token", h, NoId, HumanOnly(h))
CreateAdminToken(r, h) == HumanAdminAuth(h) /\ Begin(r, "admin_token", h, NoId, HumanOnly(h))

ManageAdmin(r, op, by, h) ==
    /\ HumanAdminAuth(by)
    /\ Begin(r, op, h, NoId, BootstrapThenHuman(h))

RevokeCode(r, c) ==
    /\ AdminAuth /\ code[c].status # "absent"
    /\ Begin(r, "revoke_code", NoId, c, <<c>>)

Register(r, c) ==
    /\ PublicRegistration \/ code[c].status # "absent"
    /\ Begin(r, "register", NoId, c, AgentsThenCode(c))

-----------------------------------------------------------------------------
(* What a transaction decides once it holds its locks.                        *)

SetupIsDone(h) == human[h].status = "active" /\ human[h].creator = "granted"

Admits(r) ==
    LET q == request[r]
        h == q.human
    IN  CASE q.op = "sign_in"       -> q.new \/ human[h].status # "deleted"
          [] q.op = "setup"         -> /\ human[h].status # "deleted"
                                       /\ SetupIsDone(h) \/ (Consumable(q.code) /\ h \notin code[q.code].uses)
          [] q.op = "grant_admin"   -> human[h].status = "active"
          [] q.op = "revoke_admin"  -> h \in ActiveAdmins /\ Cardinality(ActiveAdmins) > 1
          [] q.op = "delete"        -> /\ human[h].status # "deleted"
                                       /\ human[h].admin = "granted" => Cardinality(ActiveAdmins) > 1
          [] q.op = "creator_token" -> /\ human[h].status = "active"
                                       /\ human[h].creator = "granted" \/ human[h].admin = "granted"
          [] q.op = "admin_token"   -> h \in ActiveAdmins
          [] q.op = "revoke_code"   -> TRUE
          [] q.op = "register"      -> /\ Cardinality(ActiveAgents) < MaxActiveAgents
                                       /\ PublicRegistration \/ Consumable(q.code)

Check(r) ==
    /\ request[r].pc = "locking" /\ request[r].need = <<>>
    /\ Admits(r)
    /\ request' = [request EXCEPT ![r].pc = "checked",
                     ![r].bootstrap = /\ request[r].op = "sign_in"
                                      /\ request[r].human \in BootstrapAdmins
                                      /\ ActiveAdmins = {}]
    /\ UNCHANGED <<accounts, code, agent, holder>>

-----------------------------------------------------------------------------
(* What a transaction writes and commits.                                     *)

Ends(r, op) ==
    /\ request[r].pc = "checked" /\ request[r].op = op
    /\ holder' = Release(r)
    /\ request' = [request EXCEPT ![r] = Idle]

\* The use row and use_count, which counts the rows.
Consume(c, subject) == [code EXCEPT ![c].uses = @ \cup {subject}]

\* activate_human_tx leaves a deleted account alone.
Activated(h) == [human[h] EXCEPT !.status = IF @ = "deleted" THEN @ ELSE "active",
                                 !.creator = "granted"]

\* A new GitHub user whose human exists by now violates the unique index.
ResolveHuman(r) ==
    LET h == request[r].human
        made == IF request[r].bootstrap
                THEN [Activated(h) EXCEPT !.admin = "granted"]
                ELSE IF request[r].new THEN [human[h] EXCEPT !.status = "setup_required"] ELSE human[h]
    IN  /\ request[r].pc = "checked" /\ request[r].op = "sign_in"
        /\ request[r].new => human[h].status = "absent"
        /\ human' = [human EXCEPT ![h] = made]
        /\ holder' = Release(r)
        /\ request' = [request EXCEPT ![r].pc = "session"]
        /\ UNCHANGED <<session, creatorToken, adminToken, code, agent>>

\* A statement of its own, after the commit: the account may be gone by now.
IssueSession(r) ==
    /\ request[r].pc = "session"
    /\ session' = session \cup {request[r].human}
    /\ request' = [request EXCEPT ![r] = Idle]
    /\ UNCHANGED <<human, creatorToken, adminToken, code, agent, holder>>

CompleteSetup(r) ==
    LET h == request[r].human
        c == request[r].code
    IN  /\ Ends(r, "setup")
        /\ IF SetupIsDone(h)
           THEN UNCHANGED <<human, code>>
           ELSE /\ human' = [human EXCEPT ![h] = Activated(h)]
                /\ code' = Consume(c, h)
        /\ UNCHANGED <<session, creatorToken, adminToken, agent>>

GrantAdmin(r) ==
    /\ Ends(r, "grant_admin")
    /\ human' = [human EXCEPT ![request[r].human].admin = "granted"]
    /\ UNCHANGED <<session, creatorToken, adminToken, code, agent>>

RevokeAdmin(r) ==
    /\ Ends(r, "revoke_admin")
    /\ human' = [human EXCEPT ![request[r].human].admin = "revoked"]
    /\ adminToken' = adminToken \ {request[r].human}
    /\ UNCHANGED <<session, creatorToken, code, agent>>

RevokedRole(state) == IF state = "granted" THEN "revoked" ELSE state

DeleteHuman(r) ==
    LET h == request[r].human
    IN  /\ Ends(r, "delete")
        /\ human' = [human EXCEPT ![h] = [status |-> "deleted", creator |-> RevokedRole(@.creator),
                                          admin |-> RevokedRole(@.admin)]]
        /\ session' = session \ {h}
        /\ creatorToken' = creatorToken \ {h}
        /\ adminToken' = adminToken \ {h}
        /\ UNCHANGED <<code, agent>>

IssueCreatorToken(r) ==
    /\ Ends(r, "creator_token")
    /\ creatorToken' = creatorToken \cup {request[r].human}
    /\ UNCHANGED <<human, session, adminToken, code, agent>>

IssueAdminToken(r) ==
    /\ Ends(r, "admin_token")
    /\ adminToken' = adminToken \cup {request[r].human}
    /\ UNCHANGED <<human, session, creatorToken, code, agent>>

\* The creator role goes, the admin role of a rescinded human stays.
Rescinded_All(h) == [human[h] EXCEPT !.status = "setup_required",
                                     !.creator = RevokedRole(@)]
Rescinded(h) ==
    IF human[h].status = "deleted" THEN [human[h] EXCEPT !.creator = RevokedRole(@)]
    ELSE [human[h] EXCEPT !.status = "setup_required", !.creator = RevokedRole(@)]

RescindCode(r) ==
    LET c == request[r].code
    IN  /\ Ends(r, "revoke_code")
        /\ code' = [code EXCEPT ![c].status = "revoked"]
        /\ human' = [h \in Humans |-> IF h \in code[c].uses THEN Rescinded(h) ELSE human[h]]
        /\ session' = session \ code[c].uses
        /\ creatorToken' = creatorToken \ code[c].uses
        /\ adminToken' = adminToken \ code[c].uses
        /\ agent' = [a \in Agents |-> IF a \in code[c].uses
                                      THEN [status |-> "disabled", token |-> FALSE] ELSE agent[a]]

RegisterAgent(r, a) ==
    /\ Ends(r, "register")
    /\ agent[a].status = "absent"
    /\ agent' = [agent EXCEPT ![a] = [status |-> "active", token |-> TRUE]]
    /\ code' = IF PublicRegistration THEN code
               ELSE Consume(request[r].code, a)
    /\ UNCHANGED accounts

-----------------------------------------------------------------------------
(* Requests of one statement.                                                 *)

CreateCode(c) ==
    /\ AdminAuth /\ code[c].status = "absent"
    /\ code' = [code EXCEPT ![c].status = "active"]
    /\ UNCHANGED <<accounts, agent, holder, request>>

CodeExpires(c) ==
    /\ code[c].status = "active"
    /\ code' = [code EXCEPT ![c].status = "expired"]
    /\ UNCHANGED <<accounts, agent, holder, request>>

\* Logging out, or the sweep of expired rows that each login starts with.
SessionEnds(h) ==
    /\ h \in session
    /\ session' = session \ {h}
    /\ UNCHANGED <<human, creatorToken, adminToken, code, agent, holder, request>>

RevokeCreatorToken(h) ==
    /\ CreatorWebAuth(h) /\ h \in creatorToken
    /\ creatorToken' = creatorToken \ {h}
    /\ UNCHANGED <<human, session, adminToken, code, agent, holder, request>>

RevokeAdminToken(by, h) ==
    /\ HumanAdminAuth(by) /\ h \in adminToken
    /\ adminToken' = adminToken \ {h}
    /\ UNCHANGED <<human, session, creatorToken, code, agent, holder, request>>

\* disable_agent: two statements without a transaction, the second may not run.
DisableAgent(a) ==
    /\ AdminAuth /\ agent[a].status # "absent"
    /\ \E token \in {FALSE, agent[a].token} :
          agent' = [agent EXCEPT ![a] = [status |-> "disabled", token |-> token]]
    /\ UNCHANGED <<accounts, code, holder, request>>

RequestStep(r) ==
    \/ StartLogin(r) \/ LoginFails(r) \/ Acquire(r) \/ Check(r) \/ Rollback(r)
    \/ ResolveHuman(r) \/ IssueSession(r) \/ CompleteSetup(r) \/ GrantAdmin(r)
    \/ RevokeAdmin(r) \/ DeleteHuman(r) \/ IssueCreatorToken(r) \/ IssueAdminToken(r)
    \/ RescindCode(r)
    \/ \E h \in Humans : \/ Callback(r, h) \/ DeleteAccount(r, h)
                         \/ CreateCreatorToken(r, h) \/ CreateAdminToken(r, h)
    \/ \E h \in Humans, c \in Codes : Setup(r, h, c)
    \/ \E by, h \in Humans, op \in {"grant_admin", "revoke_admin"} : ManageAdmin(r, op, by, h)
    \/ \E c \in Codes : RevokeCode(r, c) \/ Register(r, c)
    \/ \E a \in Agents : RegisterAgent(r, a)

Next ==
    \/ \E r \in Requests : RequestStep(r)
    \/ \E c \in Codes : CreateCode(c) \/ CodeExpires(c)
    \/ \E h \in Humans : SessionEnds(h) \/ RevokeCreatorToken(h)
    \/ \E by, h \in Humans : RevokeAdminToken(by, h)
    \/ \E a \in Agents : DisableAgent(a)

Spec == Init /\ [][Next]_vars

-----------------------------------------------------------------------------
(* Properties.                                                                *)

TypeOK ==
    /\ human \in [Humans -> HumanType]
    /\ session \subseteq Humans /\ creatorToken \subseteq Humans /\ adminToken \subseteq Humans
    /\ code \in [Codes -> CodeType]
    /\ agent \in [Agents -> AgentType]
    /\ holder \in [Locks -> Requests \cup {NoId}]
    /\ request \in [Requests -> RequestType]

\* However many setups and registrations race for a code, its uses stay within
\* max_uses (consume_pioneer_code_for_{human,agent}_tx count under the row lock).
CodeWithinMaxUses ==
    \A c \in Codes : MaxUses[c] = -1 \/ Cardinality(code[c].uses) <= MaxUses[c]

\* A committed revocation leaves nothing behind: an active human was admitted by
\* a code that still stands or is a bootstrap admin, and an agent of a revoked
\* code has neither status nor token, whatever raced with revoke_pioneer_code.
RevokedCodeGrantsNothing ==
    /\ \A h \in Humans : human[h].status = "active" =>
          \/ h \in BootstrapAdmins
          \/ \E c \in Codes : code[c].status # "revoked" /\ h \in code[c].uses
    /\ \A c \in Codes, a \in Agents : code[c].status = "revoked" /\ a \in code[c].uses =>
          agent[a].status = "disabled" /\ ~agent[a].token

\* What a pioneer code grants is bounded and can be taken back: both races are
\* decided by the row lock of the code.
PioneerCodeIsHonoured == CodeWithinMaxUses /\ RevokedCodeGrantsNothing

\* A deleted account stays deleted: no sign-in, setup or code revocation that was
\* under way when it was deleted brings it back, and its roles stay revoked.
DeletedStaysDeleted ==
    [][\A h \in Humans : human[h].status = "deleted" =>
         human'[h].status = "deleted" /\ human'[h].admin # "granted" /\ human'[h].creator # "granted"]_vars

\* Once there was an admin there is an active one, unless a code revocation
\* rescinded a human: two admins who revoke or delete each other leave one.
AdminRemains ==
    (\E h \in Humans : human[h].admin # "none") =>
        \/ ActiveAdmins # {}
        \/ \E c \in Codes : code[c].status = "revoked" /\ code[c].uses \cap Humans # {}

BootstrapFirst == {"grant_admin", "revoke_admin", "delete"}

WaitCycle(C) ==
    /\ \A r \in C : Waiting(r) /\ WaitsFor(r) \in C
    /\ \A r \in C : \E x \in C : WaitsFor(x) = r

\* The only transactions that can wait for each other in a cycle are a sign-in
\* (human, then bootstrap scope) with a request that locks them the other way
\* round, and a setup (human, then code) with the revocation of that code.
LockInversionsAreKnown ==
    \A C \in SUBSET Requests : C # {} /\ WaitCycle(C) =>
        LET ops == {request[r].op : r \in C}
        IN  \/ "sign_in" \in ops /\ ops \cap BootstrapFirst # {}
            \/ "setup" \in ops /\ "revoke_code" \in ops

\* docs/operations: deleting an account "rejects deletion of the final active
\* human admin". delete_human_account counts the admins before it writes, and a
\* code revocation takes no bootstrap lock.
DeletionLeavesAnAdmin ==
    [][\A r \in Requests : DeleteHuman(r) /\ ActiveAdmins # {} => ActiveAdmins' # {}]_vars
=============================================================================
