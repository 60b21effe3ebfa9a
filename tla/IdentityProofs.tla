---------------------------- MODULE IdentityProofs ----------------------------
(* Proofs about Identity, for any number of humans, agents, codes and          *)
(* concurrent requests. A transaction holds the row locks its statements have  *)
(* asked for (LocksInv), so what it decided under them still holds when it     *)
(* writes (RowsInv): codes are honoured, an admin remains, a deleted account   *)
(* stays deleted (GrantsInv). The order of the locks alone shows that no cycle *)
(* of waiting transactions lacks the two inversions the code is known for.     *)
EXTENDS Identity, FiniteSetTheorems, SequenceTheorems, WellFoundedInduction, TLAPS

-----------------------------------------------------------------------------
(* The locks.                                                                  *)

BA == "bootstrap-admin"
AA == "active-agents"

Transaction(r) == request[r].pc \in {"locking", "checked"}

\* The rows that a transaction q locks.
PersonOps == BootstrapFirst \cup {"setup", "creator_token", "admin_token"}

Needed(q) == {q.need[i] : i \in DOMAIN q.need}   \* what it has still to lock

Owes(q) ==
    {l \in Locks :
        \/ l = q.human /\ (q.op \in PersonOps \/ (q.op = "sign_in" /\ ~q.new))
        \/ l = BA /\ (q.op \in BootstrapFirst \/ (q.op = "sign_in" /\ q.human \in BootstrapAdmins))
        \/ l = AA /\ q.op = "register"
        \/ l = q.code /\ (q.op \in {"setup", "revoke_code"} \/ (q.op = "register" /\ ~PublicRegistration))
        \/ q.op = "revoke_code" /\ q.code \notin Needed(q) /\ l \in code[q.code].uses \cap Humans}

\* The order in which the statements of q lock l and m.
Before(q, l, m) ==
    \/ q.op = "sign_in" /\ l = q.human /\ m = BA
    \/ q.op \in BootstrapFirst /\ l = BA /\ m = q.human
    \/ q.op = "setup" /\ l = q.human /\ m = q.code
    \/ q.op = "register" /\ l = AA /\ m = q.code
    \/ q.op = "revoke_code" /\ m \in Humans /\ (l = q.code \/ (l \in Humans /\ IdOf[l] < IdOf[m]))

\* The row locks that are ahead, in the order of the statements.
Ordered(q) ==
    /\ Needed(q) \subseteq Owes(q)
    /\ \A i, k \in DOMAIN q.need : i < k => Before(q, q.need[i], q.need[k])
    /\ \A l \in Owes(q) \ Needed(q), m \in Needed(q) : Before(q, l, m)

\* Whom and what a transaction is about.
Subjects(q) ==
    /\ q.op \in PersonOps \cup {"sign_in", "revoke_code", "register"}
    /\ q.op \in PersonOps \cup {"sign_in"} => q.human \in Humans
    /\ q.op \in {"setup", "revoke_code", "register"} => q.code \in Codes

Transactions ==
    \A r \in Requests :
        /\ request[r].pc \in {"idle", "state", "session"} => request[r].need = <<>>
        /\ request[r].pc = "checked" => request[r].need = <<>>
        /\ request[r].pc = "session" => request[r].human \in Humans
        /\ request[r].pc = "state" => request[r].op = "sign_in"
        /\ Transaction(r) => Subjects(request[r]) /\ Ordered(request[r])

\* A row is locked by the transaction that has asked for it, until it ends.
LocksAreHeld ==
    \A l \in Locks, r \in Requests :
        holder[l] = r <=> Transaction(r) /\ l \in Owes(request[r]) /\ l \notin Needed(request[r])

-----------------------------------------------------------------------------
(* The rows.                                                                   *)

\* Who has a session, or asks for something, has a row.
HumansExist ==
    /\ \A h \in session : human[h].status # "absent"
    /\ \A r \in Requests :
        /\ request[r].pc = "session" => human[request[r].human].status # "absent"
        /\ Transaction(r) /\ request[r].op \in {"setup", "delete", "creator_token", "admin_token"} =>
              human[request[r].human].status # "absent"
        /\ Transaction(r) /\ request[r].op = "sign_in" /\ ~request[r].new =>
              human[request[r].human].status # "absent"

Left(c) == MaxUses[c] = -1 \/ Cardinality(code[c].uses) < MaxUses[c]

SomeRescinded == \E c \in Codes : code[c].status = "revoked" /\ code[c].uses \cap Humans # {}

AnotherAdmin(h) == \E x \in ActiveAdmins : x # h

\* What a transaction has read under its locks still holds when it writes.
Decided(r) ==
    LET q == request[r]
        h == q.human
    IN  CASE q.op = "sign_in" -> ~q.new => human[h].status # "deleted"
          [] q.op = "setup"   -> /\ human[h].status # "deleted"
                                 /\ SetupIsDone(h) \/ (Left(q.code) /\ code[q.code].status # "revoked")
          [] q.op = "grant_admin" -> human[h].status = "active"
          [] q.op = "revoke_admin" -> /\ human[h].status = "active"
                                      /\ AnotherAdmin(h) \/ SomeRescinded
          [] q.op = "delete" -> human[h].status # "deleted"
                                /\ (human[h].admin = "granted" => AnotherAdmin(h) \/ SomeRescinded)
          [] q.op = "register" -> PublicRegistration \/ (Left(q.code) /\ code[q.code].status # "revoked")
          [] OTHER -> TRUE

DecisionsHold ==
    \A r \in Requests : request[r].pc = "checked" =>
        /\ Decided(r)
        /\ request[r].bootstrap => request[r].op = "sign_in" /\ request[r].human \in BootstrapAdmins

DeletedHasNoRole ==
    \A h \in Humans : human[h].status = "deleted" => human[h].admin # "granted" /\ human[h].creator # "granted"

RegisteredExist ==
    \A c \in Codes, a \in Agents : a \in code[c].uses => agent[a].status # "absent"

UsesAreFinite == \A c \in Codes : IsFiniteSet(code[c].uses)

-----------------------------------------------------------------------------
(* Sequences of rows.                                                          *)

LEMMA TailTakesOne ==
  ASSUME NEW S, NEW s \in Seq(S), s # <<>>,
         \A i, k \in DOMAIN s : i < k => s[i] # s[k]
  PROVE  /\ Head(s) \in S /\ Tail(s) \in Seq(S)
         /\ {Tail(s)[i] : i \in DOMAIN Tail(s)} = {s[i] : i \in DOMAIN s} \ {Head(s)}
<1> DEFINE n == Len(s)
<1>1. n \in Nat /\ n >= 1 /\ DOMAIN s = 1..n /\ Head(s) = s[1] /\ Head(s) \in S
  BY DEF n
<1>2. Tail(s) \in Seq(S) /\ DOMAIN Tail(s) = 1..(n - 1) /\ \A i \in 1..(n - 1) : Tail(s)[i] = s[i + 1]
  BY <1>1
<1> HIDE DEF n
<1>3. ASSUME NEW i \in DOMAIN s, s[i] # Head(s) PROVE s[i] \in {Tail(s)[k] : k \in DOMAIN Tail(s)}
  <2>1. i - 1 \in 1..(n - 1) /\ Tail(s)[i - 1] = s[i]
    BY <1>1, <1>2, <1>3
  <2> QED
    BY <1>2, <2>1
<1>4. ASSUME NEW i \in DOMAIN Tail(s) PROVE Tail(s)[i] \in {s[k] : k \in DOMAIN s} \ {Head(s)}
  <2>1. i + 1 \in 1..n /\ Tail(s)[i] = s[i + 1] /\ 1 < i + 1
    BY <1>1, <1>2
  <2> QED
    BY <1>1, <2>1
<1> QED
  BY <1>1, <1>2, <1>3, <1>4

LEMMA PairsAndSingles ==
  ASSUME NEW a, NEW b
  PROVE  /\ <<a, b>> # <<>> /\ Head(<<a, b>>) = a /\ Tail(<<a, b>>) = <<b>>
         /\ <<a>> # <<>> /\ Head(<<a>>) = a /\ Tail(<<a>>) = <<>>
         /\ {<<a, b>>[i] : i \in DOMAIN <<a, b>>} = {a, b}
         /\ {<<a>>[i] : i \in DOMAIN <<a>>} = {a}
         /\ {<<>>[i] : i \in DOMAIN <<>>} = {}
<1>1. DOMAIN <<a, b>> = 1..2 /\ DOMAIN <<a>> = 1..1 /\ DOMAIN <<>> = 1..0
  OBVIOUS
<1>2. <<a, b>>[1] = a /\ <<a, b>>[2] = b /\ <<a>>[1] = a
  OBVIOUS
<1>3. 1..2 = {1, 2} /\ 1..1 = {1} /\ 1..0 = {}
  OBVIOUS
<1>4. {<<a, b>>[i] : i \in DOMAIN <<a, b>>} = {a, b} /\ {<<a>>[i] : i \in DOMAIN <<a>>} = {a}
  BY <1>1, <1>2, <1>3
<1>5. {<<>>[i] : i \in DOMAIN <<>>} = {}
  BY <1>1, <1>3
<1> QED
  BY <1>4, <1>5

LEMMA RowNames ==
  /\ BA \in Locks /\ AA \in Locks /\ Humans \subseteq Locks /\ Codes \subseteq Locks
  /\ BA \notin Humans \cup Codes /\ AA \notin Humans \cup Codes /\ BA # AA
  /\ \A h \in Humans : h \notin Codes /\ h # BA /\ h # AA
  /\ \A c \in Codes : c \notin Humans /\ c # BA /\ c # AA
  /\ NoId \notin Humans /\ NoId \notin Codes /\ NoId \notin Requests
  BY RowsAssumption, NoIdAssumption DEF Locks, Scopes, BA, AA

\* The rows a revocation goes on to lock.
LEMMA UsersAreRows ==
  ASSUME UsesAreFinite, NEW c \in Codes, NEW q \in UsersById(c)
  PROVE  /\ q \in Seq(code[c].uses \cap Humans)
         /\ \A i, k \in DOMAIN q : i < k => IdOf[q[i]] < IdOf[q[k]]
         /\ \A h \in code[c].uses \cap Humans : \E i \in DOMAIN q : q[i] = h
<1> DEFINE users == code[c].uses \cap Humans
<1>1. Cardinality(users) \in Nat
  <2>1. IsFiniteSet(users)
    BY FS_Subset DEF UsesAreFinite
  <2> QED
    BY <2>1, FS_CardinalityType
<1> HIDE DEF users
<1>2. /\ q \in [1..Cardinality(users) -> users]
      /\ \A i, k \in DOMAIN q : i < k => IdOf[q[i]] < IdOf[q[k]]
      /\ \A h \in users : \E i \in DOMAIN q : q[i] = h
  BY DEF UsersById, users
<1>3. q \in Seq(users)
  BY <1>1, <1>2
<1> QED
  BY <1>2, <1>3 DEF users

-----------------------------------------------------------------------------
(* The kinds of steps.                                                         *)

RowsStay == UNCHANGED <<accounts, code, agent>>

\* No other request moves.
Alone(r) == \E q : request' = [request EXCEPT ![r] = q]

\* A transaction q begins, and all the locks it owes are ahead.
Begins(q) ==
    /\ q.pc = "locking" /\ q \in RequestType
    /\ Subjects(q) /\ Ordered(q) /\ Needed(q) = Owes(q)

Starts(r) ==
    /\ request[r].pc \in {"idle", "state"} /\ Begins(request'[r])
    /\ holder' = holder /\ RowsStay

\* A transaction commits or is rolled back.
Finishes(r) ==
    /\ Transaction(r) /\ holder' = Release(r)
    /\ request'[r] = Idle \/ (request'[r] = [request[r] EXCEPT !.pc = "session"] /\ request[r].pc = "checked"
                              /\ request[r].op = "sign_in")

\* A step outside of a transaction.
Passes(r) ==
    /\ request[r].pc \in {"idle", "state", "session"} /\ holder' = holder
    /\ request'[r] \in {Idle, [Idle EXCEPT !.op = "sign_in", !.pc = "state"]}

LEMMA RowsAhead ==
  ASSUME NEW q,
         \/ q.need = <<>> /\ Owes(q) = {}
         \/ \E a : q.need = <<a>> /\ Owes(q) = {a}
         \/ \E a, b : q.need = <<a, b>> /\ Owes(q) = {a, b} /\ Before(q, a, b)
  PROVE  Needed(q) = Owes(q) /\ Ordered(q)
<1>1. CASE q.need = <<>> /\ Owes(q) = {}
  <2>1. Needed(q) = {} /\ DOMAIN q.need = {}
    BY <1>1, PairsAndSingles DEF Needed
  <2> QED
    BY <1>1, <2>1 DEF Ordered
<1>2. ASSUME NEW a, q.need = <<a>>, Owes(q) = {a}
      PROVE  Needed(q) = Owes(q) /\ Ordered(q)
  <2>1. Needed(q) = {a} /\ DOMAIN q.need = {1}
    BY <1>2, PairsAndSingles DEF Needed
  <2> QED
    BY <1>2, <2>1 DEF Ordered
<1>3. ASSUME NEW a, NEW b, q.need = <<a, b>>, Owes(q) = {a, b}, Before(q, a, b)
      PROVE  Needed(q) = Owes(q) /\ Ordered(q)
  <2>1. Needed(q) = {a, b} /\ DOMAIN q.need = {1, 2} /\ q.need[1] = a /\ q.need[2] = b
    BY <1>3, PairsAndSingles DEF Needed
  <2>2. \A i, k \in {1, 2} : i < k => i = 1 /\ k = 2
    OBVIOUS
  <2> QED
    BY <1>3, <2>1, <2>2 DEF Ordered
<1> QED
  BY <1>1, <1>2, <1>3

\* What a handler writes to memory as its transaction begins.
LEMMA BeginWrites ==
  ASSUME TypeOK, NEW r \in Requests, NEW op, NEW h, NEW c, NEW need, Begin(r, op, h, c, need)
  PROVE  /\ request'[r].pc = "locking" /\ request'[r].op = op /\ request'[r].human = h
         /\ request'[r].code = c /\ request'[r].need = need
<1>1. request \in [Requests -> RequestType]
  BY DEF TypeOK
<1>2. request'[r] = [Idle EXCEPT !.op = op, !.human = h, !.code = c, !.pc = "locking", !.need = need]
  BY <1>1 DEF Begin
<1> QED
  BY <1>2 DEF Idle

LEMMA BeginMoves ==
  ASSUME TypeOK, NEW r \in Requests, NEW op \in Ops, NEW h \in Humans \cup {NoId},
         NEW c \in Codes \cup {NoId}, NEW need \in Seq(Locks), Begin(r, op, h, c, need)
  PROVE  /\ request[r].pc = "idle" /\ Alone(r) /\ holder' = holder /\ RowsStay
         /\ request'[r] \in RequestType
<1>1. request \in [Requests -> RequestType]
  BY DEF TypeOK
<1>2. request'[r] = [Idle EXCEPT !.op = op, !.human = h, !.code = c, !.pc = "locking", !.need = need]
  BY <1>1 DEF Begin
<1>3. Alone(r) /\ holder' = holder /\ RowsStay /\ request[r].pc = "idle"
  BY <1>1 DEF Begin, Alone, RowsStay
<1> QED
  BY <1>2, <1>3 DEF RequestType, Idle

LEMMA HumanOpsStart ==
  ASSUME TypeOK, NEW r \in Requests, NEW h \in Humans, NEW op,
         \/ op \in BootstrapFirst /\ Begin(r, op, h, NoId, <<BA, h>>)
         \/ op \in {"creator_token", "admin_token"} /\ Begin(r, op, h, NoId, <<h>>)
  PROVE  Starts(r) /\ Alone(r) /\ request'[r].op = op /\ request'[r].human = h
<1> DEFINE q == request'[r]
<1>1. CASE op \in BootstrapFirst /\ Begin(r, op, h, NoId, <<BA, h>>)
  <2>1. request[r].pc = "idle" /\ Alone(r) /\ holder' = holder /\ RowsStay /\ q \in RequestType
    <3>1. <<BA, h>> \in Seq(Locks) /\ op \in Ops
      BY <1>1, RowNames DEF BootstrapFirst, Ops
    <3> QED
      BY <1>1, <3>1, BeginMoves
  <2>2. q.pc = "locking" /\ q.op = op /\ q.human = h /\ q.code = NoId /\ q.need = <<BA, h>>
    BY <1>1, BeginWrites, Zenon
  <2> HIDE DEF q
  <2>3. Owes(q) = {BA, h} /\ Before(q, BA, h) /\ Subjects(q)
    BY <1>1, <2>2, RowNames DEF Owes, Before, Subjects, PersonOps, BootstrapFirst
  <2>4. Needed(q) = Owes(q) /\ Ordered(q)
    BY <2>2, <2>3, RowsAhead, Zenon
  <2> QED
    BY <2>1, <2>2, <2>3, <2>4 DEF Starts, Begins, q
<1>2. CASE op \in {"creator_token", "admin_token"} /\ Begin(r, op, h, NoId, <<h>>)
  <2>1. request[r].pc = "idle" /\ Alone(r) /\ holder' = holder /\ RowsStay /\ q \in RequestType
    <3>1. <<h>> \in Seq(Locks) /\ op \in Ops
      BY <1>2, RowNames DEF Ops
    <3> QED
      BY <1>2, <3>1, BeginMoves
  <2>2. q.pc = "locking" /\ q.op = op /\ q.human = h /\ q.code = NoId /\ q.need = <<h>>
    BY <1>2, BeginWrites, Zenon
  <2> HIDE DEF q
  <2>3. Owes(q) = {h} /\ Subjects(q)
    BY <1>2, <2>2, RowNames DEF Owes, Before, Subjects, PersonOps, BootstrapFirst
  <2>4. Needed(q) = Owes(q) /\ Ordered(q)
    BY <2>2, <2>3, RowsAhead, Zenon
  <2> QED
    BY <2>1, <2>2, <2>3, <2>4 DEF Starts, Begins, q
<1> QED
  BY <1>1, <1>2

LEMMA SetupStarts ==
  ASSUME TypeOK, NEW r \in Requests, NEW h \in Humans, NEW c \in Codes, Setup(r, h, c)
  PROVE  Starts(r) /\ Alone(r) /\ request'[r].op = "setup" /\ request'[r].human = h
<1> DEFINE q == request'[r]
<1>1. Begin(r, "setup", h, c, <<h, c>>) /\ "setup" \in Ops
  BY DEF Setup, HumanThenCode, Ops
<1>2. request[r].pc = "idle" /\ Alone(r) /\ holder' = holder /\ RowsStay /\ q \in RequestType
  <2>1. <<h, c>> \in Seq(Locks)
    BY RowNames
  <2> QED
    BY <1>1, <2>1, BeginMoves
<1>3. q.pc = "locking" /\ q.op = "setup" /\ q.human = h /\ q.code = c /\ q.need = <<h, c>>
  BY <1>1, BeginWrites, Zenon
<1> HIDE DEF q
<1>4. Owes(q) = {h, c} /\ Before(q, h, c) /\ Subjects(q)
  BY <1>3, RowNames DEF Owes, Before, Subjects, PersonOps, BootstrapFirst
<1>5. Needed(q) = Owes(q) /\ Ordered(q)
  BY <1>3, <1>4, RowsAhead, Zenon
<1> QED
  BY <1>2, <1>3, <1>4, <1>5 DEF Starts, Begins, q

LEMMA RevokeCodeStarts ==
  ASSUME TypeOK, NEW r \in Requests, NEW c \in Codes, RevokeCode(r, c)
  PROVE  Starts(r) /\ Alone(r) /\ request'[r].op = "revoke_code"
<1> DEFINE q == request'[r]
<1>1. Begin(r, "revoke_code", NoId, c, <<c>>) /\ "revoke_code" \in Ops
  BY DEF RevokeCode, Ops
<1>2. request[r].pc = "idle" /\ Alone(r) /\ holder' = holder /\ RowsStay /\ q \in RequestType
  <2>1. <<c>> \in Seq(Locks)
    BY RowNames
  <2> QED
    BY <1>1, <2>1, BeginMoves
<1>3. q.pc = "locking" /\ q.op = "revoke_code" /\ q.human = NoId /\ q.code = c /\ q.need = <<c>>
  BY <1>1, BeginWrites, Zenon
<1> HIDE DEF q
<1>4. Needed(q) = {c}
  BY <1>3, PairsAndSingles DEF Needed
<1>5. Owes(q) = {c} /\ Subjects(q)
  BY <1>3, <1>4, RowNames DEF Owes, Subjects, PersonOps, BootstrapFirst
<1>6. Needed(q) = Owes(q) /\ Ordered(q)
  BY <1>3, <1>5, RowsAhead, Zenon
<1> QED
  BY <1>2, <1>3, <1>5, <1>6 DEF Starts, Begins, q

LEMMA RegisterStarts ==
  ASSUME TypeOK, NEW r \in Requests, NEW c \in Codes, Register(r, c)
  PROVE  Starts(r) /\ Alone(r) /\ request'[r].op = "register"
<1> DEFINE q == request'[r]
           need == AgentsThenCode(c)
<1>1. Begin(r, "register", NoId, c, need) /\ "register" \in Ops
  BY DEF Register, Ops
<1>2. need = IF PublicRegistration THEN <<AA>> ELSE <<AA, c>>
  BY DEF AgentsThenCode, AA
<1>3. need \in Seq(Locks)
  BY <1>2, RowNames
<1> HIDE DEF need
<1>4. request[r].pc = "idle" /\ Alone(r) /\ holder' = holder /\ RowsStay /\ q \in RequestType
  BY <1>1, <1>3, BeginMoves
<1>5. q.pc = "locking" /\ q.op = "register" /\ q.human = NoId /\ q.code = c /\ q.need = need
  BY <1>1, BeginWrites, Zenon
<1> HIDE DEF q
<1>6. Owes(q) = (IF PublicRegistration THEN {AA} ELSE {AA, c}) /\ Before(q, AA, c) /\ Subjects(q)
  BY <1>5, RowNames DEF Owes, Before, Subjects, PersonOps, BootstrapFirst
<1>7. Needed(q) = Owes(q) /\ Ordered(q)
  <2>1. CASE PublicRegistration
    BY <1>2, <1>5, <1>6, <2>1, RowsAhead, Zenon
  <2>2. CASE ~PublicRegistration
    BY <1>2, <1>5, <1>6, <2>2, RowsAhead, Zenon
  <2> QED
    BY <2>1, <2>2
<1> QED
  BY <1>4, <1>5, <1>6, <1>7 DEF Starts, Begins, q

LEMMA Concatenations ==
  ASSUME NEW h \in Humans
  PROVE  /\ <<>> \o <<BA>> = <<BA>> /\ <<>> \o <<>> = <<>> /\ <<h>> \o <<>> = <<h>>
         /\ <<h>> \o <<BA>> = <<h, BA>>
         /\ <<BA>> \in Seq(Locks) /\ <<>> \in Seq(Locks) /\ <<h, BA>> \in Seq(Locks) /\ <<h>> \in Seq(Locks)
<1>1. <<BA>> \in Seq(Locks) /\ <<>> \in Seq(Locks) /\ <<h, BA>> \in Seq(Locks) /\ <<h>> \in Seq(Locks)
  BY RowNames
<1>2. <<>> \o <<BA>> = <<BA>> /\ <<>> \o <<>> = <<>> /\ <<h>> \o <<>> = <<h>>
  BY <1>1, ConcatEmptySeq, Zenon
<1>3. <<h>> \o <<BA>> = <<h, BA>>
  <2> DEFINE s == <<h>> \o <<BA>>
             t == <<h, BA>>
  <2>1. Len(<<h>>) = 1 /\ Len(<<BA>>) = 1 /\ <<h>>[1] = h /\ <<BA>>[1] = BA
    OBVIOUS
  <2>2. /\ s \in Seq(Locks) /\ Len(s) = 2
        /\ \A i \in 1..2 : s[i] = IF i <= 1 THEN <<h>>[i] ELSE <<BA>>[i - 1]
    BY <1>1, <2>1, ConcatProperties
  <2>3. t \in Seq(Locks) /\ Len(t) = 2 /\ t[1] = h /\ t[2] = BA
    BY <1>1
  <2> HIDE DEF s, t
  <2>4. s[1] = h /\ s[2] = BA
    BY <2>1, <2>2
  <2>5. \A i \in 1..2 : s[i] = t[i]
    <3>1. 1..2 = {1, 2}
      OBVIOUS
    <3> QED
      BY <2>3, <2>4, <3>1
  <2>6. s = t
    BY <2>2, <2>3, <2>5, SeqEqual
  <2> QED
    BY <2>6 DEF s, t
<1> QED
  BY <1>1, <1>2, <1>3

LEMMA CallbackStarts ==
  ASSUME TypeOK, Transactions, NEW r \in Requests, NEW h \in Humans, Callback(r, h)
  PROVE  /\ Starts(r) /\ Alone(r) /\ request'[r].op = "sign_in" /\ request'[r].human = h
         /\ request'[r].new <=> human[h].status = "absent"
<1> DEFINE need == HumanThenBootstrap(h)
           fresh == human[h].status = "absent"
           q == request'[r]
<1>1. /\ request \in [Requests -> RequestType] /\ request[r].pc = "state" /\ request[r].op = "sign_in"
      /\ request[r] \in RequestType
  BY DEF TypeOK, Transactions, Callback
<1>2. q = [request[r] EXCEPT !.pc = "locking", !.human = h, !.new = fresh, !.need = need]
  BY <1>1 DEF Callback
<1>3. /\ need = (IF fresh THEN <<>> ELSE <<h>>) \o (IF h \in BootstrapAdmins THEN <<BA>> ELSE <<>>)
      /\ fresh \in BOOLEAN
  BY DEF HumanThenBootstrap, BA
<1>4. Alone(r) /\ holder' = holder /\ RowsStay
  BY <1>1 DEF Callback, Alone, RowsStay
<1> HIDE DEF need, fresh, q
<1>5. need \in Seq(Locks) => q \in RequestType
  BY <1>1, <1>2, <1>3 DEF RequestType
<1>6. q.pc = "locking" /\ q.op = "sign_in" /\ q.human = h /\ q.need = need
  BY <1>1, <1>2 DEF RequestType
<1>7. q.new <=> fresh
  BY <1>1, <1>2, <1>3 DEF RequestType
<1>8. Subjects(q) /\ Before(q, h, BA)
  BY <1>6 DEF Subjects, Before, PersonOps, BootstrapFirst
<1>9. need \in Seq(Locks) /\ Needed(q) = Owes(q) /\ Ordered(q)
  <2>1. CASE fresh /\ h \in BootstrapAdmins
    <3>1. need = <<BA>>
      BY <1>3, <2>1, Concatenations, Zenon
    <3>2. Owes(q) = {BA}
      BY <1>6, <1>7, <2>1, RowNames DEF Owes, PersonOps, BootstrapFirst
    <3> QED
      BY <1>6, <3>1, <3>2, RowsAhead, Concatenations, Zenon
  <2>2. CASE fresh /\ h \notin BootstrapAdmins
    <3>1. need = <<>>
      BY <1>3, <2>2, Concatenations, Zenon
    <3>2. Owes(q) = {}
      BY <1>6, <1>7, <2>2, RowNames DEF Owes, PersonOps, BootstrapFirst
    <3> QED
      BY <1>6, <3>1, <3>2, RowsAhead, Concatenations, Zenon
  <2>3. CASE ~fresh /\ h \in BootstrapAdmins
    <3>1. need = <<h, BA>>
      BY <1>3, <2>3, Concatenations, Zenon
    <3>2. Owes(q) = {h, BA}
      BY <1>6, <1>7, <2>3, RowNames DEF Owes, PersonOps, BootstrapFirst
    <3> QED
      BY <1>6, <1>8, <3>1, <3>2, RowsAhead, Concatenations, Zenon
  <2>4. CASE ~fresh /\ h \notin BootstrapAdmins
    <3>1. need = <<h>>
      BY <1>3, <2>4, Concatenations, Zenon
    <3>2. Owes(q) = {h}
      BY <1>6, <1>7, <2>4, RowNames DEF Owes, PersonOps, BootstrapFirst
    <3> QED
      BY <1>6, <3>1, <3>2, RowsAhead, Concatenations, Zenon
  <2> QED
    BY <2>1, <2>2, <2>3, <2>4
<1>10. request[r].pc = "state"
  BY <1>1
<1> QED
  BY <1>4, <1>5, <1>6, <1>7, <1>8, <1>9, <1>10 DEF Starts, Begins, fresh, q

\* Every step of a request is of one kind, and moves no other request.
LEMMA Kinds ==
  ASSUME TypeOK, Transactions, NEW r \in Requests, RequestStep(r)
  PROVE  /\ Alone(r)
         /\ Starts(r) \/ Acquire(r) \/ Check(r) \/ Finishes(r) \/ Passes(r)
<1>1. request \in [Requests -> RequestType] /\ request[r] \in RequestType
  BY DEF TypeOK
<1>2. CASE StartLogin(r) \/ LoginFails(r) \/ IssueSession(r)
  BY <1>1, <1>2 DEF StartLogin, LoginFails, IssueSession, Passes, Alone
<1>3. CASE Acquire(r) \/ Check(r)
  BY <1>1, <1>3 DEF Acquire, Check, Alone
<1>4. CASE Rollback(r)
  BY <1>1, <1>4 DEF Rollback, Finishes, Alone, Transaction
<1>5. CASE ResolveHuman(r)
  BY <1>1, <1>5 DEF ResolveHuman, Finishes, Alone, Transaction
<1>6. CASE \E op \in Ops : Ends(r, op)
  BY <1>1, <1>6 DEF Ends, Finishes, Alone, Transaction
<1>7. CASE \/ CompleteSetup(r) \/ GrantAdmin(r) \/ RevokeAdmin(r) \/ DeleteHuman(r) \/ IssueCreatorToken(r)
           \/ IssueAdminToken(r) \/ RescindCode(r) \/ \E a \in Agents : RegisterAgent(r, a)
  <2>1. \E op \in Ops : Ends(r, op)
    BY <1>7 DEF CompleteSetup, GrantAdmin, RevokeAdmin, DeleteHuman, IssueCreatorToken, IssueAdminToken,
               RescindCode, RegisterAgent, Ops
  <2> QED
    BY <1>6, <2>1
<1>8. CASE \E h \in Humans : Callback(r, h)
  BY <1>8, CallbackStarts
<1>9. CASE \E h \in Humans : DeleteAccount(r, h) \/ CreateCreatorToken(r, h) \/ CreateAdminToken(r, h)
  <2>1. PICK h \in Humans : DeleteAccount(r, h) \/ CreateCreatorToken(r, h) \/ CreateAdminToken(r, h)
    BY <1>9
  <2>2. \/ Begin(r, "delete", h, NoId, <<BA, h>>)
        \/ \E op \in {"creator_token", "admin_token"} : Begin(r, op, h, NoId, <<h>>)
    BY <2>1 DEF DeleteAccount, CreateCreatorToken, CreateAdminToken, BootstrapThenHuman, HumanOnly, BA
  <2> QED
    BY <2>2, HumanOpsStart DEF BootstrapFirst
<1>10. CASE \E by, h \in Humans, op \in {"grant_admin", "revoke_admin"} : ManageAdmin(r, op, by, h)
  BY <1>10, HumanOpsStart DEF ManageAdmin, BootstrapThenHuman, BA, BootstrapFirst
<1>11. CASE \E c \in Codes : RevokeCode(r, c) \/ Register(r, c) \/ \E h \in Humans : Setup(r, h, c)
  BY <1>11, RevokeCodeStarts, RegisterStarts, SetupStarts
<1> QED
  BY <1>2, <1>3, <1>4, <1>5, <1>7, <1>8, <1>9, <1>10, <1>11 DEF RequestStep

-----------------------------------------------------------------------------
(* Taking a lock.                                                              *)

LEMMA BeforeIsStrict ==
  ASSUME NEW q, Subjects(q), NEW l, NEW m, Before(q, l, m)
  PROVE  l # m
<1>1. CASE q.op = "sign_in" \/ q.op \in BootstrapFirst
  <2>1. q.human \in Humans
    BY <1>1 DEF Subjects, PersonOps
  <2> QED
    BY <1>1, <2>1, RowNames DEF Before, BootstrapFirst
<1>2. CASE q.op = "setup" \/ q.op = "register"
  <2>1. q.code \in Codes /\ (q.op = "setup" => q.human \in Humans)
    BY <1>2 DEF Subjects, PersonOps
  <2> QED
    BY <1>2, <2>1, RowNames DEF Before, BootstrapFirst
<1>3. CASE q.op = "revoke_code"
  <2>1. q.code \in Codes /\ m \in Humans /\ (l = q.code \/ (l \in Humans /\ IdOf[l] < IdOf[m]))
    BY <1>3 DEF Subjects, Before, BootstrapFirst
  <2> QED
    BY <2>1, RowNames, HumansAssumption
<1> QED
  BY <1>1, <1>2, <1>3 DEF Before

\* A lock that is taken is the first one ahead; what is ahead stays in order.
LEMMA TakesNext ==
  ASSUME TypeOK, NEW q \in RequestType, Subjects(q), Ordered(q), q.need # <<>>,
         ~(q.op = "revoke_code" /\ Head(q.need) = q.code),
         NEW p, p = [q EXCEPT !.need = Tail(q.need)]
  PROVE  /\ p \in RequestType /\ Subjects(p) /\ Ordered(p)
         /\ Needed(p) = Needed(q) \ {Head(q.need)} /\ Owes(p) = Owes(q)
         /\ Head(q.need) \in Needed(q)
<1> DEFINE s == q.need
           l == Head(q.need)
<1>1. s \in Seq(Locks) /\ Needed(q) = {s[i] : i \in DOMAIN s}
  BY DEF RequestType, Needed
<1>2. \A i, k \in DOMAIN s : i < k => Before(q, s[i], s[k])
  BY DEF Ordered
<1>3. l \in Locks /\ Tail(s) \in Seq(Locks) /\ {Tail(s)[i] : i \in DOMAIN Tail(s)} = Needed(q) \ {l}
  BY <1>1, <1>2, BeforeIsStrict, TailTakesOne
<1>4. /\ p.op = q.op /\ p.human = q.human /\ p.code = q.code /\ p.new = q.new /\ p.need = Tail(s)
      /\ p \in RequestType
  BY <1>3 DEF RequestType
<1>5. Needed(p) = Needed(q) \ {l}
  BY <1>3, <1>4 DEF Needed
<1>6. /\ DOMAIN Tail(s) = 1..(Len(s) - 1) /\ DOMAIN s = 1..Len(s) /\ Len(s) \in Nat /\ 1 \in DOMAIN s /\ l = s[1]
      /\ \A i \in DOMAIN Tail(s) : i + 1 \in DOMAIN s /\ Tail(s)[i] = s[i + 1]
  BY <1>1
<1> HIDE DEF s, l
<1>7. l \in Needed(q)
  BY <1>1, <1>6
<1>8. Subjects(p)
  BY <1>4 DEF Subjects
<1>9. Owes(p) = Owes(q)
  <2>1. q.op = "revoke_code" => (q.code \in Needed(p) <=> q.code \in Needed(q))
    BY <1>5 DEF s, l
  <2> QED
    BY <1>4, <2>1 DEF Owes
<1>10. \A a, b : Before(p, a, b) <=> Before(q, a, b)
  BY <1>4 DEF Before
<1>11. Ordered(p)
  <2>1. Needed(p) \subseteq Owes(p)
    BY <1>5, <1>9 DEF Ordered
  <2>2. ASSUME NEW i \in DOMAIN p.need, NEW k \in DOMAIN p.need, i < k
        PROVE  Before(p, p.need[i], p.need[k])
    <3>1. /\ i + 1 \in DOMAIN s /\ k + 1 \in DOMAIN s /\ i + 1 < k + 1
          /\ p.need[i] = s[i + 1] /\ p.need[k] = s[k + 1]
      BY SMTT(30), <1>4, <1>6, <2>2
    <3> QED
      BY <1>2, <1>10, <3>1
  <2>3. ASSUME NEW a \in Owes(p) \ Needed(p), NEW m \in Needed(p)
        PROVE  Before(p, a, m)
    <3>1. CASE a = l
      <4>1. PICK i \in DOMAIN Tail(s) : m = Tail(s)[i]
        BY <1>4 DEF Needed
      <4>2. i + 1 \in DOMAIN s /\ 1 < i + 1 /\ m = s[i + 1]
        BY <1>6, <4>1
      <4> QED
        BY <1>2, <1>6, <1>10, <3>1, <4>2
    <3>2. CASE a # l
      BY <1>5, <1>9, <1>10, <2>3, <3>2 DEF Ordered
    <3> QED
      BY <3>1, <3>2
  <2> QED
    BY <2>1, <2>2, <2>3 DEF Ordered
<1> QED
  BY <1>4, <1>5, <1>7, <1>8, <1>9, <1>11 DEF l, s

\* A revocation that has locked its code goes on with the humans who used it.
LEMMA TakesCode ==
  ASSUME TypeOK, UsesAreFinite, NEW q \in RequestType, Subjects(q), Ordered(q), q.need # <<>>,
         q.op = "revoke_code", Head(q.need) = q.code,
         NEW u \in UsersById(q.code), NEW p, p = [q EXCEPT !.need = u]
  PROVE  /\ p \in RequestType /\ Subjects(p) /\ Ordered(p)
         /\ Owes(p) \ Needed(p) = {q.code} /\ Owes(q) \ Needed(q) = {}
         /\ q.code \in Needed(q) /\ q.code \notin Needed(p)
<1> DEFINE c == q.code
           users == code[q.code].uses \cap Humans
<1>1. c \in Codes /\ c \in Locks /\ c \notin Humans
  BY RowNames DEF Subjects
<1>2. /\ u \in Seq(users) /\ \A h \in users : \E i \in DOMAIN u : u[i] = h
      /\ \A i, k \in DOMAIN u : i < k => IdOf[u[i]] < IdOf[u[k]]
  BY <1>1, UsersAreRows
<1>3. users \subseteq Humans /\ users \subseteq Locks
  BY RowNames
<1>4. Head(q.need) \in Needed(q)
  BY DEF RequestType, Needed
<1> HIDE DEF users
<1>5. u \in Seq(Locks) /\ \A i \in DOMAIN u : u[i] \in users
  BY <1>2, <1>3, ElementOfSeq, LenProperties
<1>6. p.op = q.op /\ p.human = q.human /\ p.code = c /\ p.new = q.new /\ p.need = u /\ p \in RequestType
  BY <1>5 DEF RequestType
<1>7. Needed(p) = users
  BY <1>2, <1>5, <1>6 DEF Needed
<1>8. Owes(q) = {c} /\ Needed(q) = {c}
  <2>1. Owes(q) = {c}
    BY <1>1, <1>4 DEF Owes, PersonOps, BootstrapFirst
  <2> QED
    BY <1>4, <2>1 DEF Ordered
<1>9. Owes(p) = {c} \cup users
  <2>1. c \notin Needed(p)
    BY <1>1, <1>3, <1>7
  <2> QED
    BY <1>1, <1>3, <1>6, <2>1 DEF Owes, PersonOps, BootstrapFirst, users
<1>10. Ordered(p)
  <2>1. \A i, k \in DOMAIN p.need : i < k => Before(p, p.need[i], p.need[k])
    BY <1>2, <1>3, <1>5, <1>6 DEF Before
  <2>2. \A l \in Owes(p) \ Needed(p), m \in Needed(p) : Before(p, l, m)
    BY <1>3, <1>6, <1>7, <1>9 DEF Before
  <2> QED
    BY <1>7, <1>9, <2>1, <2>2 DEF Ordered
<1>11. Subjects(p)
  BY <1>6 DEF Subjects
<1> QED
  BY <1>1, <1>3, <1>6, <1>7, <1>8, <1>9, <1>10, <1>11

LEMMA AcquireMoves ==
  ASSUME TypeOK, Transactions, UsesAreFinite, NEW r \in Requests, Acquire(r)
  PROVE  /\ Subjects(request'[r]) /\ Ordered(request'[r]) /\ request'[r] \in RequestType
         /\ request[r].pc = "locking" /\ request'[r].pc = "locking"
         /\ \E l \in Locks :
               /\ holder[l] = NoId /\ holder' = [holder EXCEPT ![l] = r]
               /\ l \notin Owes(request[r]) \ Needed(request[r])
               /\ Owes(request'[r]) \ Needed(request'[r]) = (Owes(request[r]) \ Needed(request[r])) \cup {l}
<1> DEFINE q == request[r]
           p == request'[r]
           l == Head(q.need)
<1>1. /\ request \in [Requests -> RequestType] /\ q \in RequestType /\ q.pc = "locking" /\ q.need # <<>>
      /\ Subjects(q) /\ Ordered(q)
  BY DEF TypeOK, Transactions, Acquire, Transaction
<1>2. holder[l] = NoId /\ holder' = [holder EXCEPT ![l] = r]
  BY DEF Acquire
<1>3. l \in Locks /\ l \in Needed(q) /\ Needed(q) \subseteq Owes(q)
  BY <1>1 DEF RequestType, Needed, Ordered
<1>4. CASE ~(q.op = "revoke_code" /\ l = q.code)
  <2>1. p = [q EXCEPT !.need = Tail(q.need)]
    BY <1>1, <1>4 DEF Acquire
  <2>2. /\ p \in RequestType /\ Subjects(p) /\ Ordered(p)
        /\ Needed(p) = Needed(q) \ {l} /\ Owes(p) = Owes(q)
    BY <1>1, <1>4, <2>1, TakesNext
  <2>3. p.pc = "locking"
    BY <1>1, <2>1 DEF RequestType
  <2> QED
    BY <1>1, <1>2, <1>3, <2>2, <2>3
<1>5. CASE q.op = "revoke_code" /\ l = q.code
  <2>1. PICK u \in UsersById(q.code) : p = [q EXCEPT !.need = u]
    BY <1>1, <1>5 DEF Acquire
  <2>2. /\ p \in RequestType /\ Subjects(p) /\ Ordered(p)
        /\ Owes(p) \ Needed(p) = {q.code} /\ Owes(q) \ Needed(q) = {}
    BY <1>1, <1>5, <2>1, TakesCode
  <2>3. p.pc = "locking"
    BY <1>1, <2>1 DEF RequestType
  <2> QED
    BY <1>1, <1>2, <1>3, <1>5, <2>2, <2>3
<1> QED
  BY <1>4, <1>5

-----------------------------------------------------------------------------
(* Types.                                                                      *)

RowTypes ==
    /\ human \in [Humans -> HumanType]
    /\ session \subseteq Humans /\ creatorToken \subseteq Humans /\ adminToken \subseteq Humans
    /\ code \in [Codes -> CodeType]
    /\ agent \in [Agents -> AgentType]

LEMMA ProcessesTyped ==
  ASSUME TypeOK, Transactions, UsesAreFinite, NEW r \in Requests, RequestStep(r)
  PROVE  /\ request' \in [Requests -> RequestType] /\ holder' \in [Locks -> Requests \cup {NoId}]
         /\ \A x \in Requests : x # r => request'[x] = request[x]
<1>1. /\ request \in [Requests -> RequestType] /\ request[r] \in RequestType
      /\ holder \in [Locks -> Requests \cup {NoId}]
  BY DEF TypeOK
<1>2. <<>> \in Seq(Locks)
  OBVIOUS
<1>3. Idle \in RequestType
  BY <1>2 DEF Idle, RequestType, Ops
<1> DEFINE Typed == request'[r] \in RequestType /\ holder' \in [Locks -> Requests \cup {NoId}]
<1>4. ASSUME Starts(r) PROVE Typed
  BY <1>1, <1>4 DEF Starts, Begins
<1>5. ASSUME Acquire(r) PROVE Typed
  BY <1>1, <1>5, AcquireMoves
<1>6. ASSUME Check(r) PROVE Typed
  <2> DEFINE b == request[r].op = "sign_in" /\ request[r].human \in BootstrapAdmins /\ ActiveAdmins = {}
  <2>1. request'[r] = [request[r] EXCEPT !.pc = "checked", !.bootstrap = b] /\ b \in BOOLEAN
    BY <1>1, <1>6 DEF Check
  <2> HIDE DEF b
  <2>2. request'[r] \in RequestType
    BY <1>1, <2>1 DEF RequestType
  <2> QED
    BY <1>1, <1>6, <2>2 DEF Check
<1>7. ASSUME Finishes(r) PROVE Typed
  <2>1. request'[r] \in RequestType
    <3>1. CASE request'[r] = Idle
      BY <1>3, <3>1
    <3>2. CASE request'[r] = [request[r] EXCEPT !.pc = "session"]
      BY <1>1, <3>2 DEF RequestType
    <3> QED
      BY <1>7, <3>1, <3>2 DEF Finishes
  <2>2. holder' \in [Locks -> Requests \cup {NoId}]
    BY <1>1, <1>7 DEF Finishes, Release
  <2> QED
    BY <2>1, <2>2
<1>8. ASSUME Passes(r) PROVE Typed
  <2>1. request'[r] \in RequestType
    <3>1. CASE request'[r] = Idle
      BY <1>3, <3>1
    <3>2. CASE request'[r] = [Idle EXCEPT !.op = "sign_in", !.pc = "state"]
      BY <1>3, <3>2 DEF RequestType, Ops
    <3> QED
      BY <1>8, <3>1, <3>2 DEF Passes
  <2> QED
    BY <1>1, <1>8, <2>1 DEF Passes
<1>9. Typed
  BY <1>4, <1>5, <1>6, <1>7, <1>8, Kinds
<1>10. PICK q : request' = [request EXCEPT ![r] = q]
  BY Kinds DEF Alone
<1>11. q \in RequestType
  BY <1>1, <1>9, <1>10
<1> QED
  BY <1>1, <1>9, <1>10, <1>11

\* What a transaction writes at its end, and for whom.
LEMMA WritersAreChecked ==
  ASSUME Transactions, NEW r \in Requests, request[r].pc = "checked"
  PROVE  /\ Transaction(r) /\ Subjects(request[r]) /\ Needed(request[r]) = {}
         /\ request[r].op \in PersonOps \cup {"sign_in"} => request[r].human \in Humans
         /\ request[r].op \in {"setup", "revoke_code", "register"} => request[r].code \in Codes
<1>1. Transaction(r) /\ Subjects(request[r]) /\ request[r].need = <<>>
  BY DEF Transactions, Transaction
<1>2. Needed(request[r]) = {}
  BY <1>1, PairsAndSingles DEF Needed
<1> QED
  BY <1>1, <1>2 DEF Subjects

\* The row of a human who completed the setup is a row.
LEMMA ActivatedIsTyped ==
  ASSUME RowTypes, NEW h \in Humans
  PROVE  Activated(h) \in HumanType
<1>1. human[h] \in HumanType
  BY DEF RowTypes
<1> QED
  BY <1>1 DEF Activated, HumanType, RoleStates

LEMMA RowsTyped ==
  ASSUME TypeOK, Transactions, UsesAreFinite, NEW r \in Requests, RequestStep(r)
  PROVE  RowTypes' /\ UsesAreFinite'
<1>0. RowTypes
  BY DEF RowTypes, TypeOK
<1>1. CASE RowsStay
  BY <1>0, <1>1 DEF RowsStay, accounts, RowTypes, UsesAreFinite
<1>2. CASE ResolveHuman(r)
  <2>1. request[r].human \in Humans
    BY <1>2, WritersAreChecked DEF ResolveHuman
  <2>2. \A h \in Humans : /\ human[h] \in HumanType /\ Activated(h) \in HumanType
                          /\ [human[h] EXCEPT !.status = "setup_required"] \in HumanType
                          /\ [Activated(h) EXCEPT !.admin = "granted"] \in HumanType
    <3> SUFFICES ASSUME NEW h \in Humans
                 PROVE  /\ human[h] \in HumanType /\ Activated(h) \in HumanType
                        /\ [human[h] EXCEPT !.status = "setup_required"] \in HumanType
                        /\ [Activated(h) EXCEPT !.admin = "granted"] \in HumanType
      OBVIOUS
    <3>1. human[h] \in HumanType /\ Activated(h) \in HumanType
      BY <1>0, ActivatedIsTyped DEF RowTypes
    <3> QED
      BY <3>1 DEF HumanType, RoleStates
  <2>3. PICK m \in HumanType : human' = [human EXCEPT ![request[r].human] = m]
    BY <1>2, <2>1, <2>2 DEF ResolveHuman
  <2>4. human' \in [Humans -> HumanType]
    BY <1>0, <2>1, <2>3 DEF RowTypes
  <2> QED
    BY <1>0, <1>2, <2>4 DEF ResolveHuman, RowTypes, UsesAreFinite
<1>3. CASE IssueSession(r)
  <2>1. request[r].human \in Humans
    BY <1>3 DEF IssueSession, Transactions
  <2> QED
    BY <1>0, <1>3, <2>1 DEF IssueSession, RowTypes, UsesAreFinite
<1>4. CASE CompleteSetup(r)
  <2>1. request[r].human \in Humans /\ request[r].code \in Codes
    BY <1>4, WritersAreChecked DEF CompleteSetup, Ends, PersonOps
  <2>2. Activated(request[r].human) \in HumanType
    BY <1>0, <2>1, ActivatedIsTyped
  <2>3. IsFiniteSet(code[request[r].code].uses \cup {request[r].human})
    BY <2>1, FS_AddElement DEF UsesAreFinite
  <2>4. CASE SetupIsDone(request[r].human)
    BY <1>0, <1>4, <2>4 DEF CompleteSetup, RowTypes, UsesAreFinite
  <2>5. CASE ~SetupIsDone(request[r].human)
    <3>1. /\ human' = [human EXCEPT ![request[r].human] = Activated(request[r].human)]
          /\ code' = [code EXCEPT ![request[r].code].uses = @ \cup {request[r].human}]
          /\ UNCHANGED <<session, creatorToken, adminToken, agent>>
      BY <1>4, <2>5 DEF CompleteSetup, Consume
    <3>2. human' \in [Humans -> HumanType]
      BY <1>0, <2>1, <2>2, <3>1 DEF RowTypes
    <3>3. code' \in [Codes -> CodeType]
      BY <1>0, <2>1, <3>1 DEF RowTypes, CodeType
    <3>4. UsesAreFinite'
      <4>1. \A c \in Codes : code'[c].uses = IF c = request[r].code
                THEN code[c].uses \cup {request[r].human} ELSE code[c].uses
        BY <1>0, <2>1, <3>1 DEF RowTypes, CodeType
      <4> QED
        BY <2>3, <4>1 DEF UsesAreFinite
    <3> QED
      BY <1>0, <3>1, <3>2, <3>3, <3>4 DEF RowTypes
  <2> QED
    BY <2>4, <2>5
<1>5. CASE GrantAdmin(r) \/ RevokeAdmin(r)
  <2>1. request[r].human \in Humans
    BY <1>5, WritersAreChecked DEF GrantAdmin, RevokeAdmin, Ends, PersonOps, BootstrapFirst
  <2> QED
    BY SMTT(30), <1>0, <1>5, <2>1 DEF GrantAdmin, RevokeAdmin, RowTypes, UsesAreFinite, HumanType, RoleStates
<1>6. CASE DeleteHuman(r)
  <2>1. request[r].human \in Humans
    BY <1>6, WritersAreChecked DEF DeleteHuman, Ends, PersonOps, BootstrapFirst
  <2> QED
    BY <1>0, <1>6, <2>1 DEF DeleteHuman, RowTypes, UsesAreFinite, HumanType, RoleStates, RevokedRole
<1>7. CASE IssueCreatorToken(r) \/ IssueAdminToken(r)
  <2>1. request[r].human \in Humans
    BY <1>7, WritersAreChecked DEF IssueCreatorToken, IssueAdminToken, Ends, PersonOps
  <2> QED
    BY <1>0, <1>7, <2>1 DEF IssueCreatorToken, IssueAdminToken, RowTypes, UsesAreFinite
<1>8. CASE RescindCode(r)
  <2>1. request[r].code \in Codes
    BY <1>8, WritersAreChecked DEF RescindCode, Ends
  <2>2. \A h \in Humans : Rescinded(h) \in HumanType
    BY <1>0 DEF RowTypes, Rescinded, HumanType, RoleStates, RevokedRole
  <2>3. human' \in [Humans -> HumanType]
    BY <1>0, <1>8, <2>2 DEF RescindCode, RowTypes
  <2>4. code' \in [Codes -> CodeType] /\ \A c \in Codes : code'[c].uses = code[c].uses
    BY <1>0, <1>8, <2>1 DEF RescindCode, RowTypes, CodeType
  <2>5. agent' \in [Agents -> AgentType]
    BY <1>0, <1>8, <2>1 DEF RescindCode, RowTypes, AgentType
  <2>6. session' \subseteq Humans /\ creatorToken' \subseteq Humans /\ adminToken' \subseteq Humans
    BY <1>0, <1>8 DEF RescindCode, RowTypes
  <2> QED
    BY <2>3, <2>4, <2>5, <2>6 DEF RowTypes, UsesAreFinite
<1>9. CASE \E a \in Agents : RegisterAgent(r, a)
  <2>1. PICK a \in Agents : RegisterAgent(r, a)
    BY <1>9
  <2>2. request[r].code \in Codes
    BY <2>1, WritersAreChecked DEF RegisterAgent, Ends
  <2>3. IsFiniteSet(code[request[r].code].uses \cup {a})
    BY <2>2, FS_AddElement DEF UsesAreFinite
  <2>4. agent' \in [Agents -> AgentType] /\ UNCHANGED accounts
    BY <1>0, <2>1 DEF RegisterAgent, RowTypes, AgentType
  <2>5. code' = code \/ code' = [code EXCEPT ![request[r].code].uses = @ \cup {a}]
    BY <2>1 DEF RegisterAgent, Consume
  <2>6. code' \in [Codes -> CodeType]
    BY <1>0, <2>2, <2>5 DEF RowTypes, CodeType
  <2>7. UsesAreFinite'
    <3>1. CASE code' = code
      BY <3>1 DEF UsesAreFinite
    <3>2. CASE code' = [code EXCEPT ![request[r].code].uses = @ \cup {a}]
      <4>1. \A c \in Codes : code'[c].uses = IF c = request[r].code
                THEN code[c].uses \cup {a} ELSE code[c].uses
        BY <1>0, <2>2, <3>2 DEF RowTypes, CodeType
      <4> QED
        BY <2>3, <4>1 DEF UsesAreFinite
    <3> QED
      BY <2>5, <3>1, <3>2
  <2> QED
    BY <1>0, <2>4, <2>6, <2>7 DEF RowTypes, accounts
<1>10. \/ RowsStay \/ ResolveHuman(r) \/ IssueSession(r) \/ CompleteSetup(r) \/ GrantAdmin(r)
       \/ RevokeAdmin(r) \/ DeleteHuman(r) \/ IssueCreatorToken(r) \/ IssueAdminToken(r)
       \/ RescindCode(r) \/ \E a \in Agents : RegisterAgent(r, a)
  BY DEF RequestStep, StartLogin, LoginFails, Acquire, Check, Rollback, Callback, DeleteAccount,
         CreateCreatorToken, CreateAdminToken, Setup, ManageAdmin, RevokeCode, Register, Begin, RowsStay
<1> QED
  BY <1>1, <1>2, <1>3, <1>4, <1>5, <1>6, <1>7, <1>8, <1>9, <1>10

-----------------------------------------------------------------------------
(* The locks are held.                                                         *)

LocksInv == TypeOK /\ Transactions /\ LocksAreHeld /\ UsesAreFinite

\* Who decides and writes holds every lock it owes.
LEMMA CheckedHolds ==
  ASSUME LocksInv, NEW r \in Requests, request[r].pc = "checked", NEW l \in Owes(request[r])
  PROVE  holder[l] = r
<1>1. Transaction(r) /\ Needed(request[r]) = {} /\ l \in Locks
  BY WritersAreChecked DEF LocksInv, Owes
<1> QED
  BY <1>1 DEF LocksInv, LocksAreHeld

\* A code row is written under its lock.
LEMMA CodeWriters ==
  ASSUME LocksInv, NEW r \in Requests, RequestStep(r), NEW c \in Codes
  PROVE  code'[c] = code[c] \/ (holder[c] = r /\ request[r].pc = "checked")
<1>0. code \in [Codes -> CodeType]
  BY DEF LocksInv, TypeOK
<1>1. CASE UNCHANGED code
  BY <1>1
<1>2. CASE CompleteSetup(r) \/ RescindCode(r) \/ \E a \in Agents : RegisterAgent(r, a) /\ ~PublicRegistration
  <2>1. request[r].pc = "checked" /\ request[r].op \in {"setup", "revoke_code", "register"}
    BY <1>2 DEF CompleteSetup, RescindCode, RegisterAgent, Ends
  <2>2. request[r].code \in Codes
    BY <2>1, WritersAreChecked DEF LocksInv
  <2>3. request[r].code \in Owes(request[r])
    BY <1>2, <2>1, <2>2, RowNames DEF Owes, CompleteSetup, RescindCode, RegisterAgent, Ends
  <2>4. c # request[r].code => code'[c] = code[c]
    BY <1>0, <1>2, <2>2 DEF CompleteSetup, RescindCode, RegisterAgent, Consume
  <2> QED
    BY <2>1, <2>3, <2>4, CheckedHolds
<1>3. UNCHANGED code \/ CompleteSetup(r) \/ RescindCode(r) \/ \E a \in Agents : RegisterAgent(r, a) /\ ~PublicRegistration
  BY DEF RequestStep, StartLogin, LoginFails, Acquire, Check, Rollback, Callback, DeleteAccount,
         CreateCreatorToken, CreateAdminToken, Setup, ManageAdmin, RevokeCode, Register, Begin,
         ResolveHuman, IssueSession, GrantAdmin, RevokeAdmin, DeleteHuman, IssueCreatorToken,
         IssueAdminToken, RegisterAgent
<1> QED
  BY <1>1, <1>2, <1>3

\* The locks of a transaction are fixed while it holds them.
LEMMA OwesStay ==
  ASSUME LocksInv, NEW x \in Requests, Transaction(x), request'[x] = request[x],
         \A c \in Codes : holder[c] = x => code'[c].uses = code[c].uses
  PROVE  /\ Owes(request[x])' = Owes(request[x]) /\ Needed(request[x])' = Needed(request[x])
         /\ Transaction(x)' /\ Subjects(request[x])' /\ Ordered(request[x])'
<1> DEFINE q == request[x]
<1>1. Subjects(q) /\ Ordered(q)
  BY DEF LocksInv, Transactions
<1>2. q.op = "revoke_code" /\ q.code \notin Needed(q) => code'[q.code].uses = code[q.code].uses
  <2> SUFFICES ASSUME q.op = "revoke_code", q.code \notin Needed(q)
               PROVE  code'[q.code].uses = code[q.code].uses
    OBVIOUS
  <2>1. q.code \in Codes /\ q.code \in Owes(q)
    BY <1>1, RowNames DEF Subjects, Owes
  <2>2. q.code \in Locks
    BY <2>1, RowNames
  <2>3. holder[q.code] = x
    BY <2>1, <2>2 DEF LocksInv, LocksAreHeld
  <2> QED
    BY <2>1, <2>3
<1>3. Needed(q)' = Needed(q) /\ Transaction(x)' /\ Subjects(q)'
  BY <1>1 DEF Needed, Transaction, Subjects
<1>4. Owes(q)' = Owes(q)
  BY <1>2, <1>3 DEF Owes
<1>5. Ordered(q)'
  <2>1. \A l, m : Before(q, l, m)' <=> Before(q, l, m)
    BY DEF Before
  <2> QED
    BY <1>1, <1>3, <1>4, <2>1 DEF Ordered
<1> QED
  BY <1>3, <1>4, <1>5

LEMMA LocksStay ==
  ASSUME LocksInv, NEW r \in Requests, RequestStep(r)
  PROVE  LocksInv'
<1> USE DEF LocksInv
<1>1. /\ request' \in [Requests -> RequestType] /\ holder' \in [Locks -> Requests \cup {NoId}]
      /\ \A x \in Requests : x # r => request'[x] = request[x]
  BY ProcessesTyped
<1>2. RowTypes' /\ UsesAreFinite'
  BY RowsTyped
<1>3. TypeOK'
  BY <1>1, <1>2 DEF TypeOK, RowTypes
<1>4. ASSUME NEW x \in Requests, x # r, Transaction(x)
      PROVE  /\ Owes(request[x])' = Owes(request[x]) /\ Needed(request[x])' = Needed(request[x])
             /\ Transaction(x)' /\ Subjects(request[x])' /\ Ordered(request[x])'
  <2>1. \A c \in Codes : holder[c] = x => code'[c].uses = code[c].uses
    BY <1>4, CodeWriters
  <2> QED
    BY <1>1, <1>4, <2>1, OwesStay
<1>5. ASSUME NEW x \in Requests, x # r, ~Transaction(x)
      PROVE  ~Transaction(x)'
  BY <1>1, <1>5 DEF Transaction
<1>6. holder \in [Locks -> Requests \cup {NoId}] /\ request \in [Requests -> RequestType]
  BY DEF TypeOK
<1>7. \A l \in Locks, x \in Requests : x # r => (holder'[l] = x <=> holder[l] = x)
  <2>1. CASE holder' = holder
    BY <2>1
  <2>2. CASE Acquire(r)
    BY <1>6, <2>2, AcquireMoves, RowNames
  <2>3. CASE Finishes(r)
    BY <1>6, <2>3, RowNames DEF Finishes, Release
  <2> QED
    BY <2>1, <2>2, <2>3, Kinds DEF Starts, Check, Passes
\* What the step does to the transaction of r itself.
<1>8. /\ request'[r].pc \in {"idle", "state", "session"} => request'[r].need = <<>>
      /\ request'[r].pc = "checked" => request'[r].need = <<>>
      /\ request'[r].pc = "session" => request'[r].human \in Humans
      /\ request'[r].pc = "state" => request'[r].op = "sign_in"
      /\ Transaction(r)' => Subjects(request[r])' /\ Ordered(request[r])'
      /\ \A l \in Locks : holder'[l] = r <=> Transaction(r)' /\ l \in Owes(request[r])' /\ l \notin Needed(request[r])'
  <2>1. CASE Starts(r)
    <3>1. \A l \in Locks : holder[l] # r
      BY <2>1 DEF Starts, LocksAreHeld, Transaction
    <3>2. Begins(request'[r]) /\ code' = code /\ holder' = holder
      BY <2>1 DEF Starts, RowsStay
    <3>3. Subjects(request[r])' /\ Ordered(request[r])' /\ Needed(request[r])' = Owes(request[r])'
      BY <3>2 DEF Begins, Subjects, Ordered, Needed, Owes, Before
    <3> QED
      BY <3>1, <3>2, <3>3 DEF Begins
  <2>2. CASE Acquire(r)
    <3> DEFINE p == request'[r]
    <3>1. /\ Subjects(p) /\ Ordered(p) /\ request[r].pc = "locking" /\ p.pc = "locking" /\ code' = code
      BY <2>2, AcquireMoves DEF Acquire
    <3>2. PICK l \in Locks :
             /\ holder[l] = NoId /\ holder' = [holder EXCEPT ![l] = r]
             /\ Owes(p) \ Needed(p) = (Owes(request[r]) \ Needed(request[r])) \cup {l}
      BY <2>2, AcquireMoves
    <3>3. /\ Subjects(request[r])' /\ Ordered(request[r])' /\ Needed(request[r])' = Needed(p)
          /\ Owes(request[r])' = Owes(p)
      BY <3>1 DEF Subjects, Ordered, Needed, Owes, Before
    <3>4. \A m \in Locks : holder[m] = r <=> m \in Owes(request[r]) /\ m \notin Needed(request[r])
      BY <3>1 DEF LocksAreHeld, Transaction
    <3>5. Transaction(r)'
      BY <3>1 DEF Transaction
    <3>6. \A m \in Locks : holder'[m] = r <=> m \in Owes(p) \ Needed(p)
      BY <1>6, <3>2, <3>4
    <3> HIDE DEF p
    <3>7. \A m \in Locks : holder'[m] = r <=> Transaction(r)' /\ m \in Owes(request[r])' /\ m \notin Needed(request[r])'
      BY <3>3, <3>5, <3>6
    <3> QED
      BY <3>1, <3>3, <3>7 DEF p
  <2>3. CASE Check(r)
    <3>1. /\ request[r].pc = "locking" /\ request[r].need = <<>> /\ request'[r].pc = "checked"
          /\ request'[r].op = request[r].op /\ request'[r].human = request[r].human
          /\ request'[r].code = request[r].code /\ request'[r].new = request[r].new
          /\ request'[r].need = <<>> /\ code' = code /\ holder' = holder
      BY <1>6, <2>3 DEF Check, RequestType
    <3>2. Needed(request[r])' = Needed(request[r])
      BY <3>1 DEF Needed
    <3>3. Owes(request[r])' = Owes(request[r])
      BY <3>1, <3>2 DEF Owes
    <3>4. Subjects(request[r]) /\ Ordered(request[r]) /\ Transaction(r) /\ Transaction(r)'
      BY <3>1 DEF Transactions, Transaction
    <3>5. Subjects(request[r])'
      BY <3>1, <3>4 DEF Subjects
    <3>6. Ordered(request[r])'
      <4>1. Needed(request[r]) = {} /\ DOMAIN request'[r].need = {}
        BY <3>1, PairsAndSingles DEF Needed
      <4> QED
        BY <3>2, <3>3, <4>1 DEF Ordered
    <3> QED
      BY <3>1, <3>2, <3>3, <3>4, <3>5, <3>6 DEF LocksAreHeld
  <2>4. CASE Finishes(r)
    <3>1. \A l \in Locks : holder'[l] # r
      <4>1. holder' = [l \in Locks |-> IF holder[l] = r THEN NoId ELSE holder[l]]
        BY <2>4 DEF Finishes, Release
      <4> QED
        BY <4>1, RowNames
    <3>2. request'[r].pc \in {"idle", "session"} /\ request'[r].need = <<>>
      <4>1. CASE request'[r] = Idle
        BY <4>1 DEF Idle
      <4>2. CASE request'[r] = [request[r] EXCEPT !.pc = "session"] /\ request[r].pc = "checked"
        <5>1. request[r] \in RequestType /\ request[r].need = <<>>
          BY <1>6, <4>2 DEF Transactions
        <5> QED
          BY <4>2, <5>1 DEF RequestType
      <4> QED
        BY <2>4, <4>1, <4>2 DEF Finishes
    <3>3. request'[r].pc = "session" => request'[r].human \in Humans
      <4>1. CASE request'[r] = Idle
        BY <4>1 DEF Idle
      <4>2. CASE /\ request'[r] = [request[r] EXCEPT !.pc = "session"] /\ request[r].pc = "checked"
                 /\ request[r].op = "sign_in"
        <5>1. request[r].human \in Humans /\ request[r] \in RequestType
          BY <1>6, <4>2, WritersAreChecked
        <5> QED
          BY <4>2, <5>1 DEF RequestType
      <4> QED
        BY <2>4, <4>1, <4>2 DEF Finishes
    <3> QED
      BY <3>1, <3>2, <3>3 DEF Transaction
  <2>5. CASE Passes(r)
    <3>1. \A l \in Locks : holder'[l] # r
      BY <2>5 DEF Passes, LocksAreHeld, Transaction
    <3>2. /\ request'[r].pc \in {"idle", "state"} /\ request'[r].need = <<>>
          /\ request'[r].pc = "state" => request'[r].op = "sign_in"
      <4>1. CASE request'[r] = Idle
        BY <4>1 DEF Idle
      <4>2. CASE request'[r] = [Idle EXCEPT !.op = "sign_in", !.pc = "state"]
        BY <4>2 DEF Idle
      <4> QED
        BY <2>5, <4>1, <4>2 DEF Passes
    <3> QED
      BY <3>1, <3>2 DEF Transaction
  <2> QED
    BY <2>1, <2>2, <2>3, <2>4, <2>5, Kinds
<1>9. Transactions'
  BY <1>1, <1>4, <1>5, <1>8 DEF Transactions
<1>10. LocksAreHeld'
  <2> SUFFICES ASSUME NEW l \in Locks, NEW x \in Requests
               PROVE  holder'[l] = x <=> Transaction(x)' /\ l \in Owes(request[x])' /\ l \notin Needed(request[x])'
    BY DEF LocksAreHeld
  <2>1. CASE x = r
    BY <1>8, <2>1
  <2>2. CASE x # r /\ Transaction(x)
    BY <1>4, <1>7, <2>2 DEF LocksAreHeld
  <2>3. CASE x # r /\ ~Transaction(x)
    BY <1>5, <1>7, <2>3 DEF LocksAreHeld
  <2> QED
    BY <2>1, <2>2, <2>3
<1> QED
  BY <1>2, <1>3, <1>9, <1>10

LEMMA LeastNatural ==
  ASSUME NEW T, T \subseteq Nat, T # {}
  PROVE  \E n \in T : \A m \in T : ~(m < n)
<1>1. PICK n \in T : \A m \in T : ~(<<m, n>> \in OpToRel(<, Nat))
  BY NatLessThanWellFounded, WFMin, Zenon
<1>2. \A m \in T : m < n => <<m, n>> \in OpToRel(<, Nat)
  BY DEF OpToRel
<1> QED
  BY <1>1, <1>2

-----------------------------------------------------------------------------
(* The wait cycles.                                                            *)

NextRow(r) == Head(request[r].need)

\* In a cycle, who is waited for holds a row that comes before the one it waits for.
LEMMA CycleInOrder ==
  ASSUME LocksInv, NEW C \in SUBSET Requests, WaitCycle(C), NEW r \in C
  PROVE  /\ Subjects(request[r]) /\ NextRow(r) \in Owes(request[r]) /\ NextRow(r) \in Locks
         /\ WaitsFor(r) \in C /\ Before(request[WaitsFor(r)], NextRow(r), NextRow(WaitsFor(r)))
<1>1. \A x \in C : /\ Transaction(x) /\ Subjects(request[x]) /\ Ordered(request[x])
                   /\ request[x].need # <<>> /\ request[x] \in RequestType
  BY DEF WaitCycle, Waiting, LocksInv, Transactions, TypeOK, Transaction
<1>2. \A x \in C : NextRow(x) \in Needed(request[x]) /\ NextRow(x) \in Owes(request[x]) /\ NextRow(x) \in Locks
  <2> SUFFICES ASSUME NEW x \in C
               PROVE  NextRow(x) \in Needed(request[x]) /\ NextRow(x) \in Owes(request[x]) /\ NextRow(x) \in Locks
    OBVIOUS
  <2>1. request[x].need \in Seq(Locks) /\ request[x].need # <<>>
    BY <1>1 DEF RequestType
  <2>2. 1 \in DOMAIN request[x].need /\ NextRow(x) = request[x].need[1] /\ NextRow(x) \in Locks
    BY <2>1 DEF NextRow
  <2>3. NextRow(x) \in Needed(request[x])
    BY <2>2 DEF Needed
  <2> QED
    BY <1>1, <2>2, <2>3 DEF Ordered
<1>3. WaitsFor(r) \in C /\ WaitsFor(r) \in Requests /\ holder[NextRow(r)] = WaitsFor(r)
  BY DEF WaitCycle, WaitsFor, NextRow
<1>4. NextRow(r) \in Owes(request[WaitsFor(r)]) \ Needed(request[WaitsFor(r)])
  BY <1>2, <1>3 DEF LocksInv, LocksAreHeld
<1> QED
  BY <1>1, <1>2, <1>3, <1>4 DEF Ordered

\* Without an inversion the cycle would be one of revocations, with ids that fall
\* without end.
LEMMA CyclesAreKnown ==
  ASSUME LocksInv PROVE LockInversionsAreKnown
<1> SUFFICES ASSUME NEW C \in SUBSET Requests, C # {}, WaitCycle(C),
                    ~("sign_in" \in {request[r].op : r \in C} /\ {request[r].op : r \in C} \cap BootstrapFirst # {}),
                    ~("setup" \in {request[r].op : r \in C} /\ "revoke_code" \in {request[r].op : r \in C})
             PROVE  FALSE
  BY DEF LockInversionsAreKnown
<1>0. \A r \in C : /\ Subjects(request[r]) /\ NextRow(r) \in Owes(request[r]) /\ NextRow(r) \in Locks
                   /\ WaitsFor(r) \in C /\ Before(request[WaitsFor(r)], NextRow(r), NextRow(WaitsFor(r)))
  BY CycleInOrder
<1>1. \A x \in C : \E r \in C : Before(request[x], NextRow(r), NextRow(x))
  BY <1>0 DEF WaitCycle
<1>2. \A r \in C : request[r].op # "register"
  <2> SUFFICES ASSUME NEW x \in C, request[x].op = "register" PROVE FALSE
    OBVIOUS
  <2>1. PICK r \in C : Before(request[x], NextRow(r), NextRow(x))
    BY <1>1
  <2>2. NextRow(r) = AA
    BY <2>1 DEF Before, BootstrapFirst
  <2>3. PICK y \in C : Before(request[r], NextRow(y), AA)
    BY <1>1, <2>2
  <2> QED
    BY <1>0, <2>3, RowNames DEF Before, BootstrapFirst, Subjects, PersonOps
<1>3. \A r \in C : request[r].op # "sign_in"
  <2> SUFFICES ASSUME NEW x \in C, request[x].op = "sign_in" PROVE FALSE
    OBVIOUS
  <2>1. NextRow(x) = BA
    BY <1>1 DEF Before, BootstrapFirst
  <2>2. Before(request[WaitsFor(x)], BA, NextRow(WaitsFor(x))) /\ WaitsFor(x) \in C /\ Subjects(request[WaitsFor(x)])
    BY <1>0, <2>1
  <2>3. request[WaitsFor(x)].op \in BootstrapFirst
    BY <2>2, RowNames DEF Before, Subjects, PersonOps
  <2> QED
    BY <2>2, <2>3
<1>4. \A r \in C : request[r].op \notin BootstrapFirst
  <2> SUFFICES ASSUME NEW x \in C, request[x].op \in BootstrapFirst PROVE FALSE
    OBVIOUS
  <2>1. PICK r \in C : Before(request[x], NextRow(r), NextRow(x))
    BY <1>1
  <2>2. NextRow(r) = BA
    BY <2>1 DEF Before, BootstrapFirst
  <2>3. PICK y \in C : Before(request[r], NextRow(y), BA)
    BY <1>1, <2>2
  <2>4. request[r].op = "sign_in"
    BY <1>0, <2>3, RowNames DEF Before, BootstrapFirst, Subjects, PersonOps
  <2> QED
    BY <1>3, <2>4
<1>5. \A r \in C : request[r].op # "setup"
  <2> SUFFICES ASSUME NEW x \in C, request[x].op = "setup" PROVE FALSE
    OBVIOUS
  <2>1. NextRow(x) = request[x].code /\ request[x].code \in Codes
    BY <1>0, <1>1 DEF Before, BootstrapFirst, Subjects
  <2>2. Before(request[WaitsFor(x)], NextRow(x), NextRow(WaitsFor(x))) /\ WaitsFor(x) \in C /\ Subjects(request[WaitsFor(x)])
    BY <1>0
  <2>3. request[WaitsFor(x)].op = "revoke_code"
    BY <2>1, <2>2, RowNames DEF Before, Subjects, PersonOps
  <2> QED
    BY <2>2, <2>3
<1>6. \A r \in C : request[r].op = "revoke_code"
  BY <1>1, <1>2, <1>3, <1>4, <1>5 DEF Before
<1>7. \A r \in C : NextRow(r) \in Humans /\ IdOf[NextRow(r)] \in Nat
  <2>1. \A r \in C : NextRow(r) \in Humans
    BY <1>1, <1>6 DEF Before, BootstrapFirst
  <2> QED
    BY <2>1, HumansAssumption
<1>8. \A x \in C : \E r \in C : IdOf[NextRow(r)] < IdOf[NextRow(x)]
  <2> SUFFICES ASSUME NEW x \in C PROVE \E r \in C : IdOf[NextRow(r)] < IdOf[NextRow(x)]
    OBVIOUS
  <2>1. PICK r \in C : Before(request[x], NextRow(r), NextRow(x))
    BY <1>1
  <2>2. NextRow(r) # request[x].code
    BY <1>0, <1>6, <1>7, RowNames DEF Subjects
  <2> QED
    BY <1>6, <2>1, <2>2 DEF Before, BootstrapFirst
<1>9. PICK n \in {IdOf[NextRow(r)] : r \in C} : \A m \in {IdOf[NextRow(r)] : r \in C} : ~(m < n)
  <2>1. {IdOf[NextRow(r)] : r \in C} \subseteq Nat /\ {IdOf[NextRow(r)] : r \in C} # {}
    BY <1>7
  <2> QED
    BY <2>1, LeastNatural
<1> QED
  BY <1>8, <1>9

-----------------------------------------------------------------------------
(* What the transactions write.                                                *)

RowsInv == LocksInv /\ HumansExist /\ DecisionsHold

Sets(h, m) == human' = [human EXCEPT ![h] = m]

LEMMA ResolveWrites ==
  ASSUME RowsInv, NEW r \in Requests, ResolveHuman(r)
  PROVE  /\ request[r].human \in Humans /\ human[request[r].human].status # "deleted"
         /\ UNCHANGED <<session, creatorToken, adminToken, code, agent>>
         /\ \E m \in HumanType :
               /\ Sets(request[r].human, m)
               /\ m.status # "absent" /\ m.status # "deleted"
               /\ \/ /\ m.status = "active" /\ m.admin = "granted" /\ m.creator = "granted"
                     /\ request[r].human \in BootstrapAdmins
                  \/ /\ human[request[r].human].status = "absent" /\ m.status = "setup_required"
                     /\ m.admin = human[request[r].human].admin /\ m.creator = human[request[r].human].creator
                  \/ m = human[request[r].human] /\ ~request[r].new
<1> USE DEF RowsInv, LocksInv
<1> DEFINE h == request[r].human
<1>1. request[r].pc = "checked" /\ request[r].op = "sign_in" /\ (request[r].new => human[h].status = "absent")
  BY DEF ResolveHuman
<1>2. h \in Humans /\ Transaction(r)
  BY <1>1, WritersAreChecked
<1>3. human[h] \in HumanType
  BY <1>2 DEF TypeOK
<1>4. human[h].status # "deleted" /\ (~request[r].new => human[h].status # "absent")
  BY <1>1, <1>2 DEF DecisionsHold, Decided, HumansExist
<1>5. request[r].bootstrap => h \in BootstrapAdmins
  BY <1>1 DEF DecisionsHold
<1>6. UNCHANGED <<session, creatorToken, adminToken, code, agent>>
  BY DEF ResolveHuman
<1>7. CASE request[r].bootstrap
  <2> DEFINE m == [Activated(h) EXCEPT !.admin = "granted"]
  <2>1. Sets(h, m)
    BY <1>7 DEF ResolveHuman, Sets
  <2>2. m \in HumanType /\ m.status = "active" /\ m.admin = "granted" /\ m.creator = "granted"
    BY <1>3, <1>4 DEF Activated, HumanType, RoleStates
  <2> HIDE DEF m
  <2> QED
    BY <1>2, <1>4, <1>5, <1>6, <1>7, <2>1, <2>2
<1>8. CASE ~request[r].bootstrap /\ request[r].new
  <2> DEFINE m == [human[h] EXCEPT !.status = "setup_required"]
  <2>1. Sets(h, m)
    BY <1>8 DEF ResolveHuman, Sets
  <2>2. m \in HumanType /\ m.status = "setup_required" /\ m.admin = human[h].admin /\ m.creator = human[h].creator
    BY <1>3 DEF HumanType
  <2> HIDE DEF m
  <2> QED
    BY <1>1, <1>2, <1>4, <1>6, <1>8, <2>1, <2>2
<1>9. CASE ~request[r].bootstrap /\ ~request[r].new
  <2>1. Sets(h, human[h])
    BY <1>9 DEF ResolveHuman, Sets
  <2> QED
    BY <1>2, <1>3, <1>4, <1>6, <1>9, <2>1
<1> QED
  BY <1>7, <1>8, <1>9

LEMMA SetupWrites ==
  ASSUME RowsInv, NEW r \in Requests, CompleteSetup(r)
  PROVE  /\ request[r].human \in Humans /\ request[r].code \in Codes
         /\ holder[request[r].human] = r /\ holder[request[r].code] = r
         /\ human[request[r].human].status \notin {"absent", "deleted"}
         /\ UNCHANGED <<session, creatorToken, adminToken, agent>>
         /\ \/ UNCHANGED <<human, code>>
            \/ /\ \E m \in HumanType :
                     /\ Sets(request[r].human, m) /\ m.status = "active" /\ m.creator = "granted"
                     /\ m.admin = human[request[r].human].admin
               /\ code' = [code EXCEPT ![request[r].code].uses = @ \cup {request[r].human}]
               /\ Left(request[r].code) /\ code[request[r].code].status # "revoked"
<1> USE DEF RowsInv, LocksInv
<1> DEFINE h == request[r].human
           c == request[r].code
<1>1. request[r].pc = "checked" /\ request[r].op = "setup"
  BY DEF CompleteSetup, Ends
<1>2. h \in Humans /\ c \in Codes /\ Transaction(r)
  BY <1>1, WritersAreChecked DEF PersonOps
<1>3. human[h] \in HumanType
  BY <1>2 DEF TypeOK
<1>4. human[h].status \notin {"absent", "deleted"}
  BY <1>1, <1>2 DEF DecisionsHold, Decided, HumansExist
<1>5. SetupIsDone(h) \/ (Left(c) /\ code[c].status # "revoked")
  BY <1>1 DEF DecisionsHold, Decided
<1>6. h \in Owes(request[r]) /\ c \in Owes(request[r])
  BY <1>1, <1>2, RowNames DEF Owes, PersonOps
<1>7. holder[h] = r /\ holder[c] = r
  BY <1>1, <1>6, CheckedHolds
<1>8. UNCHANGED <<session, creatorToken, adminToken, agent>>
  BY DEF CompleteSetup
<1>9. CASE SetupIsDone(h)
  <2>1. UNCHANGED <<human, code>>
    BY <1>9 DEF CompleteSetup
  <2> QED
    BY <1>2, <1>4, <1>7, <1>8, <2>1
<1>10. CASE ~SetupIsDone(h)
  <2> DEFINE m == Activated(h)
  <2>1. Sets(h, m) /\ code' = [code EXCEPT ![c].uses = @ \cup {h}]
    BY <1>10 DEF CompleteSetup, Sets, Consume
  <2>2. m \in HumanType /\ m.status = "active" /\ m.creator = "granted" /\ m.admin = human[h].admin
    BY <1>3, <1>4 DEF Activated, HumanType, RoleStates
  <2> HIDE DEF m
  <2> QED
    BY <1>2, <1>4, <1>5, <1>7, <1>8, <1>10, <2>1, <2>2
<1> QED
  BY <1>9, <1>10

LEMMA RoleWrites ==
  ASSUME RowsInv, NEW r \in Requests, GrantAdmin(r) \/ RevokeAdmin(r)
  PROVE  /\ request[r].human \in Humans /\ holder[request[r].human] = r /\ holder[BA] = r
         /\ human[request[r].human].status = "active"
         /\ UNCHANGED <<session, creatorToken, code, agent>> /\ adminToken' \subseteq adminToken
         /\ \E m \in HumanType :
               /\ Sets(request[r].human, m) /\ m.status = "active"
               /\ m.creator = human[request[r].human].creator
               /\ \/ GrantAdmin(r) /\ m.admin = "granted"
                  \/ /\ RevokeAdmin(r) /\ m.admin = "revoked"
                     /\ AnotherAdmin(request[r].human) \/ SomeRescinded
<1> USE DEF RowsInv, LocksInv
<1> DEFINE h == request[r].human
<1>1. /\ request[r].pc = "checked" /\ request[r].op \in {"grant_admin", "revoke_admin"}
      /\ GrantAdmin(r) => request[r].op = "grant_admin"
      /\ RevokeAdmin(r) => request[r].op = "revoke_admin"
  BY DEF GrantAdmin, RevokeAdmin, Ends
<1>2. h \in Humans /\ Transaction(r)
  BY <1>1, WritersAreChecked DEF PersonOps, BootstrapFirst
<1>3. human[h] \in HumanType
  BY <1>2 DEF TypeOK
<1>4. human[h].status = "active" /\ (RevokeAdmin(r) => AnotherAdmin(h) \/ SomeRescinded)
  BY <1>1 DEF DecisionsHold, Decided
<1>5. h \in Owes(request[r]) /\ BA \in Owes(request[r])
  BY <1>1, <1>2, RowNames DEF Owes, PersonOps, BootstrapFirst
<1>6. holder[h] = r /\ holder[BA] = r
  BY <1>1, <1>5, CheckedHolds
<1>7. UNCHANGED <<session, creatorToken, code, agent>> /\ adminToken' \subseteq adminToken
  BY DEF GrantAdmin, RevokeAdmin
<1>8. CASE GrantAdmin(r)
  <2> DEFINE m == [human[h] EXCEPT !.admin = "granted"]
  <2>1. Sets(h, m)
    BY <1>2, <1>8 DEF GrantAdmin, Sets, TypeOK
  <2>2. m \in HumanType /\ m.status = "active" /\ m.creator = human[h].creator /\ m.admin = "granted"
    BY <1>3, <1>4 DEF HumanType, RoleStates
  <2> HIDE DEF m
  <2> QED
    BY <1>2, <1>4, <1>6, <1>7, <1>8, <2>1, <2>2
<1>9. CASE RevokeAdmin(r)
  <2> DEFINE m == [human[h] EXCEPT !.admin = "revoked"]
  <2>1. Sets(h, m)
    BY <1>2, <1>9 DEF RevokeAdmin, Sets, TypeOK
  <2>2. m \in HumanType /\ m.status = "active" /\ m.creator = human[h].creator /\ m.admin = "revoked"
    BY <1>3, <1>4 DEF HumanType, RoleStates
  <2> HIDE DEF m
  <2> QED
    BY <1>2, <1>4, <1>6, <1>7, <1>9, <2>1, <2>2
<1> QED
  BY <1>8, <1>9

LEMMA DeleteWrites ==
  ASSUME RowsInv, NEW r \in Requests, DeleteHuman(r)
  PROVE  /\ request[r].human \in Humans /\ holder[request[r].human] = r /\ holder[BA] = r
         /\ human[request[r].human].status # "absent"
         /\ human[request[r].human].admin = "granted" => AnotherAdmin(request[r].human) \/ SomeRescinded
         /\ UNCHANGED <<code, agent>>
         /\ session' \subseteq session /\ creatorToken' \subseteq creatorToken /\ adminToken' \subseteq adminToken
         /\ \E m \in HumanType :
               /\ Sets(request[r].human, m) /\ m.status = "deleted"
               /\ m.creator # "granted" /\ m.admin # "granted"
               /\ m.admin = "none" => human[request[r].human].admin = "none"
               /\ human[request[r].human].admin = "none" => m.admin = "none"
<1> USE DEF RowsInv, LocksInv
<1> DEFINE h == request[r].human
           m == [status |-> "deleted", creator |-> RevokedRole(human[h].creator), admin |-> RevokedRole(human[h].admin)]
<1>1. request[r].pc = "checked" /\ request[r].op = "delete"
  BY DEF DeleteHuman, Ends
<1>2. h \in Humans /\ Transaction(r)
  BY <1>1, WritersAreChecked DEF PersonOps, BootstrapFirst
<1>3. human[h] \in HumanType /\ human \in [Humans -> HumanType]
  BY <1>2 DEF TypeOK
<1>4. human[h].admin = "granted" => AnotherAdmin(h) \/ SomeRescinded
  BY <1>1 DEF DecisionsHold, Decided
<1>5. human[h].status # "absent"
  BY <1>1, <1>2 DEF HumansExist
<1>6. h \in Owes(request[r]) /\ BA \in Owes(request[r])
  BY <1>1, <1>2, RowNames DEF Owes, PersonOps, BootstrapFirst
<1>7. holder[h] = r /\ holder[BA] = r
  BY <1>1, <1>6, CheckedHolds
<1>8. /\ UNCHANGED <<code, agent>>
      /\ session' \subseteq session /\ creatorToken' \subseteq creatorToken /\ adminToken' \subseteq adminToken
  BY DEF DeleteHuman
<1>9. Sets(h, m)
  BY <1>2, <1>3 DEF DeleteHuman, Sets
<1>10. /\ m \in HumanType /\ m.status = "deleted" /\ m.creator # "granted" /\ m.admin # "granted"
       /\ m.admin = "none" <=> human[h].admin = "none"
  BY <1>3 DEF HumanType, RoleStates, RevokedRole
<1> HIDE DEF m
<1> QED
  BY <1>2, <1>4, <1>5, <1>7, <1>8, <1>9, <1>10

LEMMA RescindWrites ==
  ASSUME RowsInv, NEW r \in Requests, RescindCode(r)
  PROVE  /\ request[r].code \in Codes /\ holder[request[r].code] = r
         /\ \A h \in code[request[r].code].uses \cap Humans : holder[h] = r
         /\ code' = [code EXCEPT ![request[r].code].status = "revoked"]
         /\ session' \subseteq session /\ creatorToken' \subseteq creatorToken /\ adminToken' \subseteq adminToken
         /\ human' \in [Humans -> HumanType]
         /\ \A h \in Humans :
               /\ h \notin code[request[r].code].uses => human'[h] = human[h]
               /\ h \in code[request[r].code].uses =>
                     /\ human'[h].status \in {"setup_required", "deleted"}
                     /\ human'[h].status = "deleted" <=> human[h].status = "deleted"
                     /\ human'[h].creator # "granted" /\ human'[h].admin = human[h].admin
         /\ \A a \in Agents : agent'[a] = IF a \in code[request[r].code].uses
                                          THEN [status |-> "disabled", token |-> FALSE] ELSE agent[a]
<1> USE DEF RowsInv, LocksInv
<1> DEFINE c == request[r].code
<1>1. request[r].pc = "checked" /\ request[r].op = "revoke_code"
  BY DEF RescindCode, Ends
<1>2. c \in Codes /\ Transaction(r) /\ Needed(request[r]) = {}
  BY <1>1, WritersAreChecked
<1>3. \A l \in {c} \cup (code[c].uses \cap Humans) : l \in Owes(request[r])
  BY <1>1, <1>2, RowNames DEF Owes
<1>4. holder[c] = r /\ \A h \in code[c].uses \cap Humans : holder[h] = r
  BY <1>1, <1>3, CheckedHolds
<1>5. \A h \in Humans : human[h] \in HumanType
  BY DEF TypeOK
<1>6. \A h \in Humans :
         /\ Rescinded(h) \in HumanType /\ Rescinded(h).status \in {"setup_required", "deleted"}
         /\ Rescinded(h).status = "deleted" <=> human[h].status = "deleted"
         /\ Rescinded(h).creator # "granted" /\ Rescinded(h).admin = human[h].admin
  BY <1>5 DEF Rescinded, HumanType, RoleStates, RevokedRole
<1>7. human' = [h \in Humans |-> IF h \in code[c].uses THEN Rescinded(h) ELSE human[h]]
  BY DEF RescindCode
<1>8. /\ code' = [code EXCEPT ![c].status = "revoked"]
      /\ session' \subseteq session /\ creatorToken' \subseteq creatorToken /\ adminToken' \subseteq adminToken
      /\ \A a \in Agents : agent'[a] = IF a \in code[c].uses
                                       THEN [status |-> "disabled", token |-> FALSE] ELSE agent[a]
  BY DEF RescindCode
<1>9. human' \in [Humans -> HumanType]
  BY <1>5, <1>6, <1>7
<1>10. \A h \in Humans : human'[h] = IF h \in code[c].uses THEN Rescinded(h) ELSE human[h]
  BY <1>7
<1> QED
  BY <1>2, <1>4, <1>6, <1>8, <1>9, <1>10

LEMMA RegisterWrites ==
  ASSUME RowsInv, NEW r \in Requests, NEW a \in Agents, RegisterAgent(r, a)
  PROVE  /\ agent[a].status = "absent" /\ agent' = [agent EXCEPT ![a] = [status |-> "active", token |-> TRUE]]
         /\ UNCHANGED accounts
         /\ \/ UNCHANGED code
            \/ /\ request[r].code \in Codes /\ holder[request[r].code] = r
               /\ code' = [code EXCEPT ![request[r].code].uses = @ \cup {a}]
               /\ Left(request[r].code) /\ code[request[r].code].status # "revoked"
<1> USE DEF RowsInv, LocksInv
<1>1. request[r].pc = "checked" /\ request[r].op = "register"
  BY DEF RegisterAgent, Ends
<1>2. request[r].code \in Codes
  BY <1>1, WritersAreChecked
<1>3. /\ agent[a].status = "absent" /\ agent' = [agent EXCEPT ![a] = [status |-> "active", token |-> TRUE]]
      /\ UNCHANGED accounts
  BY DEF RegisterAgent
<1>4. CASE PublicRegistration
  BY <1>3, <1>4 DEF RegisterAgent
<1>5. CASE ~PublicRegistration
  <2>1. Left(request[r].code) /\ code[request[r].code].status # "revoked"
    BY <1>1, <1>5 DEF DecisionsHold, Decided
  <2>2. request[r].code \in Owes(request[r])
    BY <1>1, <1>2, <1>5, RowNames DEF Owes
  <2>3. holder[request[r].code] = r
    BY <1>1, <2>2, CheckedHolds
  <2>4. code' = [code EXCEPT ![request[r].code].uses = @ \cup {a}]
    BY <1>5 DEF RegisterAgent, Consume
  <2> QED
    BY <1>2, <1>3, <2>1, <2>3, <2>4
<1> QED
  BY <1>4, <1>5

\* The steps that write rows other than sessions and tokens.
RowStep(r) ==
    \/ ResolveHuman(r) \/ CompleteSetup(r) \/ GrantAdmin(r) \/ RevokeAdmin(r) \/ DeleteHuman(r)
    \/ RescindCode(r) \/ \E a \in Agents : RegisterAgent(r, a)

LEMMA RowWriters ==
  ASSUME NEW r \in Requests, RequestStep(r)
  PROVE  RowStep(r) \/ UNCHANGED <<human, code, agent>>
  BY DEF RequestStep, StartLogin, LoginFails, Acquire, Check, Rollback, Callback, DeleteAccount,
         CreateCreatorToken, CreateAdminToken, Setup, ManageAdmin, RevokeCode, Register, Begin,
         IssueSession, IssueCreatorToken, IssueAdminToken, RowStep, accounts

LEMMA SetsOne ==
  ASSUME TypeOK, NEW h \in Humans, NEW m, Sets(h, m)
  PROVE  \A k \in Humans : human'[k] = IF k = h THEN m ELSE human[k]
  BY DEF TypeOK, Sets

\* A row of a human is written under its lock, or it is new.
LEMMA HumanWriters ==
  ASSUME RowsInv, NEW r \in Requests, RequestStep(r), NEW k \in Humans
  PROVE  /\ human'[k] = human[k] \/ holder[k] = r \/ human[k].status = "absent"
         /\ human[k].status # "absent" => human'[k].status # "absent"
<1>0. TypeOK
  BY DEF RowsInv, LocksInv
<1>1. CASE UNCHANGED <<human, code, agent>>
  BY <1>1
<1>2. CASE ResolveHuman(r)
  <2> DEFINE h == request[r].human
  <2>1. PICK m \in HumanType : /\ Sets(h, m) /\ m.status # "absent"
                               /\ m = human[h] \/ human[h].status = "absent" \/ h \in Humans
    BY <1>2, ResolveWrites
  <2>2. h \in Humans
    BY <1>2, ResolveWrites
  <2>3. request[r].pc = "checked" /\ request[r].op = "sign_in" /\ (request[r].new => human[h].status = "absent")
    BY <1>2 DEF ResolveHuman
  <2>4. ~request[r].new => h \in Owes(request[r])
    BY <2>2, <2>3, RowNames DEF Owes
  <2>5. ~request[r].new => holder[h] = r
    BY <2>3, <2>4, CheckedHolds DEF RowsInv
  <2>6. human'[k] = IF k = h THEN m ELSE human[k]
    BY <1>0, <2>1, <2>2, SetsOne
  <2> QED
    BY <2>1, <2>3, <2>5, <2>6
<1>3. CASE CompleteSetup(r)
  <2> DEFINE h == request[r].human
  <2>1. h \in Humans /\ holder[h] = r
    BY <1>3, SetupWrites
  <2>2. human' = human \/ \E m \in HumanType : Sets(h, m) /\ m.status = "active"
    BY <1>3, SetupWrites
  <2>3. human' = human \/ \E m \in HumanType : m.status = "active" /\ human'[k] = IF k = h THEN m ELSE human[k]
    BY <1>0, <2>1, <2>2, SetsOne
  <2> QED
    BY <2>1, <2>3
<1>4. CASE GrantAdmin(r) \/ RevokeAdmin(r)
  <2> DEFINE h == request[r].human
  <2>1. h \in Humans /\ holder[h] = r
    BY <1>4, RoleWrites
  <2>2. PICK m \in HumanType : Sets(h, m) /\ m.status = "active"
    BY <1>4, RoleWrites
  <2>3. human'[k] = IF k = h THEN m ELSE human[k]
    BY <1>0, <2>1, <2>2, SetsOne
  <2> QED
    BY <2>1, <2>2, <2>3
<1>5. CASE DeleteHuman(r)
  <2> DEFINE h == request[r].human
  <2>1. h \in Humans /\ holder[h] = r
    BY <1>5, DeleteWrites
  <2>2. PICK m \in HumanType : Sets(h, m) /\ m.status = "deleted"
    BY <1>5, DeleteWrites
  <2>3. human'[k] = IF k = h THEN m ELSE human[k]
    BY <1>0, <2>1, <2>2, SetsOne
  <2> QED
    BY <2>1, <2>2, <2>3
<1>6. CASE RescindCode(r)
  BY <1>6, RescindWrites
<1>7. CASE \E a \in Agents : RegisterAgent(r, a)
  BY <1>7, RegisterWrites DEF accounts
<1> QED
  BY <1>1, <1>2, <1>3, <1>4, <1>5, <1>6, <1>7, RowWriters DEF RowStep

\* A code that was revoked stays revoked, and its uses are kept.
LEMMA RescindedStays ==
  ASSUME RowsInv, NEW r \in Requests, RequestStep(r)
  PROVE  /\ \A c \in Codes : /\ code[c].uses \subseteq code'[c].uses
                             /\ code[c].status = "revoked" => code'[c].status = "revoked"
         /\ SomeRescinded => SomeRescinded'
<1>0. code \in [Codes -> CodeType]
  BY DEF RowsInv, LocksInv, TypeOK
<1>1. CASE UNCHANGED code
  BY <1>1 DEF SomeRescinded
<1>2. ASSUME NEW c \in Codes, NEW k, code' = [code EXCEPT ![c].uses = @ \cup {k}]
      PROVE  \A d \in Codes : /\ code[d].uses \subseteq code'[d].uses
                              /\ code[d].status = code'[d].status
  BY <1>0, <1>2 DEF CodeType
<1>3. ASSUME NEW c \in Codes, code' = [code EXCEPT ![c].status = "revoked"]
      PROVE  \A d \in Codes : /\ code[d].uses = code'[d].uses
                              /\ code[d].status = "revoked" => code'[d].status = "revoked"
  BY <1>0, <1>3 DEF CodeType
<1>4. \/ UNCHANGED code
      \/ \E c \in Codes, k \in Humans \cup Agents : code' = [code EXCEPT ![c].uses = @ \cup {k}]
      \/ \E c \in Codes : code' = [code EXCEPT ![c].status = "revoked"]
  <2>1. CASE UNCHANGED code \/ ResolveHuman(r) \/ GrantAdmin(r) \/ RevokeAdmin(r) \/ DeleteHuman(r)
    BY <2>1 DEF ResolveHuman, GrantAdmin, RevokeAdmin, DeleteHuman
  <2>2. CASE CompleteSetup(r)
    <3>1. request[r].code \in Codes /\ request[r].human \in Humans \cup Agents
      BY <2>2, SetupWrites
    <3>2. UNCHANGED code \/ code' = [code EXCEPT ![request[r].code].uses = @ \cup {request[r].human}]
      BY <2>2 DEF CompleteSetup, Consume
    <3> QED
      BY <3>1, <3>2
  <2>3. CASE RescindCode(r)
    BY <2>3, RescindWrites
  <2>4. ASSUME NEW a \in Agents, RegisterAgent(r, a)
        PROVE  UNCHANGED code \/ \E c \in Codes, k \in Humans \cup Agents : code' = [code EXCEPT ![c].uses = @ \cup {k}]
    <3>1. UNCHANGED code \/ (request[r].code \in Codes /\ code' = [code EXCEPT ![request[r].code].uses = @ \cup {a}])
      BY <2>4, RegisterWrites, Zenon
    <3>2. a \in Humans \cup Agents
      OBVIOUS
    <3> QED
      BY <3>1, <3>2
  <2> QED
    BY <2>1, <2>2, <2>3, <2>4, RowWriters DEF RowStep
<1>5. \A c \in Codes : /\ code[c].uses \subseteq code'[c].uses
                       /\ code[c].status = "revoked" => code'[c].status = "revoked"
  BY <1>1, <1>2, <1>3, <1>4
<1> QED
  BY <1>5 DEF SomeRescinded

\* An admin goes only by a request that holds the bootstrap lock, or by a revoked code.
LEMMA AdminWriters ==
  ASSUME RowsInv, NEW r \in Requests, RequestStep(r), NEW k \in ActiveAdmins
  PROVE  \/ k \in ActiveAdmins' \/ SomeRescinded'
         \/ (RevokeAdmin(r) \/ DeleteHuman(r)) /\ k = request[r].human /\ holder[BA] = r
<1>0. TypeOK /\ k \in Humans /\ human[k].status = "active" /\ human[k].admin = "granted"
  BY DEF RowsInv, LocksInv, ActiveAdmins
<1>1. human'[k] = human[k] => k \in ActiveAdmins'
  BY <1>0 DEF ActiveAdmins
<1>2. CASE ResolveHuman(r)
  <2> DEFINE h == request[r].human
  <2>1. PICK m \in HumanType :
               /\ Sets(h, m)
               /\ \/ m.status = "active" /\ m.admin = "granted"
                  \/ human[h].status = "absent"
                  \/ m = human[h]
    BY <1>2, ResolveWrites
  <2>2. h \in Humans
    BY <1>2, ResolveWrites
  <2>3. human'[k] = IF k = h THEN m ELSE human[k]
    BY <1>0, <2>1, <2>2, SetsOne
  <2>4. human'[k].status = "active" /\ human'[k].admin = "granted"
    BY <1>0, <2>1, <2>3
  <2> QED
    BY <1>0, <2>4 DEF ActiveAdmins
<1>3. CASE CompleteSetup(r)
  <2> DEFINE h == request[r].human
  <2>1. h \in Humans
    BY <1>3, SetupWrites
  <2>2. human' = human \/ \E m \in HumanType : Sets(h, m) /\ m.status = "active" /\ m.admin = human[h].admin
    BY <1>3, SetupWrites
  <2>3. human'[k].status = "active" /\ human'[k].admin = "granted"
    BY <1>0, <2>1, <2>2, SetsOne
  <2> QED
    BY <1>0, <2>3 DEF ActiveAdmins
<1>4. CASE GrantAdmin(r) \/ RevokeAdmin(r)
  <2> DEFINE h == request[r].human
  <2>1. h \in Humans /\ holder[BA] = r
    BY <1>4, RoleWrites
  <2>2. PICK m \in HumanType : Sets(h, m) /\ m.status = "active" /\ (m.admin = "granted" \/ RevokeAdmin(r))
    BY <1>4, RoleWrites
  <2>3. human'[k] = IF k = h THEN m ELSE human[k]
    BY <1>0, <2>1, <2>2, SetsOne
  <2> QED
    BY <1>0, <1>1, <2>1, <2>2, <2>3 DEF ActiveAdmins
<1>5. CASE DeleteHuman(r)
  <2> DEFINE h == request[r].human
  <2>1. h \in Humans /\ holder[BA] = r
    BY <1>5, DeleteWrites
  <2>2. PICK m \in HumanType : Sets(h, m)
    BY <1>5, DeleteWrites
  <2>3. human'[k] = IF k = h THEN m ELSE human[k]
    BY <1>0, <2>1, <2>2, SetsOne
  <2> QED
    BY <1>1, <1>5, <2>1, <2>3
<1>6. CASE RescindCode(r)
  <2> DEFINE c == request[r].code
  <2>1. c \in Codes /\ code' = [code EXCEPT ![c].status = "revoked"]
    BY <1>6, RescindWrites
  <2>2. k \notin code[c].uses => human'[k] = human[k]
    BY <1>0, <1>6, RescindWrites
  <2>3. code'[c].status = "revoked" /\ code'[c].uses = code[c].uses
    BY <1>0, <2>1 DEF TypeOK, CodeType
  <2>4. k \in code[c].uses => SomeRescinded'
    BY <1>0, <2>1, <2>3 DEF SomeRescinded
  <2> QED
    BY <1>1, <2>2, <2>4
<1>7. CASE \E a \in Agents : RegisterAgent(r, a)
  BY <1>1, <1>7, RegisterWrites DEF accounts
<1>8. CASE UNCHANGED <<human, code, agent>>
  BY <1>1, <1>8
<1> QED
  BY <1>2, <1>3, <1>4, <1>5, <1>6, <1>7, <1>8, RowWriters DEF RowStep

\* A request that acts for a session acts for a human who has a row.
LEMMA AsksExist ==
  ASSUME RowsInv, NEW r \in Requests, RequestStep(r)
  PROVE  /\ request'[r].pc = "session" => human'[request'[r].human].status # "absent"
         /\ Transaction(r)' /\ request'[r].op \in {"setup", "delete", "creator_token", "admin_token"} =>
              human'[request'[r].human].status # "absent"
         /\ Transaction(r)' /\ request'[r].op = "sign_in" /\ ~request'[r].new =>
              human'[request'[r].human].status # "absent"
<1> USE DEF RowsInv, LocksInv
<1> DEFINE p == request'[r]
<1>0. request \in [Requests -> RequestType] /\ request[r] \in RequestType
  BY DEF TypeOK
<1>1. CASE p.pc \in {"idle", "state"}
  BY <1>1 DEF Transaction
<1>2. CASE Acquire(r) \/ Check(r)
  <2>1. /\ p.op = request[r].op /\ p.human = request[r].human /\ p.new = request[r].new
        /\ p.pc \in {"locking", "checked"} /\ human' = human /\ Transaction(r)
    BY <1>0, <1>2 DEF Acquire, Check, RequestType, accounts, Transaction
  <2> QED
    BY <2>1 DEF HumansExist
<1>3. CASE ResolveHuman(r)
  <2>1. p.pc = "session" /\ p.human = request[r].human
    BY <1>0, <1>3 DEF ResolveHuman, RequestType
  <2>2. request[r].human \in Humans /\ \E m \in HumanType : Sets(request[r].human, m) /\ m.status # "absent"
    BY <1>3, ResolveWrites
  <2>3. human'[request[r].human].status # "absent"
    BY <2>2, SetsOne
  <2> QED
    BY <2>1, <2>3 DEF Transaction
<1>4. CASE \E h \in Humans : Callback(r, h)
  <2>1. PICK h \in Humans : Callback(r, h)
    BY <1>4
  <2>2. /\ Starts(r) /\ p.op = "sign_in" /\ p.human = h /\ (p.new <=> human[h].status = "absent")
    BY <2>1, CallbackStarts, Zenon
  <2>3. human' = human /\ p.pc = "locking"
    BY <2>2 DEF Starts, Begins, RowsStay, accounts
  <2> QED
    BY <2>2, <2>3 DEF Transaction
<1>5. CASE \E h \in Humans : DeleteAccount(r, h) \/ CreateCreatorToken(r, h) \/ CreateAdminToken(r, h)
  <2>1. PICK h \in Humans : DeleteAccount(r, h) \/ CreateCreatorToken(r, h) \/ CreateAdminToken(r, h)
    BY <1>5
  <2>2. HumanSession(h)
    BY <2>1 DEF DeleteAccount, CreateCreatorToken, CreateAdminToken, CreatorWebAuth, HumanAdminAuth, HumanAuth
  <2>3. \/ Begin(r, "delete", h, NoId, <<BA, h>>)
        \/ \E op \in {"creator_token", "admin_token"} : Begin(r, op, h, NoId, <<h>>)
    BY <2>1 DEF DeleteAccount, CreateCreatorToken, CreateAdminToken, BootstrapThenHuman, HumanOnly, BA
  <2>4. Starts(r) /\ p.human = h
    BY <2>3, HumanOpsStart DEF BootstrapFirst
  <2>5. human' = human /\ p.pc = "locking" /\ human[h].status # "absent"
    BY <2>2, <2>4 DEF Starts, Begins, RowsStay, accounts, HumanSession
  <2> QED
    BY <2>4, <2>5
<1>6. CASE \E h \in Humans, c \in Codes : Setup(r, h, c)
  <2>1. PICK h \in Humans, c \in Codes : Setup(r, h, c)
    BY <1>6
  <2>2. Starts(r) /\ p.human = h
    BY <2>1, SetupStarts, Zenon
  <2>3. human[h].status # "absent"
    BY <2>1 DEF Setup, HumanAuth, HumanSession
  <2>4. human' = human /\ p.pc = "locking"
    BY <2>2 DEF Starts, Begins, RowsStay, accounts
  <2> QED
    BY <2>2, <2>3, <2>4
<1>7. CASE \/ \E by, h \in Humans, op \in {"grant_admin", "revoke_admin"} : ManageAdmin(r, op, by, h)
           \/ \E c \in Codes : RevokeCode(r, c) \/ Register(r, c)
  <2>0. PICK op \in {"grant_admin", "revoke_admin", "revoke_code", "register"} :
          \E h, c, need : Begin(r, op, h, c, need)
    BY <1>7 DEF ManageAdmin, RevokeCode, Register
  <2>1. PICK h, c, need : Begin(r, op, h, c, need)
    BY <2>0
  <2>2. p.op = op /\ p.pc = "locking"
    BY <2>1, BeginWrites
  <2> QED
    BY <2>2
<1>8. CASE \/ StartLogin(r) \/ LoginFails(r) \/ Rollback(r) \/ IssueSession(r)
           \/ \E op \in Ops : Ends(r, op)
  <2>1. request'[r] = Idle \/ request'[r] = [Idle EXCEPT !.op = "sign_in", !.pc = "state"]
    BY <1>0, <1>8 DEF StartLogin, LoginFails, Rollback, IssueSession, Ends
  <2>2. request'[r].pc \in {"idle", "state"}
    <3>1. CASE request'[r] = Idle
      BY <3>1 DEF Idle
    <3>2. CASE request'[r] = [Idle EXCEPT !.op = "sign_in", !.pc = "state"]
      BY <3>2 DEF Idle
    <3> QED
      BY <2>1, <3>1, <3>2
  <2>3. request'[r].pc # "session" /\ ~Transaction(r)'
    BY <2>2 DEF Transaction
  <2> HIDE DEF p
  <2> QED
    BY <2>3
<1>9. CASE \/ CompleteSetup(r) \/ GrantAdmin(r) \/ RevokeAdmin(r) \/ DeleteHuman(r) \/ IssueCreatorToken(r)
           \/ IssueAdminToken(r) \/ RescindCode(r) \/ \E a \in Agents : RegisterAgent(r, a)
  <2>1. \E op \in Ops : Ends(r, op)
    BY <1>9 DEF CompleteSetup, GrantAdmin, RevokeAdmin, DeleteHuman, IssueCreatorToken, IssueAdminToken,
               RescindCode, RegisterAgent, Ops
  <2> QED
    BY <1>8, <2>1
<1> QED
  BY <1>2, <1>3, <1>4, <1>5, <1>6, <1>7, <1>8, <1>9 DEF RequestStep

LEMMA HumansStay ==
  ASSUME RowsInv, NEW r \in Requests, RequestStep(r)
  PROVE  HumansExist'
<1>1. \A x \in Requests : x # r => request'[x] = request[x]
  BY ProcessesTyped DEF RowsInv, LocksInv
<1>2. \A k \in Humans : human[k].status # "absent" => human'[k].status # "absent"
  BY HumanWriters
<1>3. session \subseteq Humans /\ HumansExist
  BY DEF RowsInv, LocksInv, TypeOK
<1>4. \A k \in session' : k \in session \/ (k = request[r].human /\ request[r].pc = "session")
  <2>1. CASE IssueSession(r)
    BY <2>1 DEF IssueSession
  <2>2. CASE ~IssueSession(r)
    <3>1. session' \subseteq session
      BY <2>2
         DEF RequestStep, ResolveHuman, CompleteSetup, GrantAdmin, RevokeAdmin, DeleteHuman, RescindCode, RegisterAgent, StartLogin, LoginFails, Acquire, Check, Rollback, Callback, DeleteAccount,
             CreateCreatorToken, CreateAdminToken, Setup, ManageAdmin, RevokeCode, Register, Begin,
             IssueCreatorToken, IssueAdminToken, accounts
    <3> QED
      BY <3>1
  <2> QED
    BY <2>1, <2>2
<1>5. \A x \in Requests : request[x].pc = "session" \/ (Transaction(x) /\ request[x].op \in PersonOps \cup {"sign_in"}) =>
         request[x].human \in Humans
  BY DEF RowsInv, LocksInv, Transactions, Subjects
<1>6. \A k \in session' : human'[k].status # "absent"
  BY <1>2, <1>3, <1>4, <1>5 DEF HumansExist
<1>7. ASSUME NEW x \in Requests, x # r
      PROVE  /\ request'[x].pc = "session" => human'[request'[x].human].status # "absent"
             /\ Transaction(x)' /\ request'[x].op \in {"setup", "delete", "creator_token", "admin_token"} =>
                  human'[request'[x].human].status # "absent"
             /\ Transaction(x)' /\ request'[x].op = "sign_in" /\ ~request'[x].new =>
                  human'[request'[x].human].status # "absent"
  <2>1. request'[x] = request[x] /\ (Transaction(x)' <=> Transaction(x))
    BY <1>1, <1>7 DEF Transaction
  <2> QED
    BY <1>2, <1>3, <1>5, <2>1 DEF HumansExist, PersonOps, BootstrapFirst
<1> QED
  BY <1>6, <1>7, AsksExist DEF HumansExist

-----------------------------------------------------------------------------
(* The decisions hold.                                                         *)

LEMMA TwoAdmins ==
  ASSUME NEW h, Cardinality(ActiveAdmins) > 1
  PROVE  AnotherAdmin(h)
<1> SUFFICES ASSUME ~AnotherAdmin(h) PROVE FALSE
  OBVIOUS
<1>1. ActiveAdmins = {} \/ ActiveAdmins = {h}
  BY DEF AnotherAdmin
<1>2. Cardinality({}) = 0 /\ Cardinality({h}) = 1
  BY FS_EmptySet, FS_Singleton
<1> QED
  BY <1>1, <1>2

LEMMA CheckDecides ==
  ASSUME RowsInv, NEW r \in Requests, Check(r)
  PROVE  /\ request'[r].pc = "checked" /\ Decided(r)'
         /\ request'[r].bootstrap => request'[r].op = "sign_in" /\ request'[r].human \in BootstrapAdmins
<1> USE DEF RowsInv, LocksInv
<1> DEFINE q == request[r]
           p == request'[r]
           h == q.human
           b == q.op = "sign_in" /\ q.human \in BootstrapAdmins /\ ActiveAdmins = {}
<1>1. request \in [Requests -> RequestType] /\ q \in RequestType
  BY DEF TypeOK
<1>2. p = [q EXCEPT !.pc = "checked", !.bootstrap = b]
  BY <1>1 DEF Check
<1> HIDE DEF b
<1>3. p.pc = "checked" /\ p.op = q.op /\ p.human = q.human /\ p.code = q.code /\ p.new = q.new /\ p.bootstrap = b
  BY <1>1, <1>2 DEF RequestType
<1>4. UNCHANGED <<human, code>>
  BY DEF Check, accounts
<1>5. Admits(r) /\ request[r].pc = "locking"
  BY DEF Check
<1>6. q.op \in PersonOps \cup {"sign_in", "revoke_code", "register"}
  BY <1>5 DEF Transactions, Transaction, Subjects
<1>7. Decided(r)
  <2>1. CASE q.op \in {"sign_in", "grant_admin", "creator_token", "admin_token", "revoke_code"}
    BY <1>5, <2>1 DEF Admits, Decided
  <2>2. CASE q.op = "setup"
    BY <1>5, <2>2 DEF Admits, Decided, Consumable, Left
  <2>3. CASE q.op = "register"
    BY <1>5, <2>3 DEF Admits, Decided, Consumable, Left
  <2>4. CASE q.op = "revoke_admin"
    <3>1. h \in ActiveAdmins /\ Cardinality(ActiveAdmins) > 1
      BY <1>5, <2>4 DEF Admits
    <3>2. AnotherAdmin(h) /\ human[h].status = "active"
      BY <3>1, TwoAdmins DEF ActiveAdmins
    <3> QED
      BY <2>4, <3>2 DEF Decided
  <2>5. CASE q.op = "delete"
    <3>1. human[h].status # "deleted" /\ (human[h].admin = "granted" => Cardinality(ActiveAdmins) > 1)
      BY <1>5, <2>5 DEF Admits
    <3> QED
      BY <2>5, <3>1, TwoAdmins DEF Decided
  <2> QED
    BY <1>6, <2>1, <2>2, <2>3, <2>4, <2>5 DEF PersonOps, BootstrapFirst
<1>8. /\ AnotherAdmin(h)' <=> AnotherAdmin(h)
      /\ SomeRescinded' <=> SomeRescinded
      /\ SetupIsDone(h)' <=> SetupIsDone(h)
      /\ Left(q.code)' <=> Left(q.code)
  BY <1>3, <1>4 DEF AnotherAdmin, ActiveAdmins, SomeRescinded, SetupIsDone, Left
<1>9. Decided(r)'
  <2>1. CASE q.op \in {"sign_in", "grant_admin", "creator_token", "admin_token", "revoke_code"}
    BY <1>3, <1>4, <1>7, <2>1 DEF Decided
  <2>2. CASE q.op = "setup"
    BY <1>3, <1>4, <1>7, <1>8, <2>2 DEF Decided, SetupIsDone, Left
  <2>3. CASE q.op = "register"
    BY <1>3, <1>4, <1>7, <1>8, <2>3 DEF Decided, Left
  <2>4. CASE q.op = "revoke_admin"
    BY <1>3, <1>4, <1>7, <1>8, <2>4 DEF Decided, AnotherAdmin, ActiveAdmins
  <2>5. CASE q.op = "delete"
    BY <1>3, <1>4, <1>7, <1>8, <2>5 DEF Decided, AnotherAdmin, ActiveAdmins
  <2> QED
    BY <1>6, <2>1, <2>2, <2>3, <2>4, <2>5 DEF PersonOps, BootstrapFirst
<1> QED
  BY <1>3, <1>9 DEF b

\* What another request has decided, no step of r takes back.
LEMMA DecisionOfAnother ==
  ASSUME RowsInv, NEW r \in Requests, RequestStep(r), NEW x \in Requests, x # r, request[x].pc = "checked"
  PROVE  Decided(x)'
<1> USE DEF RowsInv, LocksInv
<1> DEFINE q == request[x]
           h == q.human
           c == q.code
<1>1. request'[x] = q
  BY ProcessesTyped
<1>2. /\ Transaction(x) /\ q.op \in PersonOps \cup {"sign_in", "revoke_code", "register"}
      /\ q.op \in PersonOps \cup {"sign_in"} => h \in Humans
      /\ q.op \in {"setup", "revoke_code", "register"} => c \in Codes
  BY WritersAreChecked DEF Subjects
<1>3. Decided(x)
  BY DEF DecisionsHold
<1>4. q.op \in PersonOps /\ human[h].status # "absent" => human'[h] = human[h]
  <2> SUFFICES ASSUME q.op \in PersonOps, human[h].status # "absent" PROVE human'[h] = human[h]
    OBVIOUS
  <2>1. h \in Humans /\ h \in Owes(q)
    BY <1>2, RowNames DEF Owes
  <2>2. holder[h] = x
    BY <2>1, CheckedHolds
  <2> QED
    BY <2>1, <2>2, HumanWriters
<1>5. q.op = "setup" \/ (q.op = "register" /\ ~PublicRegistration) => code'[c] = code[c]
  <2> SUFFICES ASSUME q.op = "setup" \/ (q.op = "register" /\ ~PublicRegistration) PROVE code'[c] = code[c]
    OBVIOUS
  <2>1. c \in Codes /\ c \in Owes(q)
    BY <1>2, RowNames DEF Owes
  <2>2. holder[c] = x
    BY <2>1, CheckedHolds
  <2> QED
    BY <2>1, <2>2, CodeWriters
<1>6. q.op \in BootstrapFirst /\ (AnotherAdmin(h) \/ SomeRescinded) => AnotherAdmin(h)' \/ SomeRescinded'
  <2> SUFFICES ASSUME q.op \in BootstrapFirst, AnotherAdmin(h) \/ SomeRescinded
               PROVE  AnotherAdmin(h)' \/ SomeRescinded'
    OBVIOUS
  <2>1. BA \in Owes(q)
    BY RowNames DEF Owes
  <2>2. holder[BA] = x
    BY <2>1, CheckedHolds
  <2>3. CASE SomeRescinded
    BY <2>3, RescindedStays
  <2>4. CASE AnotherAdmin(h)
    <3>1. PICK y \in ActiveAdmins : y # h
      BY <2>4 DEF AnotherAdmin
    <3>2. y \in ActiveAdmins' \/ SomeRescinded'
      BY <2>2, AdminWriters
    <3>3. h' = h
      BY <1>1
    <3> QED
      BY <3>1, <3>2, <3>3 DEF AnotherAdmin
  <2> QED
    BY <2>3, <2>4
<1>7. CASE q.op = "sign_in"
  <2>1. CASE q.new
    BY <1>1, <1>7, <2>1 DEF Decided
  <2>2. CASE ~q.new
    <3>1. h \in Humans /\ h \in Owes(q)
      BY <1>2, <1>7, <2>2, RowNames DEF Owes
    <3>2. holder[h] = x /\ human[h].status # "absent"
      BY <1>2, <1>7, <2>2, <3>1, CheckedHolds DEF HumansExist
    <3>3. human'[h] = human[h]
      BY <3>1, <3>2, HumanWriters
    <3> QED
      BY <1>1, <1>3, <1>7, <3>3 DEF Decided
  <2> QED
    BY <2>1, <2>2
<1>8. CASE q.op = "setup"
  <2>1. human[h].status # "absent"
    BY <1>2, <1>8 DEF HumansExist
  <2>2. human'[h] = human[h] /\ code'[c] = code[c]
    BY <1>4, <1>5, <1>8, <2>1 DEF PersonOps
  <2>3. human[h].status # "deleted" /\ (SetupIsDone(h) \/ (Left(c) /\ code[c].status # "revoked"))
    BY <1>3, <1>8 DEF Decided
  <2>4. human'[h].status # "deleted" /\ (SetupIsDone(h)' \/ (Left(c)' /\ code'[c].status # "revoked"))
    BY <1>1, <2>2, <2>3 DEF SetupIsDone, Left
  <2> QED
    BY <1>1, <1>8, <2>4 DEF Decided
<1>9. CASE q.op = "grant_admin"
  <2>1. human[h].status = "active"
    BY <1>3, <1>9 DEF Decided
  <2>2. human'[h] = human[h]
    BY <1>4, <1>9, <2>1 DEF PersonOps, BootstrapFirst
  <2> QED
    BY <1>1, <1>9, <2>1, <2>2 DEF Decided
<1>10. CASE q.op = "revoke_admin"
  <2>1. human[h].status = "active" /\ (AnotherAdmin(h) \/ SomeRescinded)
    BY <1>3, <1>10 DEF Decided
  <2>2. human'[h] = human[h] /\ (AnotherAdmin(h)' \/ SomeRescinded')
    BY <1>4, <1>6, <1>10, <2>1 DEF PersonOps, BootstrapFirst
  <2> QED
    BY <1>1, <1>10, <2>1, <2>2 DEF Decided
<1>11. CASE q.op = "delete"
  <2>1. human[h].status # "deleted" /\ (human[h].admin = "granted" => AnotherAdmin(h) \/ SomeRescinded)
    BY <1>3, <1>11 DEF Decided
  <2>2. human[h].status # "absent"
    BY <1>2, <1>11 DEF HumansExist
  <2>3. human'[h] = human[h] /\ (human[h].admin = "granted" => AnotherAdmin(h)' \/ SomeRescinded')
    BY <1>4, <1>6, <1>11, <2>1, <2>2 DEF PersonOps, BootstrapFirst
  <2> QED
    BY <1>1, <1>11, <2>1, <2>3 DEF Decided
<1>12. CASE q.op = "register"
  <2>1. PublicRegistration \/ (Left(c) /\ code[c].status # "revoked")
    BY <1>3, <1>12 DEF Decided
  <2>2. PublicRegistration \/ (Left(c)' /\ code'[c].status # "revoked")
    BY <1>1, <1>5, <1>12, <2>1 DEF Left
  <2> QED
    BY <1>1, <1>12, <2>2 DEF Decided
<1>13. CASE q.op \in {"creator_token", "admin_token", "revoke_code"}
  BY <1>1, <1>13 DEF Decided
<1> QED
  BY <1>2, <1>7, <1>8, <1>9, <1>10, <1>11, <1>12, <1>13 DEF PersonOps, BootstrapFirst

LEMMA DecisionsStay ==
  ASSUME RowsInv, NEW r \in Requests, RequestStep(r)
  PROVE  DecisionsHold'
<1>1. \A x \in Requests : x # r => request'[x] = request[x]
  BY ProcessesTyped DEF RowsInv, LocksInv
<1>2. request'[r].pc = "checked" => Check(r)
  <2>1. Starts(r) \/ Acquire(r) => request'[r].pc = "locking"
    BY AcquireMoves DEF Starts, Begins, RowsInv, LocksInv
  <2>2. Finishes(r) => request'[r].pc \in {"idle", "session"}
    <3>1. request[r] \in RequestType
      BY DEF RowsInv, LocksInv, TypeOK
    <3> QED
      BY <3>1 DEF Finishes, Idle, RequestType
  <2>3. Passes(r) => request'[r].pc \in {"idle", "state"}
    <3>1. CASE request'[r] = Idle
      BY <3>1 DEF Idle
    <3>2. CASE request'[r] = [Idle EXCEPT !.op = "sign_in", !.pc = "state"]
      BY <3>2 DEF Idle
    <3> QED
      BY <3>1, <3>2 DEF Passes
  <2> QED
    BY <2>1, <2>2, <2>3, Kinds DEF RowsInv, LocksInv
<1>3. ASSUME NEW x \in Requests, request'[x].pc = "checked"
      PROVE  /\ Decided(x)'
             /\ request'[x].bootstrap => request'[x].op = "sign_in" /\ request'[x].human \in BootstrapAdmins
  <2>1. CASE x = r
    BY <1>2, <1>3, <2>1, CheckDecides
  <2>2. CASE x # r
    <3>1. request'[x] = request[x] /\ request[x].pc = "checked"
      BY <1>1, <1>3, <2>2
    <3>2. request[x].bootstrap => request[x].op = "sign_in" /\ request[x].human \in BootstrapAdmins
      BY <3>1 DEF RowsInv, DecisionsHold
    <3> QED
      BY <2>2, <3>1, <3>2, DecisionOfAnother
  <2> QED
    BY <2>1, <2>2
<1> QED
  BY <1>3 DEF DecisionsHold

LEMMA RowsInvStays ==
  ASSUME RowsInv, NEW r \in Requests, RequestStep(r)
  PROVE  RowsInv'
  BY LocksStay, HumansStay, DecisionsStay DEF RowsInv

-----------------------------------------------------------------------------
(* What a code grants.                                                         *)

GrantsInv ==
    /\ RowsInv
    /\ DeletedHasNoRole
    /\ RegisteredExist
    /\ CodeWithinMaxUses
    /\ RevokedCodeGrantsNothing
    /\ AdminRemains

LEMMA UsesGrow ==
  ASSUME TypeOK, NEW c \in Codes, NEW k, code' = [code EXCEPT ![c].uses = @ \cup {k}]
  PROVE  \A d \in Codes : /\ code'[d].status = code[d].status
                          /\ code'[d].uses = IF d = c THEN code[d].uses \cup {k} ELSE code[d].uses
  BY DEF TypeOK, CodeType

LEMMA CodeIsRevoked ==
  ASSUME TypeOK, NEW c \in Codes, code' = [code EXCEPT ![c].status = "revoked"]
  PROVE  \A d \in Codes : /\ code'[d].status = IF d = c THEN "revoked" ELSE code[d].status
                          /\ code'[d].uses = code[d].uses
  BY DEF TypeOK, CodeType

LEMMA OneMoreUse ==
  ASSUME TypeOK, UsesAreFinite, CodeWithinMaxUses, NEW c \in Codes, Left(c), NEW k,
         code' = [code EXCEPT ![c].uses = @ \cup {k}]
  PROVE  CodeWithinMaxUses'
<1>1. IsFiniteSet(code[c].uses)
  BY DEF UsesAreFinite
<1>2. /\ Cardinality(code[c].uses) \in Nat /\ Cardinality(code[c].uses \cup {k}) \in Nat
      /\ Cardinality(code[c].uses \cup {k}) <= Cardinality(code[c].uses) + 1
  <2>1. IsFiniteSet(code[c].uses \cup {k})
    BY <1>1, FS_AddElement
  <2>2. Cardinality(code[c].uses \cup {k}) =
          IF k \in code[c].uses THEN Cardinality(code[c].uses) ELSE Cardinality(code[c].uses) + 1
    BY <1>1, FS_AddElement
  <2>3. Cardinality(code[c].uses) \in Nat /\ Cardinality(code[c].uses \cup {k}) \in Nat
    BY <1>1, <2>1, FS_CardinalityType
  <2> QED
    BY <2>2, <2>3
<1>3. MaxUses[c] \in Int
  BY UsesAssumption
<1>4. MaxUses[c] = -1 \/ Cardinality(code[c].uses \cup {k}) <= MaxUses[c]
  BY <1>2, <1>3 DEF Left
<1> QED
  BY <1>4, UsesGrow DEF CodeWithinMaxUses

LEMMA UsesStayWithin ==
  ASSUME GrantsInv, NEW r \in Requests, RequestStep(r)
  PROVE  CodeWithinMaxUses'
<1> USE DEF GrantsInv, RowsInv, LocksInv
<1>1. CASE UNCHANGED code
  BY <1>1 DEF CodeWithinMaxUses
<1>2. CASE CompleteSetup(r)
  <2>1. \/ UNCHANGED code
        \/ /\ request[r].code \in Codes /\ Left(request[r].code)
           /\ code' = [code EXCEPT ![request[r].code].uses = @ \cup {request[r].human}]
    BY <1>2, SetupWrites, Zenon
  <2> QED
    BY <1>1, <2>1, OneMoreUse
<1>3. ASSUME NEW a \in Agents, RegisterAgent(r, a) PROVE CodeWithinMaxUses'
  <2>1. \/ UNCHANGED code
        \/ /\ request[r].code \in Codes /\ Left(request[r].code)
           /\ code' = [code EXCEPT ![request[r].code].uses = @ \cup {a}]
    BY <1>3, RegisterWrites, Zenon
  <2> QED
    BY <1>1, <2>1, OneMoreUse
<1>4. CASE RescindCode(r)
  <2>1. request[r].code \in Codes /\ code' = [code EXCEPT ![request[r].code].status = "revoked"]
    BY <1>4, RescindWrites, Zenon
  <2> QED
    BY <2>1, CodeIsRevoked DEF CodeWithinMaxUses
<1>5. ResolveHuman(r) \/ GrantAdmin(r) \/ RevokeAdmin(r) \/ DeleteHuman(r) => UNCHANGED code
  BY DEF ResolveHuman, GrantAdmin, RevokeAdmin, DeleteHuman
<1> QED
  BY <1>1, <1>2, <1>3, <1>4, <1>5, RowWriters DEF RowStep

\* An active human has a code that stands, or is a bootstrap admin.
ActiveIsAdmitted ==
    \A h \in Humans : human[h].status = "active" =>
        h \in BootstrapAdmins \/ \E c \in Codes : code[c].status # "revoked" /\ h \in code[c].uses

\* An agent of a revoked code has nothing left.
RevokedAgentsAreOut ==
    \A c \in Codes, a \in Agents : code[c].status = "revoked" /\ a \in code[c].uses =>
        agent[a].status = "disabled" /\ ~agent[a].token

LEMMA NothingIsTwoThings ==
  RevokedCodeGrantsNothing <=> ActiveIsAdmitted /\ RevokedAgentsAreOut
  BY DEF RevokedCodeGrantsNothing, ActiveIsAdmitted, RevokedAgentsAreOut

LEMMA AdmittedStay ==
  ASSUME GrantsInv, NEW r \in Requests, RequestStep(r)
  PROVE  ActiveIsAdmitted'
<1> USE DEF GrantsInv, RowsInv, LocksInv
<1>0. TypeOK /\ ActiveIsAdmitted
  BY NothingIsTwoThings
<1>1. CASE UNCHANGED <<human, code>>
  BY <1>0, <1>1 DEF ActiveIsAdmitted
<1>2. CASE ResolveHuman(r)
  <2> DEFINE h == request[r].human
  <2>1. PICK m \in HumanType :
               /\ Sets(h, m)
               /\ m.status = "active" => h \in BootstrapAdmins \/ m = human[h]
    BY <1>2, ResolveWrites
  <2>2. h \in Humans /\ code' = code
    BY <1>2, ResolveWrites
  <2>3. \A k \in Humans : human'[k] = IF k = h THEN m ELSE human[k]
    BY <1>0, <2>1, <2>2, SetsOne
  <2> QED
    BY <1>0, <2>1, <2>2, <2>3 DEF ActiveIsAdmitted
<1>3. CASE CompleteSetup(r) /\ ~UNCHANGED <<human, code>>
  <2> DEFINE h == request[r].human
             c == request[r].code
  <2>1. h \in Humans /\ c \in Codes
    BY <1>3, SetupWrites
  <2>2. /\ \E m \in HumanType : Sets(h, m)
        /\ code' = [code EXCEPT ![c].uses = @ \cup {h}] /\ code[c].status # "revoked"
    BY <1>3, SetupWrites
  <2>3. \A k \in Humans : k # h => human'[k] = human[k]
    BY <1>0, <2>1, <2>2, SetsOne
  <2>4. \A d \in Codes : /\ code'[d].status = code[d].status
                         /\ code'[d].uses = IF d = c THEN code[d].uses \cup {h} ELSE code[d].uses
    BY <1>0, <2>1, <2>2 DEF TypeOK, CodeType
  <2>5. /\ \A d \in Codes : code'[d].status = code[d].status /\ code[d].uses \subseteq code'[d].uses
        /\ code'[c].status # "revoked" /\ h \in code'[c].uses
    BY <2>1, <2>2, <2>4
  <2> QED
    <3> HIDE DEF h, c
    <3>1. ASSUME NEW k \in Humans, human'[k].status = "active"
          PROVE  k \in BootstrapAdmins \/ \E d \in Codes : code'[d].status # "revoked" /\ k \in code'[d].uses
      <4>1. CASE k = h
        BY <2>1, <2>5, <4>1
      <4>2. CASE k # h
        BY <1>0, <2>3, <2>5, <3>1, <4>2 DEF ActiveIsAdmitted
      <4> QED
        BY <4>1, <4>2
    <3> QED
      BY <3>1 DEF ActiveIsAdmitted
<1>4. CASE GrantAdmin(r) \/ RevokeAdmin(r)
  <2> DEFINE h == request[r].human
  <2>1. h \in Humans /\ human[h].status = "active" /\ code' = code /\ \E m \in HumanType : Sets(h, m)
    BY <1>4, RoleWrites
  <2>2. \A k \in Humans : k # h => human'[k] = human[k]
    BY <1>0, <2>1, SetsOne
  <2> QED
    BY <1>0, <2>1, <2>2 DEF ActiveIsAdmitted
<1>5. CASE DeleteHuman(r)
  <2> DEFINE h == request[r].human
  <2>1. h \in Humans /\ code' = code
    BY <1>5, DeleteWrites
  <2>2. PICK m \in HumanType : Sets(h, m) /\ m.status = "deleted"
    BY <1>5, DeleteWrites
  <2>3. \A k \in Humans : human'[k] = IF k = h THEN m ELSE human[k]
    BY <1>0, <2>1, <2>2, SetsOne
  <2> QED
    BY <1>0, <2>1, <2>2, <2>3 DEF ActiveIsAdmitted
<1>6. CASE RescindCode(r)
  <2> DEFINE c == request[r].code
  <2>1. c \in Codes /\ code' = [code EXCEPT ![c].status = "revoked"]
    BY <1>6, RescindWrites, Zenon
  <2>2. \A d \in Codes : code'[d].uses = code[d].uses /\ (d # c => code'[d].status = code[d].status)
    BY <1>0, <2>1, CodeIsRevoked
  <2>3. ASSUME NEW k \in Humans, human'[k].status = "active"
        PROVE  k \notin code[c].uses /\ human[k].status = "active"
    BY <1>6, <2>3, RescindWrites
  <2> QED
    BY <1>0, <2>2, <2>3 DEF ActiveIsAdmitted
<1>7. ASSUME NEW a \in Agents, RegisterAgent(r, a) PROVE ActiveIsAdmitted'
  <2>1. \/ UNCHANGED code
        \/ request[r].code \in Codes /\ code' = [code EXCEPT ![request[r].code].uses = @ \cup {a}]
    BY <1>7, RegisterWrites, Zenon
  <2>2. human' = human
    BY <1>7, RegisterWrites DEF accounts
  <2>3. \A d \in Codes : code'[d].status = code[d].status /\ code[d].uses \subseteq code'[d].uses
    BY ZenonT(40), <1>0, <2>1, UsesGrow
  <2> QED
    BY <1>0, <2>2, <2>3 DEF ActiveIsAdmitted
<1> QED
  BY <1>1, <1>2, <1>3, <1>4, <1>5, <1>6, <1>7, RowWriters DEF RowStep

LEMMA RevokedStayOut ==
  ASSUME GrantsInv, NEW r \in Requests, RequestStep(r)
  PROVE  RevokedAgentsAreOut' /\ RegisteredExist'
<1> USE DEF GrantsInv, RowsInv, LocksInv
<1>0. TypeOK /\ RevokedAgentsAreOut /\ RegisteredExist
  BY NothingIsTwoThings
<1>1. CASE UNCHANGED <<code, agent>>
  BY <1>0, <1>1 DEF RevokedAgentsAreOut, RegisteredExist
<1>2. ResolveHuman(r) \/ GrantAdmin(r) \/ RevokeAdmin(r) \/ DeleteHuman(r) => UNCHANGED <<code, agent>>
  BY DEF ResolveHuman, GrantAdmin, RevokeAdmin, DeleteHuman
<1>3. CASE CompleteSetup(r) /\ ~UNCHANGED <<code, agent>>
  <2> DEFINE h == request[r].human
             c == request[r].code
  <2>1. h \in Humans /\ c \in Codes /\ agent' = agent
    BY <1>3, SetupWrites
  <2>2. code' = [code EXCEPT ![c].uses = @ \cup {h}]
    BY <1>3, SetupWrites
  <2>3. h \notin Agents
    BY <2>1, RowsAssumption
  <2>4. \A d \in Codes, a \in Agents : /\ code'[d].status = code[d].status
                                       /\ a \in code'[d].uses => a \in code[d].uses
    BY <1>0, <2>1, <2>2, <2>3, UsesGrow
  <2> QED
    BY <1>0, <2>1, <2>4 DEF RevokedAgentsAreOut, RegisteredExist
<1>4. CASE RescindCode(r)
  <2> DEFINE c == request[r].code
  <2>1. c \in Codes /\ code' = [code EXCEPT ![c].status = "revoked"]
    BY <1>4, RescindWrites, Zenon
  <2>2. \A d \in Codes : code'[d].uses = code[d].uses /\ (d # c => code'[d].status = code[d].status)
    BY <1>0, <2>1, CodeIsRevoked
  <2>3. \A a \in Agents : agent'[a] = IF a \in code[c].uses
                                      THEN [status |-> "disabled", token |-> FALSE] ELSE agent[a]
    BY <1>4, RescindWrites, Zenon
  <2>4. \A a \in Agents : /\ a \in code[c].uses => agent'[a].status = "disabled" /\ ~agent'[a].token
                          /\ a \notin code[c].uses => agent'[a] = agent[a]
    BY <2>3
  <2> QED
    BY <1>0, <2>2, <2>4 DEF RevokedAgentsAreOut, RegisteredExist
<1>5. ASSUME NEW a \in Agents, RegisterAgent(r, a) PROVE RevokedAgentsAreOut' /\ RegisteredExist'
  <2> DEFINE c == request[r].code
  <2>1. \/ UNCHANGED code
        \/ c \in Codes /\ code' = [code EXCEPT ![c].uses = @ \cup {a}] /\ code[c].status # "revoked"
    BY <1>5, RegisterWrites, Zenon
  <2>2. agent[a].status = "absent" /\ agent' = [agent EXCEPT ![a] = [status |-> "active", token |-> TRUE]]
    BY <1>5, RegisterWrites, Zenon
  <2>3. \A d \in Codes : a \notin code[d].uses
    BY <1>0, <2>2 DEF RegisteredExist
  <2>4. agent'[a].status = "active" /\ \A b \in Agents : b # a => agent'[b] = agent[b]
    BY <1>0, <2>2 DEF TypeOK
  <2>5. \A d \in Codes, b \in Agents :
           /\ code'[d].status = code[d].status
           /\ b \in code'[d].uses => b \in code[d].uses \/ (b = a /\ code[d].status # "revoked")
    <3>1. CASE UNCHANGED code
      BY <3>1
    <3>2. CASE c \in Codes /\ code' = [code EXCEPT ![c].uses = @ \cup {a}] /\ code[c].status # "revoked"
      <4>1. \A d \in Codes : /\ code'[d].status = code[d].status
                             /\ code'[d].uses = IF d = c THEN code[d].uses \cup {a} ELSE code[d].uses
        BY <1>0, <3>2 DEF TypeOK, CodeType
      <4> HIDE DEF c
      <4>2. ASSUME NEW d \in Codes, NEW b \in Agents, b \in code'[d].uses
            PROVE  b \in code[d].uses \/ (b = a /\ code[d].status # "revoked")
        <5>1. CASE d = c
          BY <3>2, <4>1, <4>2, <5>1
        <5>2. CASE d # c
          BY <4>1, <4>2, <5>2
        <5> QED
          BY <5>1, <5>2
      <4>3. \A d \in Codes : code'[d].status = code[d].status
        BY <4>1
      <4> QED
        BY <4>2, <4>3, Zenon
    <3> QED
      BY <2>1, <3>1, <3>2
  <2> QED
    BY <1>0, <2>3, <2>4, <2>5 DEF RevokedAgentsAreOut, RegisteredExist
<1> QED
  BY <1>1, <1>2, <1>3, <1>4, <1>5, RowWriters DEF RowStep

\* A deleted account is not written again, and a deletion leaves no role.
DeletedStay ==
    \A h \in Humans : human[h].status = "deleted" =>
        human'[h].status = "deleted" /\ human'[h].admin # "granted" /\ human'[h].creator # "granted"

LEMMA DeletedAreLeft ==
  ASSUME GrantsInv, NEW r \in Requests, RequestStep(r)
  PROVE  DeletedHasNoRole' /\ DeletedStay
<1> USE DEF GrantsInv, RowsInv, LocksInv
<1>0. TypeOK /\ DeletedHasNoRole
  OBVIOUS
<1>1. CASE UNCHANGED human
  BY <1>0, <1>1 DEF DeletedHasNoRole, DeletedStay
<1>2. ASSUME NEW h \in Humans, NEW m \in HumanType, Sets(h, m),
             \/ m.status = "deleted" /\ m.admin # "granted" /\ m.creator # "granted"
             \/ m.status # "deleted" /\ human[h].status # "deleted"
      PROVE  DeletedHasNoRole' /\ DeletedStay
  <2>1. \A k \in Humans : human'[k] = IF k = h THEN m ELSE human[k]
    BY <1>0, <1>2, SetsOne
  <2> QED
    BY <1>0, <1>2, <2>1 DEF DeletedHasNoRole, DeletedStay
<1>3. CASE ResolveHuman(r)
  <2>1. PICK m \in HumanType : Sets(request[r].human, m) /\ m.status # "deleted"
    BY <1>3, ResolveWrites
  <2>2. request[r].human \in Humans /\ human[request[r].human].status # "deleted"
    BY <1>3, ResolveWrites
  <2> QED
    BY <1>2, <2>1, <2>2
<1>4. CASE CompleteSetup(r)
  <2>1. request[r].human \in Humans /\ human[request[r].human].status # "deleted"
    BY <1>4, SetupWrites
  <2>2. UNCHANGED human \/ \E m \in HumanType : Sets(request[r].human, m) /\ m.status = "active"
    BY <1>4, SetupWrites
  <2> QED
    BY <1>1, <1>2, <2>1, <2>2
<1>5. CASE GrantAdmin(r) \/ RevokeAdmin(r)
  <2>1. request[r].human \in Humans /\ human[request[r].human].status = "active"
    BY <1>5, RoleWrites
  <2>2. PICK m \in HumanType : Sets(request[r].human, m) /\ m.status = "active"
    BY <1>5, RoleWrites
  <2> QED
    BY <1>2, <2>1, <2>2
<1>6. CASE DeleteHuman(r)
  <2>1. PICK m \in HumanType : /\ Sets(request[r].human, m) /\ m.status = "deleted"
                               /\ m.creator # "granted" /\ m.admin # "granted"
    BY <1>6, DeleteWrites
  <2>2. request[r].human \in Humans
    BY <1>6, DeleteWrites
  <2> QED
    BY <1>2, <2>1, <2>2
<1>7. CASE RescindCode(r)
  <2>1. ASSUME NEW k \in Humans
        PROVE  /\ human'[k].status = "deleted" <=> human[k].status = "deleted"
               /\ human'[k].admin = human[k].admin
               /\ human'[k].creator = human[k].creator \/ human'[k].creator # "granted"
    <3>1. CASE k \in code[request[r].code].uses
      BY <1>7, <3>1, RescindWrites
    <3>2. CASE k \notin code[request[r].code].uses
      BY <1>7, <3>2, RescindWrites
    <3> QED
      BY <3>1, <3>2
  <2> QED
    BY <1>0, <2>1 DEF DeletedHasNoRole, DeletedStay
<1>8. CASE \E a \in Agents : RegisterAgent(r, a)
  BY <1>1, <1>8, RegisterWrites DEF accounts
<1> QED
  BY <1>1, <1>3, <1>4, <1>5, <1>6, <1>7, <1>8, RowWriters DEF RowStep

\* An admin that the step leaves alone, or a revoked code.
LEMMA AdminsLeft ==
  ASSUME GrantsInv, NEW r \in Requests, RequestStep(r)
  PROVE  AdminRemains'
<1> USE DEF GrantsInv, RowsInv, LocksInv
<1>0. TypeOK /\ AdminRemains
  OBVIOUS
<1>1. SomeRescinded \/ (\E y \in ActiveAdmins : y \in ActiveAdmins') => AdminRemains'
  BY RescindedStays DEF AdminRemains, SomeRescinded
<1>2. SomeRescinded' => AdminRemains'
  BY DEF AdminRemains, SomeRescinded
\* No role was given out in this step, and no admin lost his.
<1>3. ASSUME \A h \in Humans : human'[h].admin # "none" => human[h].admin # "none",
             ~RevokeAdmin(r), ~DeleteHuman(r)
      PROVE  AdminRemains'
  <2>1. CASE \A h \in Humans : human[h].admin = "none"
    BY <1>3, <2>1 DEF AdminRemains
  <2>2. CASE SomeRescinded
    BY <1>1, <2>2
  <2>3. CASE ActiveAdmins # {}
    BY <1>1, <1>2, <1>3, <2>3, AdminWriters
  <2> QED
    BY <1>0, <2>1, <2>2, <2>3 DEF AdminRemains, SomeRescinded
<1>4. ASSUME NEW h \in Humans, NEW m \in HumanType, Sets(h, m), m.status = "active", m.admin = "granted"
      PROVE  AdminRemains'
  <2>1. human'[h] = m
    BY <1>0, <1>4, SetsOne
  <2> QED
    BY <1>4, <2>1 DEF AdminRemains, ActiveAdmins
<1>5. CASE ResolveHuman(r)
  <2> DEFINE h == request[r].human
  <2>1. PICK m \in HumanType :
               /\ Sets(h, m)
               /\ \/ m.status = "active" /\ m.admin = "granted"
                  \/ m.admin = human[h].admin
    BY <1>5, ResolveWrites
  <2>2. h \in Humans /\ request[r].op = "sign_in"
    BY <1>5, ResolveWrites DEF ResolveHuman
  <2>3. ~RevokeAdmin(r) /\ ~DeleteHuman(r)
    BY <2>2 DEF RevokeAdmin, DeleteHuman, Ends
  <2>4. \A k \in Humans : human'[k] = IF k = h THEN m ELSE human[k]
    BY <1>0, <2>1, <2>2, SetsOne
  <2>5. CASE m.admin = human[h].admin
    BY <1>3, <2>3, <2>4, <2>5
  <2> QED
    BY <1>4, <2>1, <2>2, <2>5
<1>6. CASE CompleteSetup(r)
  <2> DEFINE h == request[r].human
  <2>1. UNCHANGED human \/ \E m \in HumanType : Sets(h, m) /\ m.admin = human[h].admin
    BY <1>6, SetupWrites
  <2>2. h \in Humans /\ request[r].op = "setup"
    BY <1>6, SetupWrites DEF CompleteSetup, Ends
  <2>3. ~RevokeAdmin(r) /\ ~DeleteHuman(r)
    BY <2>2 DEF RevokeAdmin, DeleteHuman, Ends
  <2>4. \A k \in Humans : human'[k].admin = human[k].admin
    BY <1>0, <2>1, <2>2, SetsOne
  <2> QED
    BY <1>3, <2>3, <2>4
<1>7. CASE GrantAdmin(r)
  <2>1. PICK m \in HumanType : Sets(request[r].human, m) /\ m.status = "active" /\ (m.admin = "granted" \/ RevokeAdmin(r))
    BY <1>7, RoleWrites
  <2>2. request[r].human \in Humans /\ ~RevokeAdmin(r)
    BY <1>7, RoleWrites DEF GrantAdmin, RevokeAdmin, Ends
  <2> QED
    BY <1>4, <2>1, <2>2
<1>8. CASE RevokeAdmin(r) \/ DeleteHuman(r)
  <2> DEFINE h == request[r].human
  <2>1. AnotherAdmin(h) => AdminRemains'
    <3>1. \A y \in ActiveAdmins : y # h => y \in ActiveAdmins' \/ SomeRescinded'
      BY AdminWriters
    <3> QED
      BY <1>1, <1>2, <3>1 DEF AnotherAdmin
  <2>2. CASE AnotherAdmin(h) \/ SomeRescinded
    BY <1>1, <2>1, <2>2
  <2>3. CASE ~(AnotherAdmin(h) \/ SomeRescinded)
    <3>1. DeleteHuman(r) /\ h \in Humans /\ human[h].admin # "granted"
      <4>1. RevokeAdmin(r) => ~GrantAdmin(r)
        BY DEF RevokeAdmin, GrantAdmin, Ends
      <4>2. ~RevokeAdmin(r)
        BY <2>3, <4>1, RoleWrites
      <4>3. DeleteHuman(r)
        BY <1>8, <4>2
      <4> QED
        BY <2>3, <4>3, DeleteWrites
    <3>2. ActiveAdmins = {}
      BY <2>3, <3>1 DEF AnotherAdmin, ActiveAdmins
    <3>3. \A k \in Humans : human[k].admin = "none"
      BY <1>0, <2>3, <3>2 DEF AdminRemains, SomeRescinded
    <3>4. PICK m \in HumanType : Sets(h, m) /\ (human[h].admin = "none" => m.admin = "none")
      BY <3>1, DeleteWrites
    <3>5. \A k \in Humans : human'[k].admin = "none"
      BY <1>0, <3>1, <3>3, <3>4, SetsOne
    <3> QED
      BY <3>5 DEF AdminRemains
  <2> QED
    BY <2>2, <2>3
<1>9. CASE RescindCode(r)
  <2>1. \A k \in Humans : human'[k].admin = human[k].admin
    BY <1>9, RescindWrites
  <2>2. request[r].op = "revoke_code"
    BY <1>9 DEF RescindCode, Ends
  <2>3. ~RevokeAdmin(r) /\ ~DeleteHuman(r)
    BY <2>2 DEF RevokeAdmin, DeleteHuman, Ends
  <2> QED
    BY <1>3, <2>1, <2>3
<1>10. CASE UNCHANGED human /\ ~RevokeAdmin(r) /\ ~DeleteHuman(r)
  BY <1>3, <1>10
<1>11. ASSUME NEW a \in Agents, RegisterAgent(r, a) PROVE UNCHANGED human /\ ~RevokeAdmin(r) /\ ~DeleteHuman(r)
  BY <1>11 DEF RegisterAgent, RevokeAdmin, DeleteHuman, Ends, accounts
<1> QED
  BY <1>5, <1>6, <1>7, <1>8, <1>9, <1>10, <1>11, RowWriters DEF RowStep

LEMMA RequestsKeepGrants ==
  ASSUME GrantsInv, NEW r \in Requests, RequestStep(r)
  PROVE  GrantsInv' /\ DeletedStay
<1>1. RowsInv'
  BY RowsInvStays DEF GrantsInv
<1>2. CodeWithinMaxUses' /\ AdminRemains' /\ RegisteredExist' /\ DeletedHasNoRole' /\ DeletedStay
  BY UsesStayWithin, AdminsLeft, RevokedStayOut, DeletedAreLeft
<1>3. ActiveIsAdmitted' /\ RevokedAgentsAreOut'
  BY AdmittedStay, RevokedStayOut
<1>4. RevokedCodeGrantsNothing'
  BY <1>3 DEF RevokedCodeGrantsNothing, ActiveIsAdmitted, RevokedAgentsAreOut
<1> QED
  BY <1>1, <1>2, <1>4 DEF GrantsInv

-----------------------------------------------------------------------------
(* Requests of one statement.                                                  *)

\* What none of them touches.
Apart == UNCHANGED <<human, holder, request>> /\ session' \subseteq session

\* Codes that move from absent to active, or from active to expired.
CodesAge ==
    \A c \in Codes : /\ code'[c].uses = code[c].uses
                     /\ code'[c].status = "revoked" <=> code[c].status = "revoked"

LEMMA StatementsLeave ==
  ASSUME GrantsInv,
         \/ \E c \in Codes : CreateCode(c) \/ CodeExpires(c)
         \/ \E h \in Humans : SessionEnds(h) \/ RevokeCreatorToken(h)
         \/ \E by, h \in Humans : RevokeAdminToken(by, h)
         \/ \E a \in Agents : DisableAgent(a)
         \/ UNCHANGED vars
  PROVE  /\ Apart /\ CodesAge /\ TypeOK'
         /\ \A a \in Agents : \/ agent'[a] = agent[a]
                              \/ /\ agent[a].status # "absent" /\ agent'[a].status = "disabled"
                                 /\ agent'[a].token => agent[a].token
<1> USE DEF GrantsInv, RowsInv, LocksInv
<1>1. CASE \E c \in Codes : CreateCode(c) \/ CodeExpires(c)
  <2>1. PICK c \in Codes : CreateCode(c) \/ CodeExpires(c)
    BY <1>1
  <2>2. PICK s \in {"active", "expired"} : code[c].status # "revoked" /\ code' = [code EXCEPT ![c].status = s]
    BY <2>1 DEF CreateCode, CodeExpires
  <2>3. code' \in [Codes -> CodeType] /\ CodesAge
    BY <2>2 DEF TypeOK, CodeType, CodesAge
  <2>4. UNCHANGED <<accounts, agent, holder, request>>
    BY <2>1 DEF CreateCode, CodeExpires
  <2> QED
    BY <2>3, <2>4 DEF TypeOK, Apart, accounts
<1>2. CASE (\E h \in Humans : SessionEnds(h) \/ RevokeCreatorToken(h)) \/ \E by, h \in Humans : RevokeAdminToken(by, h)
  BY <1>2 DEF SessionEnds, RevokeCreatorToken, RevokeAdminToken, TypeOK, Apart, CodesAge
<1>3. CASE \E a \in Agents : DisableAgent(a)
  <2>1. PICK a \in Agents : DisableAgent(a)
    BY <1>3
  <2>2. PICK t \in {FALSE, agent[a].token} : agent' = [agent EXCEPT ![a] = [status |-> "disabled", token |-> t]]
    BY <2>1 DEF DisableAgent
  <2>3. agent[a].status # "absent" /\ UNCHANGED <<accounts, code, holder, request>>
    BY <2>1 DEF DisableAgent
  <2>4. agent \in [Agents -> AgentType] /\ t \in BOOLEAN /\ (t => agent[a].token)
    BY <2>2 DEF TypeOK, AgentType
  <2>5. [status |-> "disabled", token |-> t] \in AgentType
    BY <2>4 DEF AgentType
  <2>6. agent' \in [Agents -> AgentType] /\ \A b \in Agents : b # a => agent'[b] = agent[b]
    BY <2>2, <2>4, <2>5
  <2>7. agent'[a].status = "disabled" /\ agent'[a].token = t
    BY <2>2, <2>4
  <2> QED
    BY <2>3, <2>4, <2>6, <2>7 DEF TypeOK, Apart, CodesAge, accounts
<1>4. CASE UNCHANGED vars
  BY <1>4 DEF vars, TypeOK, Apart, CodesAge
<1> QED
  BY <1>1, <1>2, <1>3, <1>4

LEMMA StatementsKeepGrants ==
  ASSUME GrantsInv, TypeOK', Apart, CodesAge,
         \A a \in Agents : \/ agent'[a] = agent[a]
                           \/ /\ agent[a].status # "absent" /\ agent'[a].status = "disabled"
                              /\ agent'[a].token => agent[a].token
  PROVE  GrantsInv' /\ DeletedStay
<1> USE DEF GrantsInv, RowsInv, LocksInv
<1>1. UNCHANGED <<human, holder, request>> /\ session' \subseteq session
  BY DEF Apart
<1>2. /\ \A x \in Requests : Transaction(x) =>
           /\ Owes(request[x])' = Owes(request[x]) /\ Needed(request[x])' = Needed(request[x])
           /\ Transaction(x)' /\ Subjects(request[x])' /\ Ordered(request[x])'
  BY <1>1, OwesStay DEF CodesAge
<1>3. UsesAreFinite' /\ (SomeRescinded' <=> SomeRescinded) /\ \A c \in Codes : Left(c)' <=> Left(c)
  BY DEF UsesAreFinite, CodesAge, SomeRescinded, Left
<1>4. Transactions' /\ LocksAreHeld'
  <2>1. Transactions'
    BY <1>1, <1>2 DEF Transactions, Transaction
  <2>2. \A x \in Requests : Transaction(x)' <=> Transaction(x)
    BY <1>1 DEF Transaction
  <2>3. LocksAreHeld'
    BY <1>1, <1>2, <2>2 DEF LocksAreHeld
  <2> QED
    BY <2>1, <2>3
<1>5. HumansExist'
  BY <1>1 DEF HumansExist, Transaction
<1>6. ActiveAdmins' = ActiveAdmins
  BY <1>1 DEF ActiveAdmins
<1>7. DecisionsHold'
  <2>1. ASSUME NEW x \in Requests, request[x].pc = "checked" PROVE Decided(x)'
    <3> DEFINE q == request[x]
    <3>1. Decided(x) /\ q' = q
      BY <1>1, <2>1 DEF DecisionsHold
    <3>2. q.op = "setup" \/ q.op = "register" => q.code \in Codes
      BY <2>1, WritersAreChecked
    <3>3. /\ SetupIsDone(q.human)' <=> SetupIsDone(q.human)
          /\ AnotherAdmin(q.human)' <=> AnotherAdmin(q.human)
      BY <1>1, <1>6 DEF SetupIsDone, AnotherAdmin
    <3>4. q.code \in Codes => /\ Left(q.code)' <=> Left(q.code)
                              /\ code'[q.code].status = "revoked" <=> code[q.code].status = "revoked"
      BY <1>3, <3>1 DEF CodesAge, Left
    <3>5. CASE q.op \in {"setup", "register"}
      BY <1>1, <3>1, <3>2, <3>3, <3>4, <3>5 DEF Decided, SetupIsDone, Left
    <3>6. CASE q.op \in {"revoke_admin", "delete"}
      BY <1>1, <1>3, <3>1, <3>3, <3>6 DEF Decided, AnotherAdmin, SomeRescinded
    <3>7. CASE q.op \notin {"setup", "register", "revoke_admin", "delete"}
      BY <1>1, <3>1, <3>7 DEF Decided
    <3> QED
      BY <3>5, <3>6, <3>7
  <2> QED
    BY <1>1, <2>1 DEF DecisionsHold
<1>8. DeletedHasNoRole' /\ DeletedStay
  BY <1>1 DEF DeletedHasNoRole, DeletedStay
<1>9. RegisteredExist' /\ CodeWithinMaxUses'
  BY DEF RegisteredExist, CodesAge, CodeWithinMaxUses
<1>10. AdminRemains'
  BY <1>1, <1>3, <1>6 DEF AdminRemains, SomeRescinded
<1>11. RevokedCodeGrantsNothing'
  <2>1. ActiveIsAdmitted /\ RevokedAgentsAreOut
    BY NothingIsTwoThings
  <2>2. ActiveIsAdmitted'
    BY <1>1, <2>1 DEF ActiveIsAdmitted, CodesAge
  <2>3. RevokedAgentsAreOut'
    BY <2>1 DEF RevokedAgentsAreOut, CodesAge, TypeOK, AgentType
  <2> QED
    BY <2>2, <2>3 DEF RevokedCodeGrantsNothing, ActiveIsAdmitted, RevokedAgentsAreOut
<1> QED
  BY <1>3, <1>4, <1>5, <1>7, <1>8, <1>9, <1>10, <1>11

-----------------------------------------------------------------------------
(* The theorems.                                                               *)

LEMMA StepsKeepGrants ==
  ASSUME GrantsInv, [Next]_vars
  PROVE  GrantsInv' /\ DeletedStay
<1>1. CASE \E r \in Requests : RequestStep(r)
  BY <1>1, RequestsKeepGrants
<1>2. CASE \/ \E c \in Codes : CreateCode(c) \/ CodeExpires(c)
           \/ \E h \in Humans : SessionEnds(h) \/ RevokeCreatorToken(h)
           \/ \E by, h \in Humans : RevokeAdminToken(by, h)
           \/ \E a \in Agents : DisableAgent(a)
           \/ UNCHANGED vars
  BY <1>2, StatementsLeave, StatementsKeepGrants
<1> QED
  BY <1>1, <1>2 DEF Next

LEMMA InitGrants ==
  ASSUME Init
  PROVE  GrantsInv
<1> USE DEF Init
<1>1. \A r \in Requests : request[r] = Idle
  OBVIOUS
<1>2. <<>> \in Seq(Locks) /\ NoId \in Humans \cup {NoId}
  OBVIOUS
<1>3. Idle \in RequestType
  BY <1>2 DEF Idle, RequestType, Ops
<1>4. TypeOK
  <2>1. request \in [Requests -> RequestType]
    BY <1>3
  <2>2. human \in [Humans -> HumanType]
    BY DEF HumanType, RoleStates
  <2>3. code \in [Codes -> CodeType]
    BY DEF CodeType
  <2>4. agent \in [Agents -> AgentType]
    BY DEF AgentType
  <2>5. holder \in [Locks -> Requests \cup {NoId}]
    OBVIOUS
  <2> QED
    BY <2>1, <2>2, <2>3, <2>4, <2>5 DEF TypeOK
<1>5. \A r \in Requests : request[r].pc = "idle" /\ request[r].need = <<>>
  BY <1>1 DEF Idle
<1>6. Transactions
  BY <1>5 DEF Transactions, Transaction
<1>7. LocksAreHeld
  BY <1>5, RowNames DEF LocksAreHeld, Transaction
<1>8. \A c \in Codes : code[c].uses = {} /\ code[c].status = "absent"
  OBVIOUS
<1>9. UsesAreFinite /\ CodeWithinMaxUses
  <2>1. IsFiniteSet({}) /\ Cardinality({}) = 0
    BY FS_EmptySet
  <2>2. \A c \in Codes : MaxUses[c] \in Nat \cup {-1}
    BY UsesAssumption
  <2>3. \A c \in Codes : MaxUses[c] = -1 \/ 0 <= MaxUses[c]
    BY <2>2
  <2>4. CodeWithinMaxUses
    <3>1. \A c \in Codes : Cardinality(code[c].uses) = 0
      BY <1>8, <2>1, Zenon
    <3> QED
      BY <2>3, <3>1 DEF CodeWithinMaxUses
  <2>5. UsesAreFinite
    BY <1>8, <2>1, Zenon DEF UsesAreFinite
  <2> QED
    BY <2>4, <2>5
<1>10. HumansExist /\ DecisionsHold
  BY <1>5 DEF HumansExist, DecisionsHold, Transaction
<1>11. DeletedHasNoRole /\ RegisteredExist /\ AdminRemains /\ RevokedCodeGrantsNothing
  BY <1>8 DEF DeletedHasNoRole, RegisteredExist, AdminRemains, RevokedCodeGrantsNothing
<1> QED
  BY <1>4, <1>6, <1>7, <1>9, <1>10, <1>11 DEF GrantsInv, RowsInv, LocksInv

\* The row locks a transaction holds are those of its statements so far, what it
\* decided under them holds until it commits (crates/persistence/src/db/
\* {sessions,pioneer_codes,agents}.rs), and every state is well typed.
THEOREM IdentityInvariance == Spec => []GrantsInv
<1>1. Init => GrantsInv
  BY InitGrants
<1>2. GrantsInv /\ [Next]_vars => GrantsInv'
  BY StepsKeepGrants
<1> QED
  BY <1>1, <1>2, PTL DEF Spec

\* However many setups and registrations race for a pioneer code, its uses stay
\* within max_uses, and a committed revocation leaves nothing it granted
\* (consume_pioneer_code_for_{human,agent}_tx, revoke_pioneer_code).
THEOREM CodeSafety == Spec => []PioneerCodeIsHonoured
<1>1. GrantsInv => PioneerCodeIsHonoured
  BY DEF GrantsInv, PioneerCodeIsHonoured
<1> QED
  BY <1>1, IdentityInvariance, PTL

\* Admins who revoke or delete each other at the same time leave one, unless a
\* code revocation rescinds a human (revoke_human_admin, delete_human_account).
THEOREM AdminSafety == Spec => []AdminRemains
<1>1. GrantsInv => AdminRemains
  BY DEF GrantsInv
<1> QED
  BY <1>1, IdentityInvariance, PTL

\* Transactions of any number of requests wait for each other in a cycle only by
\* the two lock inversions the statements have.
THEOREM LockOrderSafety == Spec => []LockInversionsAreKnown
<1>1. GrantsInv => LockInversionsAreKnown
  BY CyclesAreKnown DEF GrantsInv, RowsInv
<1> QED
  BY <1>1, IdentityInvariance, PTL

\* No sign-in, setup, grant or code revocation that was under way when an account
\* was deleted brings it or a role of it back (delete_human_account).
THEOREM DeletionSafety == Spec => DeletedStaysDeleted
<1>1. GrantsInv /\ [Next]_vars =>
        [\A h \in Humans : human[h].status = "deleted" =>
            human'[h].status = "deleted" /\ human'[h].admin # "granted" /\ human'[h].creator # "granted"]_vars
  BY StepsKeepGrants DEF DeletedStay
<1> QED
  BY <1>1, IdentityInvariance, PTL DEF Spec, DeletedStaysDeleted

=============================================================================
