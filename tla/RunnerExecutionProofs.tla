------------------------ MODULE RunnerExecutionProofs ------------------------
(* Proofs about RunnerExecution, for any number of workers, jobs, containers,  *)
(* slots, failures and crashes: whatever writes to a slot belongs to one       *)
(* attempt, the work paths come back, and reconciliation leaves the containers *)
(* of a live attempt alone.                                                    *)
EXTENDS RunnerExecution, FiniteSetTheorems, SequenceTheorems, TLAPS

-----------------------------------------------------------------------------
(* The phases of an attempt.                                                   *)

PhaseNames == {"setup", "build", "run", "evaluator_setup", "evaluator", "session_setup", "session",
               "benchmark_setup", "benchmark"}

LEMMA OptionalIsSeq ==
  ASSUME NEW j, NEW command, NEW p \in PhaseNames
  PROVE  Optional(j, command, p) \in Seq(PhaseNames)
  BY DEF Optional

LEMMA PhasesAreSeq ==
  ASSUME NEW j \in Jobs
  PROVE  PhasesOf(j) \in Seq(PhaseNames)
<1>1. /\ Optional(j, "setup", "setup") \in Seq(PhaseNames)
      /\ Optional(j, "build", "build") \in Seq(PhaseNames)
      /\ Optional(j, "evaluator_setup", "evaluator_setup") \in Seq(PhaseNames)
      /\ Optional(j, "evaluator_setup", "session_setup") \in Seq(PhaseNames)
      /\ Optional(j, "evaluator_setup", "benchmark_setup") \in Seq(PhaseNames)
  BY OptionalIsSeq DEF PhaseNames
<1>2. /\ [i \in 1..RunCount[j] |-> "run"] \in Seq(PhaseNames)
      /\ <<"evaluator">> \in Seq(PhaseNames) /\ <<"session">> \in Seq(PhaseNames)
      /\ <<"benchmark">> \in Seq(PhaseNames)
  <2>1. RunCount[j] \in Nat /\ "run" \in PhaseNames
    BY PlanAssumption DEF PhaseNames
  <2>2. [i \in 1..RunCount[j] |-> "run"] \in Seq(PhaseNames)
    BY <2>1, IsASeq
  <2> QED
    BY <2>2 DEF PhaseNames
<1> DEFINE R == [i \in 1..RunCount[j] |-> "run"]
<1>3. SolutionPhases(j) \in Seq(PhaseNames)
  BY <1>1, ConcatProperties DEF SolutionPhases
<1>4. SeparatedPhases(j) \in Seq(PhaseNames)
  <2> HIDE DEF R
  <2>1. Optional(j, "evaluator_setup", "evaluator_setup") \o R \in Seq(PhaseNames)
    BY <1>1, <1>2, ConcatProperties DEF R
  <2>2. (Optional(j, "evaluator_setup", "evaluator_setup") \o R) \o <<"evaluator">> \in Seq(PhaseNames)
    BY <1>2, <2>1, ConcatProperties
  <2> QED
    BY <2>2 DEF SeparatedPhases, R
<1>5. PipedPhases(j) \in Seq(PhaseNames) /\ CoexecutedPhases(j) \in Seq(PhaseNames)
  BY <1>1, <1>2, ConcatProperties DEF PipedPhases, CoexecutedPhases
<1>6. Topology[j] \in {"separated", "piped", "coexecuted"}
  BY PlanAssumption
<1> DEFINE T == CASE Topology[j] = "separated" -> SeparatedPhases(j)
                  [] Topology[j] = "piped" -> PipedPhases(j)
                  [] Topology[j] = "coexecuted" -> CoexecutedPhases(j)
<1>7. T \in Seq(PhaseNames)
  BY <1>4, <1>5, <1>6
<1> HIDE DEF T
<1>8. SolutionPhases(j) \o T \in Seq(PhaseNames)
  BY <1>3, <1>7, ConcatProperties
<1> QED
  BY <1>8 DEF PhasesOf, T

LEMMA MountsAreSeq ==
  ASSUME NEW p \in PhaseNames
  PROVE  MountsOf(p) \in Seq(WritablePhases) /\ MountsOf(p) # <<>>
<1>1. \A q \in WritablePhases : <<q>> \in Seq(WritablePhases) /\ <<q>> # <<>>
  OBVIOUS
<1>2. \A q, r \in WritablePhases : <<q, r>> \in Seq(WritablePhases) /\ <<q, r>> # <<>>
  OBVIOUS
<1>3. {"solution-setup", "solution-build", "solution-run", "evaluator-setup", "evaluator-score"}
      \subseteq WritablePhases
  BY DEF WritablePhases
<1>4. \/ \E q \in WritablePhases : MountsOf(p) = <<q>>
      \/ \E q, r \in WritablePhases : MountsOf(p) = <<q, r>>
  BY <1>3 DEF MountsOf, PhaseNames, SolutionMounts, RunMounts, EvaluatorSetupMounts, SessionSetupMounts,
             BenchmarkSetupMounts, EvaluatorMounts, SessionMounts, BenchmarkMounts
<1> QED
  BY <1>1, <1>2, <1>4

-----------------------------------------------------------------------------
(* The inductive invariant.                                                    *)

Acquiring == {"acquire", "check", "reset"}
Containing == {"create", "start", "wait", "repair", "repairing", "remove", "judge"}
Ending == {"prepare", "unwind", "log", "clean", "report"}

\* The writable mounts of the phase that record r is in.
MountsIn(r) == MountsOf(PhasesOf(r.job)[r.phase])

\* The phase has its leases, or has them when the mounts it wants are leased.
HasLeases(r) == Len(r.leases) >= Len(MountsIn(r))
GetsLeases(r) == Len(r.leases) + Len(r.want) >= Len(MountsIn(r))

\* A container of the phase is still to be created; scan counts those there are.
Filling(r) == Len(r.mine) < Len(MountsIn(r))
InTurn(r) == r.scan <= Len(r.mine)

\* What the fields of a process hold at each point of its cycle.
Shaped(r) ==
    /\ r.pc \in Acquiring \cup Containing \cup Ending <=> r.job # NoJob
    /\ r.job # NoJob => r.number >= 1
    /\ r.pc \in Acquiring \cup Containing => r.phase \in 1..Len(PhasesOf(r.job)) /\ r.scan >= 1
    /\ r.pc \in Acquiring => r.want # <<>> /\ GetsLeases(r)
    /\ r.pc \in {"check", "reset"} => r.scan <= Len(SlotsOf[Head(r.want)])
    /\ r.pc \in Containing => HasLeases(r)
    /\ r.pc \in {"create", "wait"} => r.scan = 1
    /\ r.pc \in Acquiring => r.mine = <<>>
    /\ r.pc = "create" => Filling(r)
    /\ r.pc \in {"start", "remove"} => InTurn(r)
    /\ r.pc \in {"wait", "repair", "repairing"} => r.mine # <<>>
    /\ r.target # NoBox <=> r.pc \in {"kill", "repairing"}

Shapes == \A w \in Workers : Shaped(proc[w])

\* A lease is a lock and a work path of the attempt, no slot is leased twice, and
\* the slot under inspection is locked too.
Locked(w) ==
    /\ \A s \in LeaseSet(w) : lock[s] = w /\ tree[s] = Me(w)
    /\ \A i, k \in DOMAIN proc[w].leases : proc[w].leases[i] = proc[w].leases[k] => i = k
    /\ proc[w].pc \in {"check", "reset"} => lock[ScanSlot(w)] = w /\ ScanSlot(w) \notin LeaseSet(w)

LeasesAreLocked == \A w \in Workers : Locked(w)

\* The containers of the current phase, its repair sidecar included.
Own(w) == MineSet(w) \cup ({proc[w].target} \ {NoBox})

BoxesAreLabelled ==
    /\ \A b \in Boxes : box[b].state # "none" => box[b].attempt \in Attempts /\ box[b].slot \in Slots
    /\ \A w \in Workers : proc[w].pc \in Containing =>
          \A b \in Own(w) : box[b].state # "none" => box[b].attempt = Me(w) /\ box[b].slot \in LeaseSet(w)

\* A slot is used from the moment its check found no live container.
Uses(w, s) == s \in LeaseSet(w) \/ (proc[w].pc = "reset" /\ s = ScanSlot(w))

UsedAlone ==
    \A w \in Workers, b \in Boxes :
        box[b].state = "running" /\ Uses(w, box[b].slot) => box[b].attempt = Me(w)

ClaimsAreNumbered ==
    \A j \in Jobs : claim[j].status = "running" => claim[j].worker \in Workers /\ claim[j].attempt >= 1

WriterInv ==
    /\ TypeOK /\ Shapes /\ ClaimsAreNumbered
    /\ LeasesAreLocked /\ BoxesAreLabelled /\ UsedAlone /\ ExclusiveWriter

\* What a step of w does to the processes.
Moves(w) == /\ proc' \in [Workers -> ProcType] /\ Shapes'
            /\ \A v \in Workers : v # w => proc'[v] = proc[v]

\* The process gives up what it holds, or holds nothing.
Drops(q) == q.leases = <<>> /\ q.pc \notin {"check", "reset"} \cup Containing

\* The process goes on with its attempt and leases.
Continues(r, q) ==
    /\ q.job = r.job /\ q.number = r.number /\ q.leases = r.leases
    /\ q.pc \notin {"check", "reset", "create", "repairing"} /\ (q.pc = "start" => r.pc = "start")
    /\ q.pc \in Containing => /\ r.pc \in Containing /\ q.phase = r.phase
                              /\ q.mine = r.mine /\ q.target \in {r.target, NoBox}

LEMMA MovesTo ==
  ASSUME TypeOK, Shapes, NEW w \in Workers, NEW r, r \in ProcType, Shaped(r), Go(w, r)
  PROVE  Moves(w) /\ proc'[w] = r
<1>1. proc' \in [Workers -> ProcType] /\ proc'[w] = r /\ \A v \in Workers : v # w => proc'[v] = proc[v]
  BY DEF TypeOK, Go
<1>2. Shapes'
  BY <1>1 DEF Shapes
<1> QED
  BY <1>1, <1>2 DEF Moves

LEMMA IdleIsShaped == IdleProc \in ProcType /\ Shaped(IdleProc) /\ Drops(IdleProc)
<1>1. IdleProc \in ProcType
  BY JobClaimsAssumption DEF IdleProc, ProcType, Results
<1>2. Shaped(IdleProc)
  BY DEF IdleProc, Shaped, Acquiring, Containing, Ending
<1>3. Drops(IdleProc)
  BY DEF IdleProc, Drops, Containing
<1> QED
  BY <1>1, <1>2, <1>3

LEMMA IdleMoves ==
  ASSUME TypeOK, Shapes, NEW w \in Workers, Go(w, IdleProc)
  PROVE  Moves(w) /\ Drops(proc'[w])
  BY MovesTo, IdleIsShaped

\* A process that moves to another phase keeps the rest of its fields.
At(p, pc) == [p EXCEPT !.pc = pc]

LEMMA AtPc ==
  ASSUME NEW p \in ProcType,
         NEW pc \in {"list", "claim", "check", "reset", "clean", "report"}
  PROVE  At(p, pc) \in ProcType /\ At(p, pc).pc = pc /\ At(p, pc).job = p.job
<1>1. At(p, pc) \in ProcType
  BY ZenonT(40) DEF ProcType, At
<1>2. At(p, pc).pc = pc
  BY DEF ProcType, At
<1>3. At(p, pc).job = p.job
  BY DEF ProcType, At
<1> QED
  BY <1>1, <1>2, <1>3

Answers(p, e) == [p EXCEPT !.result = e]

LEMMA AnswersIsProc ==
  ASSUME NEW p \in ProcType, NEW e \in Results
  PROVE  Answers(p, e) \in ProcType /\ Answers(p, e).pc = p.pc /\ Answers(p, e).job = p.job
<1>1. Answers(p, e) \in ProcType
  BY DEF ProcType, Answers
<1>2. Answers(p, e).pc = p.pc /\ Answers(p, e).job = p.job
  BY DEF ProcType, Answers
<1> QED
  BY <1>1, <1>2

\* The moves between phases of the maintenance and at the ends of an execution.
LEMMA ToMoves ==
  ASSUME TypeOK, Shapes, NEW w \in Workers, NEW pc, To(w, pc),
         \/ proc[w].pc \in {"off", "idle"} /\ pc = "list"
         \/ proc[w].pc = "sweep" /\ pc = "claim"
  PROVE  Moves(w) /\ Continues(proc[w], proc'[w])
<1> DEFINE r == [proc[w] EXCEPT !.pc = pc]
<1>1. proc[w] \in ProcType /\ Shaped(proc[w])
  BY DEF TypeOK, Shapes
<1>2. r \in ProcType /\ r.pc = pc /\ r.job = proc[w].job
  <2>1. pc \in {"list", "claim"}
    OBVIOUS
  <2>2. r = At(proc[w], pc)
    BY DEF At
  <2> HIDE DEF r
  <2> QED
    BY <1>1, <2>1, <2>2, AtPc
<1>3. Shaped(r)
  BY ZenonT(40), <1>1, <1>2 DEF Shaped, ProcType, Acquiring, Containing, Ending, MountsIn, HasLeases, GetsLeases
<1>4. Continues(proc[w], r)
  BY <1>1, <1>2 DEF Continues, ProcType, Containing
<1>5. Go(w, r)
  BY DEF To
<1> HIDE DEF r
<1> QED
  BY <1>2, <1>3, <1>4, <1>5, MovesTo

LEMMA EndsMoves ==
  ASSUME TypeOK, Shapes, NEW w \in Workers, NEW e \in Results, Go(w, Ends(w, e)),
         proc[w].pc \in Acquiring \cup {"prepare", "create", "judge"}
  PROVE  Moves(w) /\ Continues(proc[w], proc'[w])
<1> DEFINE r == Ends(w, e)
<1>1. proc[w] \in ProcType /\ Shaped(proc[w])
  BY DEF TypeOK, Shapes
<1>2. r \in ProcType
  BY ZenonT(40), <1>1 DEF ProcType, Ends
<1>3. Shaped(r)
  BY <1>1 DEF Shaped, ProcType, Acquiring, Containing, Ending, MountsIn, HasLeases, GetsLeases, Ends
<1>4. Continues(proc[w], r)
  BY <1>1 DEF Continues, ProcType, Containing, Ends
<1> HIDE DEF r
<1> QED
  BY <1>2, <1>3, <1>4, MovesTo DEF r

\* Counting begins with the first container, and there is none to count without one.
LEMMA InTurnFacts ==
  ASSUME NEW r \in ProcType, r.scan >= 1
  PROVE  /\ InTurn(r) => r.mine # <<>> /\ r.scan \in 1..Len(r.mine) /\ r.mine[r.scan] \in Boxes
         /\ r.mine # <<>> => Len(r.mine) \in Nat /\ Len(r.mine) >= 1
<1>1. r.mine \in Seq(Boxes) /\ Len(r.mine) \in Nat /\ r.scan \in Nat
  BY LenProperties DEF ProcType
<1>2. PICK n, k \in Nat : n = Len(r.mine) /\ k = r.scan /\ k >= 1
  BY <1>1
<1>3. r.mine # <<>> <=> n # 0
  BY <1>1, <1>2, EmptySeq
<1>4. InTurn(r) => k \in 1..n /\ n # 0
  BY <1>2 DEF InTurn
<1>5. n # 0 => n >= 1
  OBVIOUS
<1> QED
  BY <1>1, <1>2, <1>3, <1>4, <1>5, ElementOfSeq, Zenon

\* The moves from one call to the next of a phase whose containers stay the same.
Within(p, pc, n, o) == [p EXCEPT !.pc = pc, !.scan = n, !.target = NoBox, !.outcome = o]

LEMMA WithinMoves ==
  ASSUME TypeOK, Shapes, NEW w \in Workers,
         proc[w].pc \in {"create", "start", "wait", "repair", "repairing", "remove"},
         NEW pc \in {"start", "wait", "repair", "remove", "judge"}, NEW n \in Nat \ {0},
         NEW o \in {"ok", "bad", "docker"},
         pc = "start" => proc[w].pc = "start",
         pc = "wait" => n = 1,
         pc \in {"start", "remove"} => n <= Len(proc[w].mine),
         pc \in {"wait", "repair"} => proc[w].mine # <<>>,
         Go(w, Within(proc[w], pc, n, o))
  PROVE  Moves(w) /\ Continues(proc[w], proc'[w]) /\ proc'[w].pc = pc /\ proc'[w].scan = n
<1> DEFINE r == Within(proc[w], pc, n, o)
<1>0. n \in Nat /\ n >= 1
  OBVIOUS
<1>1. proc[w] \in ProcType /\ Shaped(proc[w])
  BY DEF TypeOK, Shapes
<1>2. r \in ProcType /\ r.pc = pc /\ r.scan = n /\ r.job = proc[w].job
  <2>1. r \in ProcType
    BY ZenonT(40), <1>0, <1>1 DEF ProcType, Within
  <2>2. r.pc = pc /\ r.scan = n /\ r.job = proc[w].job
    BY <1>1 DEF ProcType, Within
  <2> QED
    BY <2>1, <2>2
<1>3. /\ r.number = proc[w].number /\ r.phase = proc[w].phase /\ r.leases = proc[w].leases
      /\ r.mine = proc[w].mine /\ r.target = NoBox
  BY <1>1 DEF ProcType, Within
<1> HIDE DEF r
<1>4. pc \in {"start", "remove"} => InTurn(r)
  BY <1>2, <1>3 DEF InTurn
<1>5. HasLeases(proc[w]) => HasLeases(r)
  BY <1>2, <1>3 DEF HasLeases, MountsIn
<1>6. Shaped(r)
  BY <1>0, <1>1, <1>2, <1>3, <1>4, <1>5 DEF Shaped, Acquiring, Containing, Ending
<1>7. Continues(proc[w], r)
  BY <1>1, <1>2, <1>3 DEF Continues, Containing
<1> QED
  BY <1>2, <1>6, <1>7, MovesTo DEF r

\* Every container of the phase is created, or none of them waits to be started.
LEMMA CreateFailsMoves ==
  ASSUME TypeOK, Shapes, NEW w \in Workers, CreateFails(w)
  PROVE  /\ Moves(w) /\ Continues(proc[w], proc'[w])
         /\ proc[w].pc = "create" /\ proc'[w].pc \in {"unwind", "remove"}
<1>1. proc[w] \in ProcType /\ Shaped(proc[w]) /\ proc[w].pc = "create" /\ proc[w].pc \in Containing
  BY DEF TypeOK, Shapes, CreateFails, Containing
<1>2. proc[w].scan = 1 /\ proc[w].target = NoBox
  BY <1>1 DEF Shaped
<1>3. CASE proc[w].mine = <<>>
  <2>1. Go(w, Ends(w, "error")) /\ "error" \in Results
    BY <1>3 DEF CreateFails, Results
  <2>2. proc'[w].pc = "unwind"
    BY <2>1 DEF Go, Ends, TypeOK, ProcType
  <2> QED
    BY <1>1, <2>1, <2>2, EndsMoves
<1>4. CASE proc[w].mine # <<>>
  <2>1. Go(w, [proc[w] EXCEPT !.pc = "remove", !.outcome = "docker"])
    BY <1>4 DEF CreateFails
  <2>2. [proc[w] EXCEPT !.pc = "remove", !.outcome = "docker"] = Within(proc[w], "remove", 1, "docker")
    BY <1>1, <1>2 DEF ProcType, Within
  <2>3. 1 <= Len(proc[w].mine)
    BY <1>1, <1>2, <1>4, InTurnFacts
  <2> QED
    BY <1>1, <2>1, <2>2, <2>3, WithinMoves
<1> QED
  BY <1>3, <1>4

\* A container is started, the last one or one before it, or the start fails.
LEMMA StartMoves ==
  ASSUME TypeOK, Shapes, NEW w \in Workers, StartContainer(w)
  PROVE  /\ Moves(w) /\ Continues(proc[w], proc'[w]) /\ proc[w].pc = "start"
         /\ proc[w].scan \in 1..Len(proc[w].mine) /\ proc[w].mine[proc[w].scan] \in Boxes
         /\ \/ proc'[w].pc = "start"
            \/ proc'[w].pc \in {"wait", "repair"} /\ proc'[w].scan = 1
<1>1. proc[w] \in ProcType /\ Shaped(proc[w]) /\ proc[w].pc = "start" /\ proc[w].pc \in Containing
  BY DEF TypeOK, Shapes, StartContainer, Containing
<1>2. /\ proc[w].scan >= 1 /\ proc[w].target = NoBox /\ InTurn(proc[w]) /\ proc[w].scan \in Nat
      /\ proc[w].outcome \in {"ok", "bad", "docker"}
  BY <1>1 DEF Shaped, ProcType
<1>3. /\ proc[w].mine # <<>> /\ proc[w].scan \in 1..Len(proc[w].mine)
      /\ proc[w].mine[proc[w].scan] \in Boxes /\ Len(proc[w].mine) \in Nat
  BY <1>1, <1>2, InTurnFacts
<1>4. CASE Go(w, [proc[w] EXCEPT !.pc = "wait", !.scan = 1])
  <2>1. [proc[w] EXCEPT !.pc = "wait", !.scan = 1] = Within(proc[w], "wait", 1, proc[w].outcome)
    BY <1>1, <1>2 DEF ProcType, Within
  <2> QED
    BY <1>1, <1>2, <1>3, <1>4, <2>1, WithinMoves
<1>5. CASE Go(w, [proc[w] EXCEPT !.scan = proc[w].scan + 1]) /\ proc[w].scan # Len(proc[w].mine)
  <2>1. [proc[w] EXCEPT !.scan = proc[w].scan + 1]
        = Within(proc[w], "start", proc[w].scan + 1, proc[w].outcome)
    BY <1>1, <1>2 DEF ProcType, Within
  <2>2. proc[w].scan + 1 \in Nat \ {0} /\ proc[w].scan + 1 <= Len(proc[w].mine)
    BY <1>2, <1>3, <1>5
  <2> QED
    BY <1>1, <1>2, <1>3, <1>5, <2>1, <2>2, WithinMoves
<1>6. CASE Go(w, [proc[w] EXCEPT !.pc = "repair", !.scan = 1, !.outcome = "docker"])
  <2>1. [proc[w] EXCEPT !.pc = "repair", !.scan = 1, !.outcome = "docker"]
        = Within(proc[w], "repair", 1, "docker")
    BY <1>1, <1>2 DEF ProcType, Within
  <2>2. Go(w, Within(proc[w], "repair", 1, "docker"))
    BY <1>6, <2>1, Zenon
  <2>3. Moves(w) /\ Continues(proc[w], proc'[w]) /\ proc'[w].pc = "repair" /\ proc'[w].scan = 1
    BY <1>1, <1>3, <2>2, WithinMoves
  <2> QED
    BY <1>1, <1>3, <2>3
<1> QED
  BY <1>1, <1>3, <1>4, <1>5, <1>6 DEF StartContainer

\* Wait, its timeout and its failures are followed by the repair.
LEMMA RepairMoves ==
  ASSUME TypeOK, Shapes, NEW w \in Workers, WaitEnds(w) \/ WaitTimesOut(w) \/ WaitFails(w)
  PROVE  /\ Moves(w) /\ Continues(proc[w], proc'[w])
         /\ proc[w].pc = "wait" /\ proc'[w].pc = "repair" /\ proc'[w].scan = 1
<1>1. proc[w] \in ProcType /\ Shaped(proc[w]) /\ proc[w].pc = "wait" /\ proc[w].pc \in Containing
  BY DEF TypeOK, Shapes, WaitEnds, WaitTimesOut, WaitFails, Containing
<1>2. proc[w].scan = 1 /\ proc[w].target = NoBox /\ proc[w].mine # <<>>
  BY <1>1 DEF Shaped
<1>3. PICK o \in {"ok", "bad", "docker"} : Go(w, [proc[w] EXCEPT !.pc = "repair", !.outcome = o])
  BY DEF WaitEnds, WaitTimesOut, WaitFails
<1>4. [proc[w] EXCEPT !.pc = "repair", !.outcome = o] = Within(proc[w], "repair", 1, o)
  BY <1>1, <1>2 DEF ProcType, Within
<1> QED
  BY <1>1, <1>2, <1>3, <1>4, WithinMoves

-----------------------------------------------------------------------------
(* The records of reconciliation and of the claim.                             *)

LEMMA ListMoves ==
  ASSUME TypeOK, Shapes, BoxesAreLabelled, NEW w \in Workers, ListContainers(w)
  PROVE  Moves(w) /\ Continues(proc[w], proc'[w])
<1> DEFINE sights == {[box |-> b, state |-> box[b].state, attempt |-> box[b].attempt,
                       old |-> box[b].old] : b \in {c \in Boxes : box[c].state # "none"}}
           r == [proc[w] EXCEPT !.pc = "sweep", !.seen = sights]
<1>1. proc[w] \in ProcType /\ Shaped(proc[w]) /\ proc[w].pc = "list" /\ Go(w, r)
  BY DEF TypeOK, Shapes, ListContainers
<1>2. sights \in SUBSET [box : Boxes, state : {"created", "running", "exited"},
                         attempt : Attempts, old : BOOLEAN]
  BY DEF TypeOK, BoxesAreLabelled, BoxType
<1> HIDE DEF sights
<1>3. r \in ProcType
  BY <1>1, <1>2 DEF ProcType
<1>4. Shaped(r)
  BY <1>1 DEF Shaped, ProcType, Acquiring, Containing, Ending, MountsIn, HasLeases, GetsLeases
<1>5. Continues(proc[w], r)
  BY <1>1 DEF Continues, ProcType, Containing
<1> HIDE DEF r
<1> QED
  BY <1>1, <1>3, <1>4, <1>5, MovesTo

\* The sweep puts a container aside, and turns to it when it has to be killed.
LEMMA SweepMoves ==
  ASSUME TypeOK, Shapes, NEW w \in Workers, NEW x \in proc[w].seen, SweepContainer(w, x)
  PROVE  /\ Moves(w) /\ Continues(proc[w], proc'[w])
         /\ proc'[w].seen \subseteq proc[w].seen /\ x.box \in Boxes
         /\ proc'[w].pc = "kill" => /\ x.state = "running" /\ proc'[w].target = x.box
                                    /\ ClaimIsStale(x.attempt)
<1> DEFINE rest == [proc[w] EXCEPT !.seen = proc[w].seen \ {x}]
<1>1. proc[w] \in ProcType /\ Shaped(proc[w]) /\ proc[w].pc = "sweep" /\ x.box \in Boxes
  BY DEF TypeOK, Shapes, SweepContainer, ProcType
<1>2. rest \in ProcType /\ rest.pc = "sweep" /\ rest.seen \subseteq proc[w].seen
  BY <1>1 DEF ProcType
<1>3. Shaped(rest) /\ Continues(proc[w], rest)
  BY <1>1 DEF Shaped, ProcType, Acquiring, Containing, Ending, MountsIn, HasLeases, GetsLeases, Continues
<1>4. CASE Go(w, rest)
  <2> HIDE DEF rest
  <2> QED
    BY <1>1, <1>2, <1>3, <1>4, MovesTo
<1>5. CASE /\ x.state = "running" /\ ClaimIsStale(x.attempt)
           /\ Go(w, [rest EXCEPT !.pc = "kill", !.target = x.box])
  <2> DEFINE r == [rest EXCEPT !.pc = "kill", !.target = x.box]
  <2>1. rest \in ProcType /\ Shaped(rest) /\ Continues(proc[w], rest)
    BY <1>2, <1>3
  <2> HIDE DEF rest
  <2>2. r \in ProcType /\ r.pc = "kill" /\ r.target = x.box /\ r.seen = rest.seen
    BY ZenonT(40), <1>1, <2>1 DEF ProcType
  <2>3. Shaped(r)
    BY <1>1, <1>2, <2>1, NamesAssumption DEF Shaped, ProcType, Acquiring, Containing, Ending, MountsIn, HasLeases, GetsLeases
  <2>4. Continues(proc[w], r)
    BY <1>2, <2>1 DEF Continues, ProcType, Containing
  <2> HIDE DEF r
  <2> QED
    BY <1>1, <1>2, <1>5, <2>2, <2>3, <2>4, MovesTo DEF r
<1> QED
  BY <1>4, <1>5 DEF SweepContainer

LEMMA KillMoves ==
  ASSUME TypeOK, Shapes, NEW w \in Workers, KillContainer(w)
  PROVE  Moves(w) /\ Continues(proc[w], proc'[w])
<1> DEFINE r == [proc[w] EXCEPT !.pc = "sweep", !.target = NoBox]
<1>1. proc[w] \in ProcType /\ Shaped(proc[w]) /\ proc[w].pc = "kill" /\ Go(w, r)
  BY DEF TypeOK, Shapes, KillContainer
<1>2. r \in ProcType /\ Shaped(r) /\ Continues(proc[w], r)
  BY <1>1 DEF Shaped, ProcType, Acquiring, Containing, Ending, MountsIn, HasLeases, GetsLeases, Continues
<1> HIDE DEF r
<1> QED
  BY <1>1, <1>2, MovesTo

LEMMA ClaimMoves ==
  ASSUME TypeOK, Shapes, NEW w \in Workers, NEW j \in Jobs, ClaimJob(w, j)
  PROVE  /\ Moves(w) /\ Drops(proc'[w])
         /\ proc'[w].job = j /\ proc'[w].number = claim[j].attempt + 1
<1> DEFINE n == claim[j].attempt + 1
           r == [IdleProc EXCEPT !.pc = "prepare", !.job = j, !.number = n]
<1>1. Go(w, r) /\ claim[j] \in ClaimType /\ claim[j].attempt < MaxAttempts
  BY DEF TypeOK, ClaimJob, Claim
<1>2. n \in 1..MaxAttempts
  BY <1>1, JobClaimsAssumption DEF ClaimType
<1> HIDE DEF n
<1>3. r \in ProcType
  <2>1. n \in 0..MaxAttempts
    BY <1>2, JobClaimsAssumption
  <2> QED
    BY <2>1, IdleIsShaped DEF ProcType
<1>4. Shaped(r) /\ Drops(r) /\ r.job = j /\ r.number = n
  BY <1>2, NamesAssumption DEF IdleProc, Shaped, Acquiring, Containing, Ending, MountsIn, HasLeases, GetsLeases, Drops
<1> HIDE DEF r
<1> QED
  BY <1>1, <1>3, <1>4, MovesTo DEF n

LEMMA DiesMoves ==
  ASSUME TypeOK, Shapes, NEW w \in Workers, WorkerDies(w)
  PROVE  Moves(w) /\ Drops(proc'[w])
<1> DEFINE r == [IdleProc EXCEPT !.pc = "dead"]
<1>1. Go(w, r)
  BY DEF WorkerDies
<1>2. r \in ProcType
  BY ZenonT(40), IdleIsShaped DEF ProcType
<1>3. Shaped(r) /\ Drops(r)
  BY DEF IdleProc, Shaped, Acquiring, Containing, Ending, MountsIn, HasLeases, GetsLeases, Drops
<1> HIDE DEF r
<1> QED
  BY <1>1, <1>2, <1>3, MovesTo

-----------------------------------------------------------------------------
(* The records of an execution.                                                *)

\* A phase begins with its mounts to lease, or the result is read.
LEMMA EntersIsTyped ==
  ASSUME TypeOK, Shapes, NEW w \in Workers, NEW n \in Nat \ {0},
         proc[w].pc \in {"prepare", "judge"}
  PROVE  /\ Enters(w, n) \in ProcType /\ Enters(w, n).pc \in {"acquire", "unwind"}
         /\ Enters(w, n).job = proc[w].job /\ Enters(w, n).number = proc[w].number
         /\ Enters(w, n).leases = proc[w].leases /\ Enters(w, n).target = NoBox
         /\ Enters(w, n).pc = "acquire" =>
               /\ Enters(w, n).phase \in 1..Len(PhasesOf(proc[w].job)) /\ Enters(w, n).scan = 1
               /\ Enters(w, n).mine = <<>> /\ Enters(w, n).want # <<>>
               /\ Enters(w, n).want = MountsOf(PhasesOf(proc[w].job)[Enters(w, n).phase])
<1>1. /\ proc[w] \in ProcType /\ Shaped(proc[w]) /\ proc[w].job \in Jobs /\ proc[w].target = NoBox
  BY DEF TypeOK, Shapes, ProcType, Shaped, Acquiring, Containing, Ending
<1>2. CASE n > Len(PhasesOf(proc[w].job))
  <2>1. Enters(w, n) = [proc[w] EXCEPT !.pc = "unwind", !.met = "ok", !.result = "ok"]
    BY <1>2 DEF Enters, Ends
  <2> DEFINE q == [proc[w] EXCEPT !.pc = "unwind", !.met = "ok", !.result = "ok"]
  <2>2. q \in ProcType
    BY ZenonT(40), <1>1 DEF ProcType, Results
  <2>3. /\ q.pc = "unwind" /\ q.job = proc[w].job /\ q.number = proc[w].number
        /\ q.leases = proc[w].leases /\ q.target = NoBox
    BY <1>1 DEF ProcType
  <2> HIDE DEF q
  <2> QED
    BY <2>1, <2>2, <2>3 DEF q
<1>3. CASE ~(n > Len(PhasesOf(proc[w].job)))
  <2> DEFINE mounts == MountsOf(PhasesOf(proc[w].job)[n])
  <2>1. Enters(w, n) = [proc[w] EXCEPT !.pc = "acquire", !.phase = n, !.scan = 1, !.mine = <<>>,
                                       !.outcome = "ok", !.want = mounts]
    BY <1>3 DEF Enters
  <2>2. n \in 1..Len(PhasesOf(proc[w].job)) /\ mounts \in Seq(WritablePhases) /\ mounts # <<>>
    <3>1. PhasesOf(proc[w].job) \in Seq(PhaseNames)
      BY <1>1, PhasesAreSeq
    <3>2. n \in 1..Len(PhasesOf(proc[w].job))
      BY <1>3, <3>1, LenProperties
    <3> QED
      BY <3>1, <3>2, ElementOfSeq, MountsAreSeq
  <2> HIDE DEF mounts
  <2>3. /\ Enters(w, n) \in ProcType /\ Enters(w, n).pc = "acquire" /\ Enters(w, n).phase = n
        /\ Enters(w, n).job = proc[w].job /\ Enters(w, n).number = proc[w].number
        /\ Enters(w, n).leases = proc[w].leases /\ Enters(w, n).target = NoBox
        /\ Enters(w, n).scan = 1 /\ Enters(w, n).mine = <<>> /\ Enters(w, n).want = mounts
    <3> DEFINE q == [proc[w] EXCEPT !.pc = "acquire", !.phase = n, !.scan = 1, !.mine = <<>>,
                                    !.outcome = "ok", !.want = mounts]
    <3>1. q \in ProcType
      <4>1. <<>> \in Seq(Boxes) /\ n \in Nat /\ mounts \in Seq(WritablePhases)
        BY <2>2
      <4>2. proc[w] \in ProcType
        BY <1>1
      <4> QED
        BY ZenonT(40), <4>1, <4>2 DEF ProcType
    <3>2. /\ q.pc = "acquire" /\ q.phase = n /\ q.job = proc[w].job /\ q.number = proc[w].number
          /\ q.leases = proc[w].leases /\ q.target = NoBox /\ q.scan = 1 /\ q.mine = <<>>
          /\ q.want = mounts
      BY <1>1 DEF ProcType
    <3> HIDE DEF q
    <3> QED
      BY <2>1, <3>1, <3>2 DEF q
  <2> QED
    BY <2>2, <2>3 DEF mounts
<1> QED
  BY <1>2, <1>3

\* The first record of a phase, and of the end of an execution.
LEMMA EnteredIsShaped ==
  ASSUME NEW r \in ProcType, r.job # NoJob, r.number >= 1, r.target = NoBox,
         \/ r.pc = "unwind"
         \/ /\ r.pc = "acquire" /\ r.phase \in 1..Len(PhasesOf(r.job)) /\ r.scan = 1
            /\ r.mine = <<>> /\ r.want # <<>> /\ r.want = MountsIn(r)
  PROVE  Shaped(r)
<1>1. Len(r.leases) \in Nat /\ Len(r.want) \in Nat
  <2>1. r.leases \in Seq(Slots) /\ r.want \in Seq(WritablePhases)
    BY DEF ProcType
  <2> QED
    BY <2>1, LenProperties
<1>2. CASE r.pc = "unwind"
  BY <1>2 DEF Shaped, Acquiring, Containing, Ending
<1>3. CASE r.pc = "acquire"
  <2>1. \A m, n \in Nat : m + n >= n
    OBVIOUS
  <2>2. Len(r.leases) + Len(r.want) >= Len(r.want)
    BY <1>1, <2>1, Zenon
  <2>3. GetsLeases(r)
    BY <1>3, <2>2, Zenon DEF GetsLeases
  <2> QED
    BY <1>3, <2>3 DEF Shaped, Acquiring, Containing, Ending
<1> QED
  BY <1>2, <1>3

LEMMA PrepareMoves ==
  ASSUME TypeOK, Shapes, NEW w \in Workers, Prepare(w)
  PROVE  Moves(w) /\ Continues(proc[w], proc'[w])
<1>1. proc[w].pc = "prepare" /\ proc[w] \in ProcType /\ Shaped(proc[w])
  BY DEF TypeOK, Shapes, Prepare
<1>2. CASE Go(w, Ends(w, "error"))
  BY <1>1, <1>2, EndsMoves DEF Results
<1>3. CASE Go(w, Enters(w, 1))
  <2> DEFINE r == Enters(w, 1)
  <2>1. /\ r \in ProcType /\ r.pc \in {"acquire", "unwind"}
        /\ r.job = proc[w].job /\ r.number = proc[w].number
        /\ r.leases = proc[w].leases /\ r.target = NoBox
        /\ r.pc = "acquire" =>
               /\ r.phase \in 1..Len(PhasesOf(proc[w].job)) /\ r.scan = 1
               /\ r.mine = <<>> /\ r.want # <<>>
               /\ r.want = MountsOf(PhasesOf(proc[w].job)[r.phase])
    BY <1>1, EntersIsTyped
  <2> HIDE DEF r
  <2>2. r.pc = "acquire" => /\ r.phase \in 1..Len(PhasesOf(r.job)) /\ r.want = MountsIn(r)
    BY <2>1 DEF MountsIn
  <2>3. r.job # NoJob /\ r.number >= 1
    BY <1>1, <2>1 DEF Shaped, Ending
  <2>4. Shaped(r)
    BY <2>1, <2>2, <2>3, EnteredIsShaped
  <2>5. Continues(proc[w], r)
    BY <2>1 DEF Continues, Containing
  <2> QED
    BY <1>3, <2>1, <2>4, <2>5, MovesTo DEF r
<1> QED
  BY <1>2, <1>3 DEF Prepare

\* The process turns to a slot, before and after it has checked it.
Inspects(r, q) ==
    /\ q.job = r.job /\ q.number = r.number /\ q.leases = r.leases
    /\ q.want = r.want /\ q.scan = r.scan
    /\ \/ r.pc = "acquire" /\ q.pc = "check"
       \/ r.pc = "check" /\ q.pc = "reset"

\* The slot under inspection is one of the slots.
LEMMA ScanSlotIsSlot ==
  ASSUME TypeOK, Shapes, NEW w \in Workers, proc[w].pc \in Acquiring, proc[w].scan <= Len(ScanSlots(w))
  PROVE  ScanSlot(w) \in Slots
<1>1. proc[w].want \in Seq(WritablePhases) /\ proc[w].want # <<>> /\ proc[w].scan \in Nat /\ proc[w].scan >= 1
  BY DEF TypeOK, Shapes, Shaped, ProcType, Acquiring
<1>2. Head(proc[w].want) \in WritablePhases
  BY <1>1, HeadTailProperties
<1>3. ScanSlots(w) \in Seq(Slots)
  BY <1>2, SlotsAssumption DEF ScanSlots
<1>4. Len(ScanSlots(w)) \in Nat
  BY <1>3, LenProperties
<1>5. proc[w].scan \in 1..Len(ScanSlots(w))
  BY <1>1, <1>4
<1> QED
  BY <1>3, <1>5, ElementOfSeq DEF ScanSlot

LEMMA InspectMoves ==
  ASSUME TypeOK, Shapes, NEW w \in Workers, NEW pc, To(w, pc),
         \/ proc[w].pc = "acquire" /\ pc = "check" /\ proc[w].scan <= Len(ScanSlots(w))
         \/ proc[w].pc = "check" /\ pc = "reset"
  PROVE  Moves(w) /\ Inspects(proc[w], proc'[w])
<1> DEFINE r == [proc[w] EXCEPT !.pc = pc]
<1>1. proc[w] \in ProcType /\ Shaped(proc[w])
  BY DEF TypeOK, Shapes
<1>2. r \in ProcType /\ r.pc = pc /\ r.job = proc[w].job
  <2>1. pc \in {"check", "reset"}
    OBVIOUS
  <2>2. r = At(proc[w], pc)
    BY DEF At
  <2> HIDE DEF r
  <2> QED
    BY <1>1, <2>1, <2>2, AtPc
<1>3. Shaped(r)
  BY <1>1, <1>2 DEF Shaped, ProcType, Acquiring, Containing, Ending, MountsIn, HasLeases, GetsLeases, ScanSlots
<1>4. /\ r.number = proc[w].number /\ r.leases = proc[w].leases
      /\ r.want = proc[w].want /\ r.scan = proc[w].scan
  BY <1>1 DEF ProcType
<1>5. Go(w, r)
  BY DEF To
<1> HIDE DEF r
<1>6. Inspects(proc[w], r)
  BY <1>2, <1>4 DEF Inspects
<1> QED
  BY <1>2, <1>3, <1>5, <1>6, MovesTo

\* A slot is passed over.
LEMMA PassMoves ==
  ASSUME TypeOK, Shapes, NEW w \in Workers, proc[w].pc \in Acquiring,
         Go(w, [proc[w] EXCEPT !.pc = "acquire", !.scan = proc[w].scan + 1])
  PROVE  Moves(w) /\ Continues(proc[w], proc'[w]) /\ proc'[w].pc = "acquire"
<1> DEFINE n == proc[w].scan + 1
           r == [proc[w] EXCEPT !.pc = "acquire", !.scan = n]
<1>1. proc[w] \in ProcType /\ Shaped(proc[w])
  BY DEF TypeOK, Shapes
<1>2. n \in Nat /\ n >= 1
  BY <1>1 DEF ProcType
<1> HIDE DEF n
<1>3. r \in ProcType /\ r.pc = "acquire" /\ r.job = proc[w].job
  BY <1>1, <1>2 DEF ProcType
<1>4. Shaped(r)
  BY <1>1, <1>2 DEF Shaped, ProcType, Acquiring, Containing, Ending, MountsIn, HasLeases, GetsLeases
<1>5. Continues(proc[w], r)
  BY <1>1 DEF Continues, ProcType, Containing
<1>6. Go(w, r)
  BY DEF n
<1> HIDE DEF r
<1> QED
  BY <1>3, <1>4, <1>5, <1>6, MovesTo

LEMMA TryMoves ==
  ASSUME TypeOK, Shapes, NEW w \in Workers, TrySlot(w)
  PROVE  /\ Moves(w) /\ ScanSlot(w) \in Slots
         /\ \/ Continues(proc[w], proc'[w]) /\ proc'[w].pc = "acquire" /\ UNCHANGED lock
            \/ /\ Inspects(proc[w], proc'[w]) /\ proc'[w].pc = "check"
               /\ lock[ScanSlot(w)] = NoWorker /\ lock' = [lock EXCEPT ![ScanSlot(w)] = w]
<1>0. proc[w].pc = "acquire" /\ proc[w].scan <= Len(ScanSlots(w)) /\ proc[w].pc \in Acquiring
  BY DEF TrySlot, Acquiring
<1>1. ScanSlot(w) \in Slots
  BY <1>0, ScanSlotIsSlot
<1>2. CASE lock[ScanSlot(w)] = NoWorker
  <2>1. To(w, "check") /\ lock' = [lock EXCEPT ![ScanSlot(w)] = w]
    BY <1>2 DEF TrySlot
  <2>2. Moves(w) /\ Inspects(proc[w], proc'[w])
    BY <1>0, <2>1, InspectMoves
  <2> QED
    BY <1>0, <1>1, <1>2, <2>1, <2>2 DEF Inspects
<1>3. CASE lock[ScanSlot(w)] # NoWorker
  <2>1. Go(w, [proc[w] EXCEPT !.scan = proc[w].scan + 1]) /\ UNCHANGED lock
    BY <1>3 DEF TrySlot
  <2>2. [proc[w] EXCEPT !.scan = proc[w].scan + 1]
        = [proc[w] EXCEPT !.pc = "acquire", !.scan = proc[w].scan + 1]
    BY <1>0 DEF TypeOK, ProcType
  <2>3. Moves(w) /\ Continues(proc[w], proc'[w]) /\ proc'[w].pc = "acquire"
    BY <1>0, <2>1, <2>2, PassMoves
  <2> QED
    BY <1>1, <2>1, <2>3
<1> QED
  BY <1>2, <1>3

LEMMA CheckMoves ==
  ASSUME TypeOK, Shapes, NEW w \in Workers, CheckSlot(w)
  PROVE  /\ Moves(w) /\ ScanSlot(w) \in Slots
         /\ \/ /\ Continues(proc[w], proc'[w]) /\ proc'[w].pc = "acquire"
               /\ lock' = [lock EXCEPT ![ScanSlot(w)] = NoWorker]
            \/ /\ Inspects(proc[w], proc'[w]) /\ proc'[w].pc = "reset"
               /\ ~SlotHasLiveContainer(ScanSlot(w)) /\ UNCHANGED lock
<1>0. proc[w].pc = "check" /\ proc[w].scan <= Len(ScanSlots(w)) /\ proc[w].pc \in Acquiring
  BY DEF CheckSlot, Acquiring, Shapes, Shaped, ScanSlots
<1>1. ScanSlot(w) \in Slots
  BY <1>0, ScanSlotIsSlot
<1>2. CASE ~SlotHasLiveContainer(ScanSlot(w))
  <2>1. To(w, "reset") /\ UNCHANGED lock
    BY <1>2 DEF CheckSlot
  <2>2. Moves(w) /\ Inspects(proc[w], proc'[w])
    BY <1>0, <2>1, InspectMoves
  <2> QED
    BY <1>0, <1>1, <1>2, <2>1, <2>2 DEF Inspects
<1>3. CASE SlotHasLiveContainer(ScanSlot(w))
  <2>1. /\ Go(w, [proc[w] EXCEPT !.pc = "acquire", !.scan = proc[w].scan + 1])
        /\ lock' = [lock EXCEPT ![ScanSlot(w)] = NoWorker]
    BY <1>3 DEF CheckSlot, PassSlot
  <2>2. Moves(w) /\ Continues(proc[w], proc'[w]) /\ proc'[w].pc = "acquire"
    BY <1>0, <2>1, PassMoves
  <2> QED
    BY <1>1, <2>1, <2>2
<1> QED
  BY <1>2, <1>3

\* A lease is added for the first of the mounts wanted.
Leases(r, q) ==
    /\ q.job = r.job /\ q.number = r.number
    /\ q.leases = Append(r.leases, SlotsOf[Head(r.want)][r.scan])
    /\ q.pc \in {"acquire", "create"} /\ q.mine = <<>> /\ q.target = NoBox

LEMMA ResetMoves ==
  ASSUME TypeOK, Shapes, NEW w \in Workers, ResetSlot(w)
  PROVE  /\ Moves(w) /\ ScanSlot(w) \in Slots
         /\ \/ /\ Continues(proc[w], proc'[w]) /\ proc'[w].pc = "acquire"
               /\ lock' = [lock EXCEPT ![ScanSlot(w)] = NoWorker] /\ UNCHANGED tree
            \/ /\ Leases(proc[w], proc'[w]) /\ ScanSlot(w) \notin rooted
               /\ tree' = [tree EXCEPT ![ScanSlot(w)] = Me(w)] /\ UNCHANGED lock
<1>0. proc[w].pc = "reset" /\ proc[w].scan <= Len(ScanSlots(w)) /\ proc[w].pc \in Acquiring
  BY DEF ResetSlot, Acquiring, Shapes, Shaped, ScanSlots
<1>1. ScanSlot(w) \in Slots
  BY <1>0, ScanSlotIsSlot
<1>2. CASE ScanSlot(w) \in rooted
  <2>1. /\ Go(w, [proc[w] EXCEPT !.pc = "acquire", !.scan = proc[w].scan + 1])
        /\ lock' = [lock EXCEPT ![ScanSlot(w)] = NoWorker] /\ UNCHANGED tree
    BY <1>2 DEF ResetSlot, PassSlot
  <2>2. Moves(w) /\ Continues(proc[w], proc'[w]) /\ proc'[w].pc = "acquire"
    BY <1>0, <2>1, PassMoves
  <2> QED
    BY <1>1, <2>1, <2>2
<1>3. CASE ScanSlot(w) \notin rooted
  <2> DEFINE slot == ScanSlot(w)
             taken == Append(proc[w].leases, slot)
             rest == Tail(proc[w].want)
             next == IF Len(proc[w].want) = 1 THEN "create" ELSE "acquire"
             r == [proc[w] EXCEPT !.leases = taken, !.scan = 1, !.want = rest, !.pc = next]
  <2>1. /\ Go(w, r) /\ UNCHANGED lock /\ tree' = [tree EXCEPT ![slot] = Me(w)]
    BY <1>3 DEF ResetSlot
  <2>2. proc[w] \in ProcType /\ Shaped(proc[w])
    BY DEF TypeOK, Shapes
  <2>3. /\ proc[w].leases \in Seq(Slots) /\ proc[w].want \in Seq(WritablePhases) /\ proc[w].want # <<>>
    BY <1>0, <2>2 DEF ProcType, Shaped
  <2>4. taken \in Seq(Slots) /\ rest \in Seq(WritablePhases) /\ next \in {"create", "acquire"}
    BY <1>1, <2>3, AppendProperties, HeadTailProperties
  <2>5. /\ Len(taken) = Len(proc[w].leases) + 1 /\ Len(rest) = Len(proc[w].want) - 1
        /\ Len(proc[w].leases) \in Nat /\ Len(proc[w].want) \in Nat
    BY <1>1, <2>3, AppendProperties, HeadTailProperties, LenProperties
  <2>6. /\ next = "create" => Len(taken) >= Len(MountsIn(proc[w]))
        /\ 0 < Len(MountsIn(proc[w]))
        /\ next = "acquire" => rest # <<>> /\ Len(taken) + Len(rest) >= Len(MountsIn(proc[w]))
    <3>1. Len(proc[w].leases) + Len(proc[w].want) >= Len(MountsIn(proc[w]))
      BY <1>0, <2>2 DEF Shaped, GetsLeases
    <3>2. Len(MountsIn(proc[w])) \in Nat /\ 0 < Len(MountsIn(proc[w]))
      <4>1. proc[w].job \in Jobs /\ proc[w].phase \in 1..Len(PhasesOf(proc[w].job))
        BY <1>0, <2>2 DEF Shaped, ProcType
      <4>2. MountsIn(proc[w]) \in Seq(WritablePhases) /\ MountsIn(proc[w]) # <<>>
        BY <4>1, PhasesAreSeq, ElementOfSeq, MountsAreSeq DEF MountsIn
      <4>3. Len(MountsIn(proc[w])) \in Nat \ {0}
        BY <4>2, LenProperties, EmptySeq
      <4> QED
        BY <4>3
    <3>3. Len(proc[w].want) # 0
      BY <2>3, EmptySeq
    <3>4. PICK a, b, m \in Nat : /\ a = Len(proc[w].leases) /\ b = Len(proc[w].want)
                                 /\ m = Len(MountsIn(proc[w]))
      BY <2>5, <3>2
    <3>5. /\ b # 0 /\ a + b >= m
          /\ Len(taken) = a + 1 /\ Len(rest) = b - 1
      BY <2>5, <3>1, <3>3, <3>4, Zenon
    <3>11. /\ (a + 1) + (b - 1) >= m
           /\ b = 1 => a + 1 >= m
           /\ b # 1 => b - 1 # 0
      BY <3>5
    <3>6. /\ next = "create" <=> Len(proc[w].want) = 1
          /\ next = "acquire" <=> Len(proc[w].want) # 1
      OBVIOUS
    <3>7. Len(rest) # 0 => rest # <<>>
      BY EmptySeq
    <3> HIDE DEF taken, rest, next
    <3>8. next = "create" => Len(taken) >= Len(MountsIn(proc[w]))
      BY <3>4, <3>5, <3>6, <3>11, Zenon
    <3>9. Len(taken) + Len(rest) >= Len(MountsIn(proc[w]))
      BY <3>4, <3>5, <3>11, Zenon
    <3>10. next = "acquire" => Len(rest) # 0
      BY <3>4, <3>5, <3>6, <3>11, Zenon
    <3> QED
      BY <3>2, <3>7, <3>8, <3>9, <3>10, Zenon
  <2> HIDE DEF taken, rest, next, slot
  <2>7. r \in ProcType /\ r.pc = next /\ r.leases = taken /\ r.want = rest /\ r.scan = 1
    BY ZenonT(40), <2>2, <2>4 DEF ProcType
  <2>8. /\ r.job = proc[w].job /\ r.number = proc[w].number /\ r.phase = proc[w].phase
        /\ r.mine = proc[w].mine /\ r.target = proc[w].target
    BY <2>2 DEF ProcType
  <2> HIDE DEF r
  <2>9. MountsIn(r) = MountsIn(proc[w])
    BY <2>8 DEF MountsIn
  <2>10. /\ r.pc = "create" => HasLeases(r)
         /\ r.pc = "acquire" => GetsLeases(r)
    BY <2>6, <2>7, <2>9 DEF HasLeases, GetsLeases
  <2>13. r.mine = <<>> /\ Filling(r)
    <3>1. r.mine = <<>>
      BY <1>0, <2>2, <2>8 DEF Shaped
    <3>2. Len(r.mine) = 0
      BY <3>1
    <3> QED
      BY <2>6, <2>9, <3>1, <3>2 DEF Filling
  <2>11. Shaped(r)
    BY <1>0, <2>2, <2>4, <2>6, <2>7, <2>8, <2>10, <2>13 DEF Shaped, Acquiring, Containing, Ending
  <2>12. Leases(proc[w], r)
    BY <1>0, <2>2, <2>4, <2>7, <2>8
       DEF Leases, taken, slot, ScanSlot, ScanSlots, Shaped, Acquiring
  <2> QED
    BY <1>1, <1>3, <2>1, <2>7, <2>11, <2>12, MovesTo DEF slot
<1> QED
  BY <1>2, <1>3

\* The slots of a phase are leased.
LEMMA PhaseSlotsAreLeased ==
  ASSUME TypeOK, Shapes, NEW w \in Workers, proc[w].pc \in Containing
  PROVE  /\ PhaseSlots(w) \in Seq(Slots) /\ Len(PhaseSlots(w)) \in Nat
         /\ Len(PhaseSlots(w)) = Len(MountsIn(proc[w]))
         /\ DOMAIN PhaseSlots(w) = 1..Len(PhaseSlots(w))
         /\ \A i \in 1..Len(PhaseSlots(w)) : PhaseSlots(w)[i] \in LeaseSet(w) /\ PhaseSlots(w)[i] \in Slots
<1>1. /\ proc[w].leases \in Seq(Slots) /\ proc[w].job \in Jobs
      /\ proc[w].phase \in 1..Len(PhasesOf(proc[w].job)) /\ HasLeases(proc[w])
  BY DEF TypeOK, Shapes, ProcType, Shaped, Containing, Acquiring, Ending
<1>2. Len(MountsOf(Phase(w))) \in Nat /\ MountsIn(proc[w]) = MountsOf(Phase(w))
  <2>1. MountsOf(Phase(w)) \in Seq(WritablePhases)
    BY <1>1, PhasesAreSeq, ElementOfSeq, MountsAreSeq DEF Phase
  <2> QED
    BY <2>1, LenProperties DEF MountsIn, Phase
<1>3. PICK m, n \in Nat : m = Len(MountsOf(Phase(w))) /\ n = Len(proc[w].leases) /\ n >= m
  <2>1. Len(proc[w].leases) \in Nat
    BY <1>1, LenProperties
  <2>2. Len(proc[w].leases) >= Len(MountsOf(Phase(w)))
    BY <1>1, <1>2, Zenon DEF HasLeases
  <2> QED
    BY <1>2, <2>1, <2>2, Zenon
<1>4. PhaseSlots(w) = SubSeq(proc[w].leases, n - m + 1, n)
  BY <1>3 DEF PhaseSlots
<1> DEFINE k == n - m + 1
<1>5. k \in Int /\ \A i \in k..n : i \in 1..Len(proc[w].leases)
  BY <1>3
<1>6. \A i \in k..n : proc[w].leases[i] \in Slots /\ proc[w].leases[i] \in LeaseSet(w)
  <2>1. DOMAIN proc[w].leases = 1..Len(proc[w].leases)
    BY <1>1, LenProperties
  <2>2. \A i \in 1..Len(proc[w].leases) : proc[w].leases[i] \in Slots
    BY <1>1, ElementOfSeq
  <2> QED
    BY <1>5, <2>1, <2>2, Zenon DEF LeaseSet
<1>7. /\ SubSeq(proc[w].leases, k, n) \in Seq(Slots)
      /\ Len(SubSeq(proc[w].leases, k, n)) = IF k <= n THEN n - k + 1 ELSE 0
      /\ \A i \in 1..(n - k + 1) : SubSeq(proc[w].leases, k, n)[i] = proc[w].leases[k + i - 1]
  <2> HIDE DEF k
  <2> QED
    BY <1>5, <1>6, SubSeqProperties
<1>8. /\ Len(PhaseSlots(w)) = m
      /\ \A i \in 1..m : i \in 1..(n - k + 1) /\ k + i - 1 \in k..n
  BY <1>4, <1>7
<1>9. DOMAIN PhaseSlots(w) = 1..Len(PhaseSlots(w))
  BY <1>4, <1>7, LenProperties
<1> HIDE DEF k
<1>10. \A i \in 1..m : PhaseSlots(w)[i] = proc[w].leases[k + i - 1] /\ k + i - 1 \in k..n
  BY <1>4, <1>7, <1>8 DEF k
<1> QED
  BY <1>2, <1>3, <1>4, <1>6, <1>7, <1>8, <1>9, <1>10 DEF k

\* The id of a new container is free.
LEMMA NewBoxesAreFree == NewBoxes \subseteq FreeBoxes /\ FreeBoxes \subseteq Boxes
  BY DEF NewBoxes, FreeBoxes

\* A container of a phase is created, the last one or one before it.
Creates(r, q, b) ==
    /\ r.pc = "create" /\ q.pc \in {"create", "start"} /\ q.mine = Append(r.mine, b)
    /\ q.target = NoBox
    /\ q.job = r.job /\ q.number = r.number /\ q.leases = r.leases /\ q.phase = r.phase

\* The record after the creation of container b.
Adds(p, pc, b) == [p EXCEPT !.pc = pc, !.mine = Append(p.mine, b)]

LEMMA CreateMoves ==
  ASSUME TypeOK, Shapes, NEW w \in Workers, CreateContainer(w)
  PROVE  /\ Moves(w) /\ proc[w].pc = "create" /\ proc[w].pc \in Containing
         /\ proc[w].mine \in Seq(Boxes) /\ Len(proc[w].mine) + 1 \in 1..Len(PhaseSlots(w))
         /\ \E b \in FreeBoxes :
               /\ Creates(proc[w], proc'[w], b)
               /\ box' = [box EXCEPT ![b] = NewBox(w, PhaseSlots(w)[Len(proc[w].mine) + 1], "created")]
<1>1. proc[w] \in ProcType /\ Shaped(proc[w]) /\ proc[w].pc = "create" /\ proc[w].pc \in Containing
  BY DEF TypeOK, Shapes, CreateContainer, Containing
<1> DEFINE n == Len(proc[w].mine) + 1
           pc == IF n = Len(PhaseSlots(w)) THEN "start" ELSE "create"
<1>2. PICK b \in NewBoxes : /\ box' = [box EXCEPT ![b] = NewBox(w, PhaseSlots(w)[n], "created")]
                            /\ Go(w, Adds(proc[w], pc, b))
  BY DEF CreateContainer, Adds
<1>3. b \in FreeBoxes /\ b \in Boxes
  BY NewBoxesAreFree
<1>4. /\ proc[w].mine \in Seq(Boxes) /\ proc[w].target = NoBox /\ proc[w].scan = 1
      /\ HasLeases(proc[w]) /\ Filling(proc[w])
  BY <1>1 DEF Shaped, ProcType
<1>5. /\ Append(proc[w].mine, b) \in Seq(Boxes) /\ Len(Append(proc[w].mine, b)) = n
      /\ Len(proc[w].mine) \in Nat
  BY <1>3, <1>4, AppendProperties, LenProperties
<1>6. /\ Len(PhaseSlots(w)) \in Nat /\ Len(PhaseSlots(w)) = Len(MountsIn(proc[w]))
  BY <1>1, PhaseSlotsAreLeased
<1>7. n \in 1..Len(PhaseSlots(w)) /\ (pc = "create" => n < Len(PhaseSlots(w)))
  BY <1>4, <1>5, <1>6 DEF Filling
<1>8. PICK r : r = Adds(proc[w], pc, b)
  OBVIOUS
<1>9. pc \in {"create", "start"} /\ 1 <= n
  BY <1>5
<1> HIDE DEF n, pc
<1>10. r \in ProcType
  BY ZenonT(40), <1>1, <1>5, <1>8, <1>9 DEF ProcType, Adds
<1>11. /\ r.pc = pc /\ r.mine = Append(proc[w].mine, b) /\ r.target = proc[w].target /\ r.scan = proc[w].scan
       /\ r.job = proc[w].job /\ r.number = proc[w].number /\ r.leases = proc[w].leases
       /\ r.phase = proc[w].phase
  BY <1>1, <1>8 DEF ProcType, Adds
<1>12. MountsIn(r) = MountsIn(proc[w])
  BY <1>11 DEF MountsIn
<1>13. pc = "create" => Filling(r)
  BY <1>5, <1>6, <1>7, <1>11, <1>12 DEF Filling
<1>14. InTurn(r)
  BY <1>4, <1>5, <1>9, <1>11 DEF InTurn
<1>15. HasLeases(r)
  BY <1>4, <1>11, <1>12 DEF HasLeases
<1>16. Shaped(r)
  BY <1>1, <1>4, <1>9, <1>11, <1>13, <1>14, <1>15 DEF Shaped, Acquiring, Containing, Ending
<1>17. Creates(proc[w], r, b)
  BY <1>1, <1>4, <1>9, <1>11 DEF Creates
<1> QED
  BY <1>1, <1>2, <1>3, <1>4, <1>7, <1>8, <1>10, <1>16, <1>17, MovesTo DEF n

\* A sidecar is started.
Repairs(r, q, b) ==
    /\ r.pc = "repair" /\ q.pc = "repairing" /\ q.mine = r.mine /\ q.target = b /\ q.scan = r.scan
    /\ q.job = r.job /\ q.number = r.number /\ q.leases = r.leases /\ q.phase = r.phase

LEMMA SidecarMoves ==
  ASSUME TypeOK, Shapes, NEW w \in Workers, proc[w].pc = "repair", NEW b \in Boxes,
         Go(w, [proc[w] EXCEPT !.pc = "repairing", !.target = b])
  PROVE  Moves(w) /\ Repairs(proc[w], proc'[w], b)
<1> DEFINE r == [proc[w] EXCEPT !.pc = "repairing", !.target = b]
<1>1. proc[w] \in ProcType /\ Shaped(proc[w]) /\ b # NoBox
  BY NamesAssumption DEF TypeOK, Shapes
<1>2. r \in ProcType
  BY <1>1 DEF ProcType
<1>3. Shaped(r)
  BY <1>1 DEF Shaped, ProcType, Acquiring, Containing, Ending, MountsIn, HasLeases, GetsLeases
<1>4. Repairs(proc[w], r, b)
  BY <1>1 DEF Repairs, ProcType
<1> HIDE DEF r
<1> QED
  BY <1>2, <1>3, <1>4, MovesTo DEF r

\* The repair goes on to the next mount, or is over.
LEMMA StartRepairMoves ==
  ASSUME TypeOK, Shapes, NEW w \in Workers, StartRepair(w)
  PROVE  /\ Moves(w) /\ proc[w].pc = "repair"
         /\ \/ /\ Continues(proc[w], proc'[w]) /\ UNCHANGED <<box, faults>>
               /\ proc'[w].pc = "remove" /\ proc[w].scan > Len(PhaseSlots(w))
            \/ /\ Continues(proc[w], proc'[w]) /\ UNCHANGED box /\ Fault
               /\ proc'[w].pc = "repair"
            \/ \E b \in FreeBoxes :
                  /\ Repairs(proc[w], proc'[w], b)
                  /\ proc[w].scan \in 1..Len(PhaseSlots(w)) /\ UNCHANGED faults
                  /\ box' = [box EXCEPT ![b] = NewBox(w, PhaseSlots(w)[proc[w].scan], "running")]
<1>1. /\ proc[w] \in ProcType /\ Shaped(proc[w]) /\ proc[w].pc = "repair" /\ proc[w].pc \in Containing
      /\ proc[w].target = NoBox /\ proc[w].scan \in Nat /\ proc[w].scan >= 1
      /\ proc[w].outcome \in {"ok", "bad", "docker"} /\ proc[w].mine # <<>>
  BY DEF TypeOK, Shapes, StartRepair, Shaped, ProcType, Containing
<1>2. CASE /\ proc[w].scan > Len(PhaseSlots(w))
           /\ Go(w, [proc[w] EXCEPT !.pc = "remove", !.scan = 1]) /\ UNCHANGED <<box, faults>>
  <2>1. [proc[w] EXCEPT !.pc = "remove", !.scan = 1]
        = Within(proc[w], "remove", 1, proc[w].outcome)
    BY <1>1 DEF ProcType, Within
  <2>2. 1 <= Len(proc[w].mine)
    BY <1>1, InTurnFacts
  <2>3. Go(w, Within(proc[w], "remove", 1, proc[w].outcome))
    BY <1>2, <2>1, Zenon
  <2>4. Moves(w) /\ Continues(proc[w], proc'[w]) /\ proc'[w].pc = "remove"
    BY <1>1, <2>2, <2>3, WithinMoves
  <2> QED
    BY <1>1, <1>2, <2>4
<1>3. CASE /\ Fault /\ UNCHANGED box
           /\ Go(w, [proc[w] EXCEPT !.scan = proc[w].scan + 1, !.outcome = "docker"])
  <2>1. [proc[w] EXCEPT !.scan = proc[w].scan + 1, !.outcome = "docker"]
        = Within(proc[w], "repair", proc[w].scan + 1, "docker")
    BY <1>1 DEF ProcType, Within
  <2>2. proc[w].scan + 1 \in Nat \ {0}
    BY <1>1
  <2> QED
    BY <1>1, <1>3, <2>1, <2>2, WithinMoves
<1>4. ASSUME proc[w].scan <= Len(PhaseSlots(w)), UNCHANGED faults, NEW b \in NewBoxes,
             box' = [box EXCEPT ![b] = NewBox(w, PhaseSlots(w)[proc[w].scan], "running")],
             Go(w, [proc[w] EXCEPT !.pc = "repairing", !.target = b])
      PROVE  /\ Moves(w) /\ b \in FreeBoxes
             /\ Repairs(proc[w], proc'[w], b) /\ proc[w].scan \in 1..Len(PhaseSlots(w))
  <2>1. b \in FreeBoxes /\ b \in Boxes
    BY NewBoxesAreFree
  <2>2. proc[w].scan \in 1..Len(PhaseSlots(w))
    BY <1>1, <1>4, PhaseSlotsAreLeased
  <2> QED
    BY <1>1, <1>4, <2>1, <2>2, SidecarMoves
<1> QED
  BY <1>1, <1>2, <1>3, <1>4 DEF StartRepair, NoFault

LEMMA EndRepairMoves ==
  ASSUME TypeOK, Shapes, NEW w \in Workers, EndRepair(w)
  PROVE  /\ Moves(w) /\ Continues(proc[w], proc'[w])
         /\ proc[w].pc = "repairing" /\ proc'[w].pc = "repair" /\ proc'[w].scan = proc[w].scan + 1
<1>1. /\ proc[w] \in ProcType /\ Shaped(proc[w]) /\ proc[w].pc = "repairing"
      /\ proc[w].scan \in Nat /\ proc[w].scan >= 1 /\ proc[w].mine # <<>>
      /\ proc[w].outcome \in {"ok", "bad", "docker"}
  BY DEF TypeOK, Shapes, EndRepair, Shaped, ProcType, Acquiring, Containing
<1>2. PICK n \in Nat \ {0} : n = proc[w].scan + 1
  BY <1>1
<1> DEFINE next == [proc[w] EXCEPT !.pc = "repair", !.scan = proc[w].scan + 1, !.target = NoBox]
<1>3. Go(w, next) \/ Go(w, [next EXCEPT !.outcome = "docker"])
  BY DEF EndRepair
<1>4. /\ next = Within(proc[w], "repair", n, proc[w].outcome)
      /\ [next EXCEPT !.outcome = "docker"] = Within(proc[w], "repair", n, "docker")
  BY <1>1, <1>2 DEF ProcType, Within
<1> HIDE DEF next
<1>5. CASE Go(w, next)
  BY <1>1, <1>2, <1>4, <1>5, WithinMoves
<1>6. CASE Go(w, [next EXCEPT !.outcome = "docker"])
  BY <1>1, <1>2, <1>4, <1>6, WithinMoves
<1> QED
  BY <1>3, <1>5, <1>6

LEMMA RemoveMoves ==
  ASSUME TypeOK, Shapes, NEW w \in Workers, RemoveContainer(w)
  PROVE  /\ Moves(w) /\ Continues(proc[w], proc'[w])
         /\ proc[w].pc = "remove" /\ proc'[w].pc \in {"remove", "judge"}
         /\ proc[w].scan \in 1..Len(proc[w].mine) /\ proc[w].mine[proc[w].scan] \in Boxes
<1>1. proc[w] \in ProcType /\ Shaped(proc[w]) /\ proc[w].pc = "remove" /\ proc[w].pc \in Containing
  BY DEF TypeOK, Shapes, RemoveContainer, Containing
<1>2. /\ proc[w].scan >= 1 /\ proc[w].target = NoBox /\ InTurn(proc[w]) /\ proc[w].scan \in Nat
      /\ proc[w].outcome \in {"ok", "bad", "docker"}
  BY <1>1 DEF Shaped, ProcType
<1>3. /\ proc[w].mine # <<>> /\ proc[w].scan \in 1..Len(proc[w].mine)
      /\ proc[w].mine[proc[w].scan] \in Boxes /\ Len(proc[w].mine) \in Nat
  BY <1>1, <1>2, InTurnFacts
<1> DEFINE n == proc[w].scan
           pc == IF n = Len(proc[w].mine) THEN "judge" ELSE "remove"
           next == [proc[w] EXCEPT !.pc = pc, !.scan = n + 1]
<1>4. Go(w, next) \/ Go(w, [next EXCEPT !.outcome = "docker"])
  BY DEF RemoveContainer
<1>5. /\ pc \in {"judge", "remove"} /\ n + 1 \in Nat \ {0}
      /\ pc = "remove" => n + 1 <= Len(proc[w].mine)
  BY <1>2, <1>3
<1>6. PICK k \in Nat \ {0} : k = n + 1
  BY <1>5
<1>7. PICK c \in {"judge", "remove"} : c = pc
  BY <1>5
<1>8. /\ next = Within(proc[w], c, k, proc[w].outcome)
      /\ [next EXCEPT !.outcome = "docker"] = Within(proc[w], c, k, "docker")
  BY <1>1, <1>2, <1>6, <1>7 DEF ProcType, Within
<1> HIDE DEF next, pc, n
<1> QED
  BY <1>1, <1>2, <1>3, <1>4, <1>5, <1>6, <1>7, <1>8, WithinMoves

\* A phase has at least one mount, so that an attempt in it has a lease.
LEMMA LeasesAreThere ==
  ASSUME NEW r \in ProcType, Shaped(r), r.pc \in Containing
  PROVE  r.leases # <<>>
<1>1. r.job \in Jobs /\ r.phase \in 1..Len(PhasesOf(r.job)) /\ HasLeases(r) /\ r.leases \in Seq(Slots)
  BY DEF ProcType, Shaped, Containing, Acquiring, Ending
<1>2. MountsIn(r) \in Seq(WritablePhases) /\ MountsIn(r) # <<>>
  BY <1>1, PhasesAreSeq, ElementOfSeq, MountsAreSeq DEF MountsIn
<1>3. Len(MountsIn(r)) \in Nat \ {0}
  BY <1>2, EmptySeq
<1>4. Len(r.leases) \in Nat /\ Len(r.leases) >= Len(MountsIn(r))
  BY <1>1, LenProperties DEF HasLeases
<1>5. Len(r.leases) # 0
  <2>1. \A m, n \in Nat : m # 0 /\ n >= m => n # 0
    OBVIOUS
  <2> QED
    BY <1>3, <1>4, <2>1, Zenon
<1> QED
  BY <1>5, EmptySeq

\* The process keeps its leases but the first, or all of them.
Sheds(r, q) ==
    /\ q.job = r.job /\ q.number = r.number
    /\ q.pc \in {"acquire", "unwind"} /\ q.target = NoBox

LEMMA JudgeMoves ==
  ASSUME TypeOK, Shapes, NEW w \in Workers, JudgePhase(w)
  PROVE  /\ Moves(w) /\ proc[w].pc = "judge"
         /\ \/ /\ Sheds(proc[w], proc'[w])
               /\ proc'[w].leases = IF ReplacesSetup(w) THEN Tail(proc[w].leases) ELSE proc[w].leases
               /\ Dropped(ReplacedLeases(w))
            \/ Continues(proc[w], proc'[w]) /\ UNCHANGED <<lock, tree>>
<1>1. /\ proc[w] \in ProcType /\ Shaped(proc[w]) /\ proc[w].pc = "judge" /\ proc[w].pc \in Containing
      /\ proc[w].phase + 1 \in Nat \ {0}
  BY DEF TypeOK, Shapes, JudgePhase, Containing, ProcType
<1>2. CASE Go(w, Ends(w, "error")) /\ UNCHANGED <<lock, tree>>
  BY <1>1, <1>2, EndsMoves DEF Results
<1>3. CASE /\ Dropped(ReplacedLeases(w))
           /\ Go(w, [Enters(w, proc[w].phase + 1) EXCEPT
                       !.leases = IF ReplacesSetup(w) THEN Tail(@) ELSE @])
  <2>1. PICK e : e = Enters(w, proc[w].phase + 1)
    OBVIOUS
  <2>2. /\ e \in ProcType /\ e.pc \in {"acquire", "unwind"}
        /\ e.job = proc[w].job /\ e.number = proc[w].number
        /\ e.leases = proc[w].leases /\ e.target = NoBox
        /\ e.pc = "acquire" =>
              /\ e.phase \in 1..Len(PhasesOf(proc[w].job)) /\ e.scan = 1
              /\ e.mine = <<>> /\ e.want # <<>>
              /\ e.want = MountsOf(PhasesOf(proc[w].job)[e.phase])
    BY <1>1, <2>1, EntersIsTyped
  <2>3. PICK kept : kept = IF ReplacesSetup(w) THEN Tail(proc[w].leases) ELSE proc[w].leases
    OBVIOUS
  <2>4. kept \in Seq(Slots)
    <3>1. proc[w].leases \in Seq(Slots) /\ proc[w].leases # <<>>
      BY <1>1, LeasesAreThere DEF ProcType
    <3> QED
      BY <2>3, <3>1, HeadTailProperties
  <2>5. PICK r : r = [e EXCEPT !.leases = kept]
    OBVIOUS
  <2>6. Go(w, r)
    BY <1>3, <2>1, <2>2, <2>3, <2>5 DEF ProcType
  <2>7. /\ r \in ProcType /\ r.pc = e.pc /\ r.job = e.job /\ r.number = e.number /\ r.leases = kept
        /\ r.target = e.target /\ r.phase = e.phase /\ r.scan = e.scan /\ r.mine = e.mine
        /\ r.want = e.want
    BY ZenonT(40), <2>2, <2>4, <2>5 DEF ProcType
  <2>8. r.pc = "acquire" => /\ r.phase \in 1..Len(PhasesOf(r.job)) /\ r.want = MountsIn(r)
    BY <2>2, <2>7 DEF MountsIn
  <2>9. r.job # NoJob /\ r.number >= 1
    BY <1>1, <2>2, <2>7 DEF Shaped
  <2>10. Shaped(r)
    BY <2>2, <2>7, <2>8, <2>9, EnteredIsShaped
  <2>11. Moves(w) /\ proc'[w] = r
    BY <2>6, <2>7, <2>10, MovesTo
  <2> QED
    BY <1>1, <1>3, <2>2, <2>3, <2>7, <2>11 DEF Sheds
<1> QED
  BY <1>1, <1>2, <1>3 DEF JudgePhase

LEMMA UnwindMoves ==
  ASSUME TypeOK, Shapes, NEW w \in Workers, Unwind(w)
  PROVE  /\ Moves(w) /\ Drops(proc'[w]) /\ proc[w].pc = "unwind" /\ proc'[w].pc = "log"
         /\ proc'[w].job = proc[w].job /\ proc'[w].number = proc[w].number
<1> DEFINE r == [proc[w] EXCEPT !.pc = "log", !.leases = <<>>, !.mine = <<>>, !.want = <<>>, !.scan = 1]
<1>1. proc[w] \in ProcType /\ Shaped(proc[w]) /\ proc[w].pc = "unwind" /\ Go(w, r)
  BY DEF TypeOK, Shapes, Unwind
<1>2. r \in ProcType
  <2>1. <<>> \in Seq(Slots) /\ <<>> \in Seq(Boxes) /\ <<>> \in Seq(WritablePhases) /\ 1 \in Nat
    OBVIOUS
  <2>2. proc[w] \in ProcType
    BY <1>1
  <2> QED
    BY ZenonT(40), <2>1, <2>2 DEF ProcType
<1>3. /\ Shaped(r) /\ Drops(r) /\ r.pc = "log" /\ r.job = proc[w].job /\ r.number = proc[w].number
  BY <1>1 DEF Shaped, ProcType, Acquiring, Containing, Ending, Drops
<1> HIDE DEF r
<1> QED
  BY <1>1, <1>2, <1>3, MovesTo

\* The log is kept or lost, and the working root cleaned.
LEMMA EndingMoves ==
  ASSUME TypeOK, Shapes, NEW w \in Workers, PersistLog(w) \/ CleanWorkspace(w)
  PROVE  Moves(w) /\ Continues(proc[w], proc'[w]) /\ proc[w].pc \in Ending /\ proc'[w].pc \in Ending
<1>1. proc[w] \in ProcType /\ Shaped(proc[w]) /\ proc[w].pc \in {"log", "clean"}
  BY DEF TypeOK, Shapes, PersistLog, CleanWorkspace
<1>2. ASSUME NEW pc \in {"clean", "report"}, NEW e \in Results,
             Go(w, [proc[w] EXCEPT !.pc = pc, !.result = e])
      PROVE  Moves(w) /\ Continues(proc[w], proc'[w]) /\ proc'[w].pc = pc
  <2> DEFINE r == [proc[w] EXCEPT !.pc = pc, !.result = e]
  <2>1. r \in ProcType /\ r.pc = pc /\ r.job = proc[w].job
    <3>1. At(proc[w], pc) \in ProcType /\ At(proc[w], pc).pc = pc /\ At(proc[w], pc).job = proc[w].job
      BY <1>1, AtPc
    <3>2. r = Answers(At(proc[w], pc), e)
      BY <1>1 DEF ProcType, At, Answers
    <3> HIDE DEF r
    <3> QED
      BY <3>1, <3>2, AnswersIsProc
  <2>2. Shaped(r)
    BY <1>1, <2>1 DEF Shaped, ProcType, Acquiring, Containing, Ending
  <2>3. Continues(proc[w], r)
    BY <1>1, <2>1 DEF ProcType, Containing, Continues
  <2> HIDE DEF r
  <2> QED
    BY <1>2, <2>1, <2>2, <2>3, MovesTo DEF r
<1>3. proc[w].result \in Results /\ "error" \in Results
  BY <1>1 DEF ProcType, Results
<1>4. CASE PersistLog(w)
  <2> DEFINE kept == [proc[w] EXCEPT !.pc = "clean"]
             e == IF proc[w].result = "ok" THEN "error" ELSE proc[w].result
             lost == [proc[w] EXCEPT !.pc = "clean", !.result = e]
  <2>1. Go(w, kept) \/ Go(w, lost)
    BY <1>4 DEF PersistLog
  <2>2. kept = [proc[w] EXCEPT !.pc = "clean", !.result = proc[w].result]
    BY <1>1 DEF ProcType
  <2>3. e \in Results
    BY <1>3
  <2> HIDE DEF e
  <2> QED
    BY <1>1, <1>2, <1>3, <2>1, <2>2, <2>3 DEF Ending
<1>5. CASE CleanWorkspace(w)
  <2>1. Sanitized(w, proc[w].result) \in Results
    BY <1>3 DEF Sanitized
  <2>2. \/ Go(w, [proc[w] EXCEPT !.pc = "report", !.result = Sanitized(w, proc[w].result)])
        \/ Go(w, [proc[w] EXCEPT !.pc = "report", !.result = "error"])
    BY <1>5 DEF CleanWorkspace
  <2> QED
    BY <1>1, <1>2, <1>3, <2>1, <2>2 DEF Ending
<1> QED
  BY <1>4, <1>5

-----------------------------------------------------------------------------
(* Which steps write which variable.                                           *)

\* Only the calls that begin, renew or end a claim, and the clock, write claims.
LEMMA ClaimWriters ==
  ASSUME NEW w \in Workers, WorkerStep(w)
  PROVE  UNCHANGED claim \/ ReapClaims(w) \/ (\E j \in Jobs : ClaimJob(w, j)) \/ Report(w)
  BY DEF WorkerStep, StartWorker, ListContainers, SweepContainer, KillContainer, MaintenanceFails, SweepEnds,
         FindNothing, Prepare, TrySlot, NoSlotLeft, CheckSlot, ResetSlot, CreateContainer, CreateFails,
         StartContainer, WaitEnds, WaitTimesOut, WaitFails, StartRepair, EndRepair, RemoveContainer,
         JudgePhase, Unwind, PersistLog, CleanWorkspace

LEMMA LockWriters ==
  ASSUME NEW w \in Workers, WorkerStep(w)
  PROVE  /\ UNCHANGED lock \/ TrySlot(w) \/ CheckSlot(w) \/ ResetSlot(w) \/ JudgePhase(w) \/ Unwind(w)
         /\ UNCHANGED tree \/ ResetSlot(w) \/ JudgePhase(w) \/ Unwind(w)
  BY DEF WorkerStep, StartWorker, ReapClaims, ListContainers, SweepContainer, KillContainer,
         MaintenanceFails, SweepEnds, ClaimJob, FindNothing, Prepare, TrySlot, CheckSlot, NoSlotLeft, CreateContainer,
         CreateFails, StartContainer, WaitEnds, WaitTimesOut, WaitFails, StartRepair, EndRepair,
         RemoveContainer, PersistLog, CleanWorkspace, Report

LEMMA BoxWriters ==
  ASSUME NEW w \in Workers, WorkerStep(w)
  PROVE  \/ UNCHANGED box
         \/ (\E x \in proc[w].seen : SweepContainer(w, x)) \/ KillContainer(w) \/ CreateContainer(w)
         \/ StartContainer(w) \/ WaitTimesOut(w) \/ StartRepair(w) \/ EndRepair(w) \/ RemoveContainer(w)
  BY DEF WorkerStep, StartWorker, ReapClaims, ListContainers, MaintenanceFails, SweepEnds, ClaimJob,
         FindNothing, Prepare, TrySlot, NoSlotLeft, CheckSlot, ResetSlot, CreateFails, WaitEnds, WaitFails,
         JudgePhase, Unwind, PersistLog, CleanWorkspace, Report

LEMMA RootedWriters ==
  ASSUME NEW w \in Workers, WorkerStep(w)
  PROVE  /\ UNCHANGED rooted \/ StartContainer(w) \/ EndRepair(w)
         /\ UNCHANGED log \/ PersistLog(w)
  BY DEF WorkerStep, StartWorker, ReapClaims, ListContainers, SweepContainer, KillContainer,
         MaintenanceFails, SweepEnds, ClaimJob, FindNothing, Prepare, TrySlot, NoSlotLeft, CheckSlot,
         ResetSlot, CreateContainer, CreateFails, StartContainer, WaitEnds, WaitTimesOut, WaitFails, StartRepair, EndRepair,
         RemoveContainer, JudgePhase, Unwind, PersistLog, CleanWorkspace, Report

LEMMA FaultWriters ==
  ASSUME NEW w \in Workers, WorkerStep(w)
  PROVE  UNCHANGED faults \/ Fault
  BY DEF WorkerStep, StartWorker, ReapClaims, ListContainers, SweepContainer, KillContainer,
         MaintenanceFails, SweepEnds, ClaimJob, FindNothing, Prepare, TrySlot, NoSlotLeft, CheckSlot,
         ResetSlot, CreateContainer, CreateFails, StartContainer, WaitEnds, WaitTimesOut, WaitFails,
         StartRepair, EndRepair, RemoveContainer, JudgePhase, Unwind, PersistLog, CleanWorkspace,
         Report, NoFault

\* Every step of a worker that is not one of these keeps or drops its leases.
LEMMA WorkerMoves ==
  ASSUME TypeOK, Shapes, BoxesAreLabelled, NEW w \in Workers, WorkerStep(w)
  PROVE  /\ Moves(w)
         /\ \/ Continues(proc[w], proc'[w]) \/ Drops(proc'[w])
            \/ TrySlot(w) \/ CheckSlot(w) \/ ResetSlot(w) \/ CreateContainer(w) \/ StartRepair(w)
            \/ JudgePhase(w)
<1>1. CASE StartWorker(w) \/ ReapClaims(w)
  BY <1>1, ToMoves DEF StartWorker, ReapClaims
<1>2. CASE ListContainers(w) \/ KillContainer(w) \/ \E x \in proc[w].seen : SweepContainer(w, x)
  BY <1>2, ListMoves, KillMoves, SweepMoves
<1>3. CASE MaintenanceFails(w) \/ FindNothing(w) \/ Report(w)
  BY <1>3, IdleMoves DEF MaintenanceFails, FindNothing, Report
<1>4. CASE SweepEnds(w)
  BY <1>4, IdleMoves, ToMoves DEF SweepEnds, To
<1>5. CASE \E j \in Jobs : ClaimJob(w, j)
  BY <1>5, ClaimMoves
<1>6. CASE Prepare(w)
  BY <1>6, PrepareMoves
<1>7. CASE NoSlotLeft(w) \/ CreateFails(w)
  BY <1>7, EndsMoves, CreateFailsMoves DEF NoSlotLeft, Results, Acquiring
<1>8. CASE StartContainer(w)
  BY <1>8, StartMoves
<1>9. CASE WaitEnds(w) \/ WaitTimesOut(w) \/ WaitFails(w)
  BY <1>9, RepairMoves
<1>10. CASE EndRepair(w) \/ RemoveContainer(w)
  BY <1>10, EndRepairMoves, RemoveMoves
<1>11. CASE Unwind(w) \/ PersistLog(w) \/ CleanWorkspace(w)
  BY <1>11, UnwindMoves, EndingMoves
<1>12. CASE TrySlot(w) \/ CheckSlot(w) \/ ResetSlot(w)
  BY <1>12, TryMoves, CheckMoves, ResetMoves
<1>13. CASE CreateContainer(w)
  BY <1>13, CreateMoves
<1>14. CASE StartRepair(w) \/ JudgePhase(w)
  BY <1>14, StartRepairMoves, JudgeMoves
<1> QED
  BY <1>1, <1>2, <1>3, <1>4, <1>5, <1>6, <1>7, <1>8, <1>9, <1>10, <1>11, <1>12, <1>13, <1>14
     DEF WorkerStep

-----------------------------------------------------------------------------
(* Types.                                                                      *)

LEMMA UnclaimedIsTyped ==
  ASSUME NEW n \in 0..MaxAttempts
  PROVE  Unclaimed("queued", n) \in ClaimType /\ Unclaimed("done", 0) \in ClaimType
  BY JobClaimsAssumption DEF Unclaimed, ClaimType

\* A claim whose record changes keeps the others.
LEMMA ClaimSet ==
  ASSUME TypeOK, ClaimsAreNumbered, NEW j \in Jobs, NEW c \in ClaimType,
         c.status = "running" => c.worker \in Workers /\ c.attempt >= 1,
         claim' = [claim EXCEPT ![j] = c]
  PROVE  claim' \in [Jobs -> ClaimType] /\ ClaimsAreNumbered'
  BY DEF TypeOK, ClaimsAreNumbered

LEMMA WorkerClaims ==
  ASSUME TypeOK, Shapes, ClaimsAreNumbered, NEW w \in Workers, WorkerStep(w)
  PROVE  claim' \in [Jobs -> ClaimType] /\ ClaimsAreNumbered'
<1>1. CASE UNCHANGED claim
  BY <1>1 DEF TypeOK, ClaimsAreNumbered
<1>2. CASE ReapClaims(w)
  <2>1. \A j \in Jobs : \/ claim'[j] = claim[j]
                        \/ claim'[j] \in ClaimType /\ claim'[j].status # "running"
    <3>1. \A j \in Jobs : claim[j].attempt \in 0..MaxAttempts
      BY DEF TypeOK, ClaimType
    <3>2. \A n \in 0..MaxAttempts : Unclaimed("queued", n) \in ClaimType /\ Unclaimed("done", 0) \in ClaimType
      BY UnclaimedIsTyped
    <3>3. \A n : Unclaimed("queued", n).status # "running" /\ Unclaimed("done", 0).status # "running"
      BY DEF Unclaimed
    <3>4. \A j \in Jobs : \/ claim'[j] = claim[j] \/ claim'[j] = Unclaimed("done", 0)
                          \/ claim'[j] = Unclaimed("queued", claim[j].attempt)
      BY <1>2 DEF ReapClaims, Reap
    <3> QED
      BY <3>1, <3>2, <3>3, <3>4, Zenon
  <2>2. claim' = [j \in Jobs |-> claim'[j]]
    BY <1>2 DEF ReapClaims, Reap
  <2> QED
    BY <2>1, <2>2 DEF TypeOK, ClaimsAreNumbered
<1>3. ASSUME NEW j \in Jobs, ClaimJob(w, j)
      PROVE  claim' \in [Jobs -> ClaimType] /\ ClaimsAreNumbered'
  <2> DEFINE n == claim[j].attempt + 1
             c == [status |-> "running", worker |-> w, attempt |-> n, fresh |-> TRUE]
  <2>1. claim' = [claim EXCEPT ![j] = c] /\ claim[j] \in ClaimType /\ claim[j].attempt < MaxAttempts
    BY <1>3 DEF ClaimJob, Claim, TypeOK
  <2>2. n \in 1..MaxAttempts /\ n \in 0..MaxAttempts
    BY <2>1, JobClaimsAssumption DEF ClaimType
  <2> HIDE DEF n
  <2>3. c \in ClaimType /\ c.worker \in Workers /\ c.attempt >= 1
    BY <2>2 DEF ClaimType
  <2> HIDE DEF c
  <2> QED
    BY <2>1, <2>3, ClaimSet
<1>4. CASE Report(w) /\ ~UNCHANGED claim
  <2>1. /\ Holds(w, proc[w].job, proc[w].number) /\ proc[w].job \in Jobs /\ proc[w].number \in 1..MaxAttempts
    <3>1. proc[w] \in ProcType /\ Shaped(proc[w]) /\ proc[w].pc = "report"
      BY <1>4 DEF Report, TypeOK, Shapes
    <3>2. proc[w].job \in Jobs /\ proc[w].number >= 1 /\ proc[w].number \in 0..MaxAttempts
      BY <3>1 DEF Shaped, ProcType, Ending
    <3> QED
      BY <1>4, <3>2, JobClaimsAssumption DEF Report
  <2>2. \/ claim' = [claim EXCEPT ![proc[w].job] = Unclaimed("done", 0)]
        \/ claim' = [claim EXCEPT ![proc[w].job] = Unclaimed("queued", proc[w].number - 1)]
    BY <1>4 DEF Report, GiveBack, Settle
  <2>3. proc[w].number - 1 \in 0..MaxAttempts /\ 0 \in 0..MaxAttempts
    BY <2>1, JobClaimsAssumption
  <2>4. \A n : Unclaimed("queued", n).status # "running" /\ Unclaimed("done", 0).status # "running"
    BY DEF Unclaimed
  <2>5. \A n \in 0..MaxAttempts : Unclaimed("queued", n) \in ClaimType /\ Unclaimed("done", 0) \in ClaimType
    BY UnclaimedIsTyped
  <2> QED
    BY <2>1, <2>2, <2>3, <2>4, <2>5, ClaimSet
<1> QED
  BY <1>1, <1>2, <1>3, <1>4, ClaimWriters

LEMMA DroppedTypes ==
  ASSUME TypeOK, NEW ss, Dropped(ss)
  PROVE  lock' \in [Slots -> Workers \cup {NoWorker}] /\ tree' \in [Slots -> Attempts \cup {NoAttempt}]
  BY DEF Dropped, TypeOK

LEMMA MeIsAttempt ==
  ASSUME TypeOK, Shapes, NEW w \in Workers, proc[w].job # NoJob
  PROVE  Me(w) \in Attempts
<1>1. proc[w].job \in Jobs /\ proc[w].number \in 0..MaxAttempts /\ proc[w].number >= 1
  BY DEF TypeOK, Shapes, Shaped, ProcType
<1>2. proc[w].number \in 1..MaxAttempts
  BY <1>1, JobClaimsAssumption
<1> QED
  BY <1>1, <1>2 DEF Me, Attempts

LEMMA WorkerLockTypes ==
  ASSUME TypeOK, Shapes, NEW w \in Workers, WorkerStep(w)
  PROVE  lock' \in [Slots -> Workers \cup {NoWorker}] /\ tree' \in [Slots -> Attempts \cup {NoAttempt}]
<1>1. CASE UNCHANGED <<lock, tree>>
  BY <1>1 DEF TypeOK
<1>2. CASE TrySlot(w) \/ CheckSlot(w)
  BY <1>2, TryMoves, CheckMoves DEF TypeOK, TrySlot, CheckSlot
<1>3. CASE ResetSlot(w)
  <2>1. Me(w) \in Attempts
    <3>1. proc[w].job # NoJob
      BY <1>3 DEF ResetSlot, Shapes, Shaped, Acquiring
    <3> QED
      BY <3>1, MeIsAttempt
  <2> QED
    BY <1>3, <2>1, ResetMoves DEF TypeOK
<1>4. CASE JudgePhase(w) \/ Unwind(w)
  BY <1>4, JudgeMoves, DroppedTypes DEF TypeOK, Unwind
<1> QED
  BY <1>1, <1>2, <1>3, <1>4, LockWriters

-----------------------------------------------------------------------------
(* The containers.                                                             *)

\* A container stays, stops or goes.
Fades(b) ==
    box'[b].state # "none" =>
        /\ box[b].state # "none"
        /\ box'[b].attempt = box[b].attempt /\ box'[b].slot = box[b].slot /\ box'[b].old = box[b].old
        /\ box'[b].state = "running" => box[b].state = "running"

\* A container of the attempt of w appears on one of its leases.
Arrives(w, b) ==
    /\ b \in FreeBoxes /\ box'[b].state \in {"created", "running"}
    /\ box'[b].attempt = Me(w) /\ box'[b].slot \in LeaseSet(w) /\ box'[b].slot \in Slots
    /\ \E i \in DOMAIN PhaseSlots(w) : box'[b].slot = PhaseSlots(w)[i]
    /\ ~box'[b].old
    /\ proc[w].pc \in Containing

\* A container of the attempt of w starts.
Starts(w, b) ==
    /\ proc[w].pc = "start" /\ b \in MineSet(w)
    /\ box[b].state = "created" /\ box'[b].state = "running"
    /\ box'[b].attempt = box[b].attempt /\ box'[b].slot = box[b].slot /\ box'[b].old = box[b].old

LEMMA WithoutFades ==
  ASSUME TypeOK, NEW bs, box' = Without(bs)
  PROVE  box' \in [Boxes -> BoxType] /\ \A b \in Boxes : Fades(b)
<1>1. AbsentBox \in BoxType /\ AbsentBox.state = "none"
  BY DEF AbsentBox, BoxType
<1>2. box' = [b \in Boxes |-> IF b \in bs THEN AbsentBox ELSE box[b]] /\ box \in [Boxes -> BoxType]
  BY DEF Without, TypeOK
<1> QED
  BY <1>1, <1>2 DEF Fades

LEMMA StopFades ==
  ASSUME TypeOK, NEW bs, box' = Stop(bs)
  PROVE  box' \in [Boxes -> BoxType] /\ \A b \in Boxes : Fades(b)
<1>1. \A x \in BoxType : LET y == [x EXCEPT !.state = "exited"] IN
         /\ y \in BoxType /\ y.attempt = x.attempt /\ y.slot = x.slot /\ y.old = x.old /\ y.state = "exited"
  BY DEF BoxType
<1>2. \A b \in Boxes : \/ box'[b] = box[b]
                       \/ box[b].state = "running" /\ box'[b] = [box[b] EXCEPT !.state = "exited"]
  BY DEF Stop
<1>3. box \in [Boxes -> BoxType] /\ box' = [b \in Boxes |-> box'[b]]
  BY DEF Stop, TypeOK
<1>4. ASSUME NEW b \in Boxes
      PROVE  box'[b] \in BoxType /\ Fades(b)
  <2>1. box[b] \in BoxType
    BY <1>3
  <2>2. PICK y : y = [box[b] EXCEPT !.state = "exited"]
    OBVIOUS
  <2>3. /\ y \in BoxType /\ y.attempt = box[b].attempt /\ y.slot = box[b].slot
        /\ y.old = box[b].old /\ y.state = "exited"
    BY <1>1, <2>1, <2>2
  <2>4. box'[b] = box[b] \/ (box[b].state = "running" /\ box'[b] = y)
    BY <1>2, <2>2
  <2> QED
    BY <2>1, <2>3, <2>4 DEF Fades
<1> QED
  BY <1>3, <1>4

LEMMA NewBoxIsTyped ==
  ASSUME TypeOK, Shapes, NEW w \in Workers, proc[w].pc \in Containing,
         NEW s \in Slots, NEW state \in {"created", "running"}
  PROVE  /\ NewBox(w, s, state) \in BoxType
         /\ NewBox(w, s, state).state = state /\ NewBox(w, s, state).attempt = Me(w)
         /\ NewBox(w, s, state).slot = s /\ ~NewBox(w, s, state).old
<1>1. Me(w) \in Attempts
  <2>1. proc[w].job # NoJob
    BY DEF Shapes, Shaped, Containing
  <2> QED
    BY <2>1, MeIsAttempt
<1> QED
  BY <1>1 DEF NewBox, BoxType

\* A container of the phase's n-th mount appears.
LEMMA NewArrives ==
  ASSUME TypeOK, Shapes, NEW w \in Workers, proc[w].pc \in Containing, NEW b \in FreeBoxes,
         NEW n \in 1..Len(PhaseSlots(w)), NEW state \in {"created", "running"},
         box' = [box EXCEPT ![b] = NewBox(w, PhaseSlots(w)[n], state)]
  PROVE  /\ box' \in [Boxes -> BoxType] /\ Arrives(w, b) /\ box'[b].state = state
         /\ \A c \in Boxes : c # b => box'[c] = box[c]
<1>1. b \in Boxes
  BY NewBoxesAreFree
<1>2. PhaseSlots(w)[n] \in LeaseSet(w) /\ PhaseSlots(w)[n] \in Slots /\ n \in DOMAIN PhaseSlots(w)
  BY PhaseSlotsAreLeased
<1>3. PICK x : x = NewBox(w, PhaseSlots(w)[n], state)
  OBVIOUS
<1>4. /\ x \in BoxType /\ x.state = state /\ x.attempt = Me(w) /\ x.slot = PhaseSlots(w)[n] /\ ~x.old
  BY <1>2, <1>3, NewBoxIsTyped
<1>5. box' = [box EXCEPT ![b] = x]
  BY <1>3
<1> QED
  BY <1>1, <1>2, <1>4, <1>5 DEF TypeOK, Arrives

LEMMA AppendedMine ==
  ASSUME NEW w \in Workers, NEW b \in Boxes, proc[w].mine \in Seq(Boxes),
         proc'[w].mine = Append(proc[w].mine, b)
  PROVE  MineSet(w)' = MineSet(w) \cup {b}
<1>1. PICK ms \in Seq(Boxes) : ms = proc[w].mine
  OBVIOUS
<1>2. PICK n \in Nat : n = Len(ms) /\ DOMAIN ms = 1..n
  BY LenProperties
<1>3. PICK ns \in Seq(Boxes) : ns = Append(ms, b)
  BY AppendProperties
<1>4. Len(ns) = n + 1 /\ DOMAIN ns = 1..(n + 1)
  BY <1>2, <1>3, AppendProperties, LenProperties
<1>5. (\A i \in 1..n : ns[i] = ms[i]) /\ ns[n + 1] = b
  BY <1>2, <1>3, AppendProperties
<1>6. {ns[i] : i \in 1..(n + 1)} = {ms[i] : i \in 1..n} \cup {b}
  <2>1. \A i \in 1..(n + 1) : i \in 1..n \/ i = n + 1
    OBVIOUS
  <2>2. n + 1 \in 1..(n + 1) /\ \A i \in 1..n : i \in 1..(n + 1)
    OBVIOUS
  <2> QED
    BY <1>5, <2>1, <2>2
<1>7. MineSet(w) = {ms[i] : i \in 1..n} /\ MineSet(w)' = {ns[i] : i \in 1..(n + 1)}
  BY <1>1, <1>2, <1>3, <1>4 DEF MineSet
<1> QED
  BY <1>6, <1>7

LEMMA CreateArrives ==
  ASSUME TypeOK, Shapes, NEW w \in Workers, CreateContainer(w)
  PROVE  /\ box' \in [Boxes -> BoxType]
         /\ \E b \in FreeBoxes :
               /\ b \in Boxes /\ Creates(proc[w], proc'[w], b) /\ Arrives(w, b)
               /\ box'[b].state = "created"
               /\ MineSet(w)' = MineSet(w) \cup {b}
               /\ \A c \in Boxes : c # b => box'[c] = box[c]
<1>1. PICK b \in FreeBoxes :
         /\ Creates(proc[w], proc'[w], b)
         /\ box' = [box EXCEPT ![b] = NewBox(w, PhaseSlots(w)[Len(proc[w].mine) + 1], "created")]
  BY CreateMoves
<1>2. /\ proc[w].pc \in Containing /\ proc[w].mine \in Seq(Boxes)
      /\ Len(proc[w].mine) + 1 \in 1..Len(PhaseSlots(w))
  BY CreateMoves
<1>3. PICK n \in 1..Len(PhaseSlots(w)) : n = Len(proc[w].mine) + 1
  BY <1>2
<1>4. box' = [box EXCEPT ![b] = NewBox(w, PhaseSlots(w)[n], "created")]
  BY <1>1, <1>3
<1>5. /\ box' \in [Boxes -> BoxType] /\ Arrives(w, b) /\ box'[b].state = "created"
      /\ \A c \in Boxes : c # b => box'[c] = box[c]
  BY <1>2, <1>4, NewArrives
<1>6. b \in Boxes
  BY NewBoxesAreFree
<1>7. MineSet(w)' = MineSet(w) \cup {b}
  BY <1>1, <1>2, <1>6, AppendedMine DEF Creates
<1> QED
  BY <1>1, <1>5, <1>6, <1>7

LEMMA StartStarts ==
  ASSUME TypeOK, Shapes, NEW w \in Workers, StartContainer(w)
  PROVE  /\ box' \in [Boxes -> BoxType]
         /\ \A b \in Boxes : Fades(b) \/ Starts(w, b)
<1>1. /\ proc[w].pc = "start" /\ box \in [Boxes -> BoxType]
      /\ proc[w].scan \in 1..Len(proc[w].mine) /\ proc[w].mine[proc[w].scan] \in Boxes
  BY StartMoves DEF TypeOK
<1>2. CASE UNCHANGED box
  BY <1>1, <1>2 DEF Fades
<1>3. CASE ~UNCHANGED box
  <2>1. PICK b : b = proc[w].mine[proc[w].scan]
    OBVIOUS
  <2>2. b \in Boxes /\ b \in MineSet(w)
    <3>1. proc[w].mine \in Seq(Boxes)
      BY DEF TypeOK, ProcType
    <3>2. DOMAIN proc[w].mine = 1..Len(proc[w].mine)
      BY <3>1, LenProperties
    <3> QED
      BY <1>1, <2>1, <3>2 DEF MineSet
  <2>3. box[b].state = "created" /\ box' = [box EXCEPT ![b].state = "running"]
    BY <1>3, <2>1 DEF StartContainer
  <2>4. PICK y : y = [box[b] EXCEPT !.state = "running"]
    OBVIOUS
  <2>5. box[b] \in BoxType
    BY <1>1, <2>2
  <2>6. /\ y \in BoxType /\ y.attempt = box[b].attempt /\ y.slot = box[b].slot
        /\ y.old = box[b].old /\ y.state = "running"
    BY <2>4, <2>5 DEF BoxType
  <2>7. box' = [box EXCEPT ![b] = y]
    BY <2>3, <2>4
  <2>8. box' \in [Boxes -> BoxType] /\ box'[b] = y /\ \A c \in Boxes : c # b => box'[c] = box[c]
    BY <1>1, <2>2, <2>6, <2>7
  <2> QED
    BY <1>1, <2>2, <2>3, <2>6, <2>8 DEF Fades, Starts
<1> QED
  BY <1>2, <1>3

\* What a step of w does to the containers.
LEMMA WorkerBoxes ==
  ASSUME TypeOK, Shapes, NEW w \in Workers, WorkerStep(w)
  PROVE  /\ box' \in [Boxes -> BoxType]
         /\ \A b \in Boxes : Fades(b) \/ Arrives(w, b) \/ Starts(w, b)
<1>1. CASE UNCHANGED box
  BY <1>1 DEF Fades, TypeOK
<1>2. CASE KillContainer(w) \/ EndRepair(w)
  BY <1>2, WithoutFades DEF KillContainer, EndRepair
<1>3. ASSUME NEW x \in proc[w].seen, SweepContainer(w, x)
      PROVE  box' \in [Boxes -> BoxType] /\ \A b \in Boxes : Fades(b)
  <2>1. UNCHANGED box \/ box' = Without({x.box})
    BY <1>3 DEF SweepContainer
  <2> QED
    BY <2>1, WithoutFades DEF Fades, TypeOK
<1>4. CASE RemoveContainer(w)
  <2>1. UNCHANGED box \/ \E bs : box' = Without(bs)
    BY <1>4 DEF RemoveContainer
  <2> QED
    BY <2>1, WithoutFades DEF Fades, TypeOK
<1>5. CASE WaitTimesOut(w)
  BY <1>5, StopFades DEF WaitTimesOut
<1>6. CASE CreateContainer(w) \/ StartContainer(w)
  BY <1>6, CreateArrives, StartStarts DEF Fades
<1>7. CASE StartRepair(w) /\ ~UNCHANGED box
  <2>1. PICK b \in FreeBoxes :
           /\ proc[w].pc = "repair" /\ proc[w].scan \in 1..Len(PhaseSlots(w))
           /\ box' = [box EXCEPT ![b] = NewBox(w, PhaseSlots(w)[proc[w].scan], "running")]
    BY <1>7, StartRepairMoves
  <2>2. /\ box' \in [Boxes -> BoxType] /\ Arrives(w, b)
        /\ \A c \in Boxes : c # b => box'[c] = box[c]
    BY <2>1, NewArrives DEF Containing
  <2> QED
    BY <2>2 DEF Fades
<1> QED
  BY <1>1, <1>2, <1>3, <1>4, <1>5, <1>6, <1>7, BoxWriters

\* The other variables.
LEMMA WorkerTypes ==
  ASSUME TypeOK, Shapes, ClaimsAreNumbered, BoxesAreLabelled, NEW w \in Workers, WorkerStep(w), UNCHANGED forfeited
  PROVE  TypeOK'
<1>1. /\ claim' \in [Jobs -> ClaimType] /\ proc' \in [Workers -> ProcType]
      /\ lock' \in [Slots -> Workers \cup {NoWorker}] /\ tree' \in [Slots -> Attempts \cup {NoAttempt}]
      /\ box' \in [Boxes -> BoxType]
  BY WorkerClaims, WorkerMoves, WorkerLockTypes, WorkerBoxes DEF Moves
<1>2. rooted' \subseteq Slots
  <2>1. CASE UNCHANGED rooted \/ EndRepair(w)
    BY <2>1 DEF EndRepair, TypeOK
  <2>2. CASE StartContainer(w) /\ ~UNCHANGED rooted
    <3>1. PICK b \in Boxes : b = proc[w].mine[proc[w].scan]
      BY <2>2, StartMoves
    <3>2. box[b].state = "created" /\ rooted' = rooted \cup {box[b].slot}
      BY <2>2, <3>1 DEF StartContainer
    <3>3. box[b].slot \in Slots
      BY <3>2 DEF BoxesAreLabelled
    <3> QED
      BY <3>2, <3>3 DEF TypeOK
  <2> QED
    BY <2>1, <2>2, RootedWriters
<1>3. log' \subseteq Jobs \X (1..MaxAttempts)
  <2>1. CASE UNCHANGED log
    BY <2>1 DEF TypeOK
  <2>2. CASE PersistLog(w) /\ ~UNCHANGED log
    <3>1. log' = log \cup {<<proc[w].job, proc[w].number>>} /\ proc[w].pc = "log"
      BY <2>2 DEF PersistLog, LogKey
    <3>2. proc[w].job # NoJob
      BY <3>1 DEF Shapes, Shaped, Ending
    <3>3. Me(w) \in Attempts
      BY <3>2, MeIsAttempt
    <3>4. proc[w].job \in Jobs /\ proc[w].number \in 1..MaxAttempts
      BY <3>3 DEF Me, Attempts
    <3> QED
      BY <3>1, <3>4 DEF TypeOK
  <2> QED
    BY <2>1, <2>2, RootedWriters
<1>4. faults' \in 0..MaxFaults
  BY FaultWriters, BoundsAssumption DEF Fault, TypeOK
<1> QED
  BY <1>1, <1>2, <1>3, <1>4 DEF TypeOK

\* Everything but the processes changes as it does in no worker's step.
LEMMA OthersTypes ==
  ASSUME TypeOK, Shapes, ClaimsAreNumbered,
         \/ \E w \in Workers : (RefreshClaim(w) \/ WorkerDies(w)) /\ UNCHANGED forfeited
         \/ \E j \in Jobs : ClaimLapses(j) \/ JobGoes(j)
         \/ \E b \in Boxes : (ContainerExits(b) \/ ContainerAges(b)) /\ UNCHANGED forfeited
  PROVE  TypeOK' /\ ClaimsAreNumbered'
<1>0. \A c \in ClaimType, f \in BOOLEAN :
         LET d == [c EXCEPT !.fresh = f] IN
         d \in ClaimType /\ d.status = c.status /\ d.worker = c.worker /\ d.attempt = c.attempt
  BY DEF ClaimType
<1>1. ASSUME NEW w \in Workers, RefreshClaim(w), UNCHANGED forfeited
      PROVE  TypeOK' /\ ClaimsAreNumbered'
  <2>1. proc[w].job \in Jobs
    BY <1>1 DEF RefreshClaim, Executing, TypeOK, ProcType
  <2>2. PICK d : d = [claim[proc[w].job] EXCEPT !.fresh = TRUE]
    OBVIOUS
  <2>3. claim' = [claim EXCEPT ![proc[w].job] = d]
    BY <1>1, <2>2 DEF RefreshClaim, Refresh
  <2>4. /\ d \in ClaimType /\ claim[proc[w].job] \in ClaimType
        /\ d.status = claim[proc[w].job].status /\ d.worker = claim[proc[w].job].worker
        /\ d.attempt = claim[proc[w].job].attempt
    BY <1>0, <2>1, <2>2 DEF TypeOK
  <2>5. claim' \in [Jobs -> ClaimType] /\ ClaimsAreNumbered'
    BY <2>1, <2>3, <2>4, ClaimSet DEF ClaimsAreNumbered
  <2> QED
    BY <1>1, <2>5 DEF RefreshClaim, TypeOK
<1>2. ASSUME NEW j \in Jobs, ClaimLapses(j)
      PROVE  TypeOK' /\ ClaimsAreNumbered'
  <2>2. PICK d : d = [claim[j] EXCEPT !.fresh = FALSE]
    OBVIOUS
  <2>3. claim' = [claim EXCEPT ![j] = d] /\ claim[j].status = "running"
    BY <1>2, <2>2 DEF ClaimLapses, Lapse
  <2>4. /\ d \in ClaimType /\ claim[j] \in ClaimType
        /\ d.status = claim[j].status /\ d.worker = claim[j].worker
        /\ d.attempt = claim[j].attempt
    BY <1>0, <2>2 DEF TypeOK
  <2>5. claim' \in [Jobs -> ClaimType] /\ ClaimsAreNumbered'
    BY <2>3, <2>4, ClaimSet DEF ClaimsAreNumbered
  <2>6. forfeited' \subseteq Attempts
    <3>1. claim[j].worker \in Workers /\ claim[j].attempt >= 1 /\ claim[j].attempt \in 0..MaxAttempts
      BY <2>3, <2>4 DEF ClaimsAreNumbered, ClaimType
    <3>2. claim[j].attempt \in 1..MaxAttempts
      BY <3>1, JobClaimsAssumption
    <3>3. [worker |-> claim[j].worker, job |-> j, number |-> claim[j].attempt] \in Attempts
      BY <3>1, <3>2 DEF Attempts
    <3> QED
      BY <1>2, <3>3 DEF ClaimLapses, Holder, TypeOK
  <2> QED
    BY <1>2, <2>5, <2>6 DEF ClaimLapses, TypeOK
<1>3. ASSUME NEW w \in Workers, WorkerDies(w), UNCHANGED forfeited
      PROVE  TypeOK' /\ ClaimsAreNumbered'
  <2>1. proc' \in [Workers -> ProcType]
    BY <1>3, DiesMoves DEF Moves
  <2> QED
    BY <1>3, <2>1 DEF WorkerDies, TypeOK, ClaimsAreNumbered
<1>4. ASSUME NEW b \in Boxes, ContainerExits(b) \/ ContainerAges(b), UNCHANGED forfeited
      PROVE  TypeOK' /\ ClaimsAreNumbered'
  <2>1. CASE ContainerExits(b)
    BY <1>4, <2>1, StopFades DEF ContainerExits, TypeOK, ClaimsAreNumbered
  <2>2. CASE ContainerAges(b)
    <3>1. [box[b] EXCEPT !.old = TRUE] \in BoxType
      BY DEF TypeOK, BoxType
    <3>2. box' \in [Boxes -> BoxType]
      BY <2>2, <3>1 DEF ContainerAges, TypeOK
    <3> QED
      BY <1>4, <2>2, <3>2 DEF ContainerAges, TypeOK, ClaimsAreNumbered
  <2> QED
    BY <1>4, <2>1, <2>2
<1>5. ASSUME NEW j \in Jobs, JobGoes(j)
      PROVE  TypeOK' /\ ClaimsAreNumbered'
  <2>1. PICK d : d = Unclaimed("done", 0)
    OBVIOUS
  <2>2. d \in ClaimType /\ d.status # "running"
    <3>1. 0 \in 0..MaxAttempts
      BY JobClaimsAssumption
    <3> QED
      BY <2>1, <3>1, UnclaimedIsTyped DEF Unclaimed
  <2>3. claim' = [claim EXCEPT ![j] = d]
    BY <1>5, <2>1 DEF JobGoes, Withdraw, TypeOK
  <2>4. claim' \in [Jobs -> ClaimType] /\ ClaimsAreNumbered'
    BY <2>2, <2>3, ClaimSet
  <2>5. forfeited' \subseteq Attempts
    <3>1. CASE claim[j].status = "running"
      <4>1. claim[j].worker \in Workers /\ claim[j].attempt >= 1 /\ claim[j].attempt \in 0..MaxAttempts
        BY <3>1 DEF ClaimsAreNumbered, ClaimType, TypeOK
      <4>2. claim[j].attempt \in 1..MaxAttempts
        BY <4>1, JobClaimsAssumption
      <4>3. Holder(j) \in Attempts
        BY <4>1, <4>2 DEF Attempts, Holder
      <4> QED
        BY <1>5, <4>3 DEF JobGoes, TypeOK
    <3>2. CASE claim[j].status # "running"
      BY <1>5, <3>2 DEF JobGoes, TypeOK
    <3> QED
      BY <3>1, <3>2
  <2> QED
    BY <1>5, <2>4, <2>5 DEF JobGoes, TypeOK
<1> QED
  BY <1>1, <1>2, <1>3, <1>4, <1>5

\* Every step of the system.
LEMMA TypesHold ==
  ASSUME TypeOK, Shapes, ClaimsAreNumbered, BoxesAreLabelled, [Next]_vars
  PROVE  TypeOK' /\ Shapes' /\ ClaimsAreNumbered'
<1>1. CASE UNCHANGED vars
  BY <1>1 DEF vars, TypeOK, Shapes, ClaimsAreNumbered
<1>2. ASSUME NEW w \in Workers, WorkerStep(w), UNCHANGED forfeited
      PROVE  TypeOK' /\ Shapes' /\ ClaimsAreNumbered'
  BY <1>2, WorkerTypes, WorkerMoves, WorkerClaims DEF Moves
<1>3. ASSUME \/ \E w \in Workers : (RefreshClaim(w) \/ WorkerDies(w)) /\ UNCHANGED forfeited
             \/ \E j \in Jobs : ClaimLapses(j) \/ JobGoes(j)
             \/ \E b \in Boxes : (ContainerExits(b) \/ ContainerAges(b)) /\ UNCHANGED forfeited
      PROVE  TypeOK' /\ Shapes' /\ ClaimsAreNumbered'
  <2>1. TypeOK' /\ ClaimsAreNumbered'
    BY <1>3, OthersTypes
  <2>2. UNCHANGED proc \/ \E w \in Workers : WorkerDies(w)
    BY <1>3 DEF RefreshClaim, ClaimLapses, JobGoes, ContainerExits, ContainerAges
  <2>3. Shapes'
    BY <2>2, DiesMoves DEF Moves, Shapes
  <2> QED
    BY <2>1, <2>3
<1> QED
  BY <1>1, <1>2, <1>3 DEF Next

-----------------------------------------------------------------------------
(* The locks.                                                                  *)

LEMMA LeaseIsSlot ==
  ASSUME TypeOK, NEW w \in Workers
  PROVE  /\ proc[w].leases \in Seq(Slots) /\ \A s \in LeaseSet(w) : s \in Slots
         /\ DOMAIN proc[w].leases = 1..Len(proc[w].leases) /\ Len(proc[w].leases) \in Nat
         /\ proc[w].mine \in Seq(Boxes) /\ \A b \in MineSet(w) : b \in Boxes
<1>1. proc[w].leases \in Seq(Slots) /\ proc[w].mine \in Seq(Boxes)
  BY DEF TypeOK, ProcType
<1>2. /\ DOMAIN proc[w].leases = 1..Len(proc[w].leases) /\ Len(proc[w].leases) \in Nat
      /\ DOMAIN proc[w].mine = 1..Len(proc[w].mine)
  BY <1>1, LenProperties
<1>3. (\A s \in LeaseSet(w) : s \in Slots) /\ \A b \in MineSet(w) : b \in Boxes
  BY <1>1, <1>2, ElementOfSeq DEF LeaseSet, MineSet
<1> QED
  BY <1>1, <1>2, <1>3

\* A step of w touches the slots that are free or its own.
LEMMA OwnSlotsOnly ==
  ASSUME TypeOK, Shapes, LeasesAreLocked, NEW w \in Workers, WorkerStep(w) \/ WorkerDies(w)
  PROVE  \A s \in Slots : lock[s] \in {NoWorker, w} \/ (lock'[s] = lock[s] /\ tree'[s] = tree[s])
<1>1. CASE WorkerDies(w)
  BY <1>1 DEF WorkerDies
<1>2. CASE UNCHANGED <<lock, tree>>
  BY <1>2
<1>3. CASE TrySlot(w)
  <2>1. /\ UNCHANGED tree
        /\ UNCHANGED lock \/ (lock[ScanSlot(w)] = NoWorker /\ lock' = [lock EXCEPT ![ScanSlot(w)] = w])
    BY <1>3, TryMoves DEF TrySlot
  <2> QED
    BY <2>1 DEF TypeOK
<1>4. CASE CheckSlot(w) \/ ResetSlot(w)
  <2>1. lock[ScanSlot(w)] = w
    BY <1>4 DEF LeasesAreLocked, Locked, CheckSlot, ResetSlot
  <2>2. /\ UNCHANGED lock \/ lock' = [lock EXCEPT ![ScanSlot(w)] = NoWorker]
        /\ UNCHANGED tree \/ tree' = [tree EXCEPT ![ScanSlot(w)] = Me(w)]
    BY <1>4, CheckMoves, ResetMoves DEF CheckSlot
  <2> QED
    BY <2>1, <2>2 DEF TypeOK
<1>5. CASE JudgePhase(w)
  <2>1. ReplacedLeases(w) \subseteq LeaseSet(w)
    <3>1. proc[w] \in ProcType /\ Shaped(proc[w]) /\ proc[w].pc \in Containing
      BY <1>5 DEF JudgePhase, TypeOK, Shapes, Containing
    <3>2. proc[w].leases # <<>>
      BY <3>1, LeasesAreThere
    <3>3. Len(proc[w].leases) \in Nat \ {0}
      BY <3>2, LeaseIsSlot, EmptySeq
    <3>4. Head(proc[w].leases) \in LeaseSet(w)
      BY <3>3, LeaseIsSlot DEF LeaseSet
    <3> QED
      BY <3>4 DEF ReplacedLeases
  <2>2. UNCHANGED <<lock, tree>> \/ Dropped(ReplacedLeases(w))
    BY <1>5, JudgeMoves
  <2> QED
    BY <2>1, <2>2 DEF Dropped, LeasesAreLocked, Locked
<1>6. CASE Unwind(w)
  BY <1>6 DEF Unwind, Dropped, LeasesAreLocked, Locked
<1> QED
  BY <1>1, <1>2, <1>3, <1>4, <1>5, <1>6, LockWriters

LEMMA SameRecord ==
  ASSUME NEW v \in Workers, proc'[v] = proc[v]
  PROVE  /\ LeaseSet(v)' = LeaseSet(v) /\ MineSet(v)' = MineSet(v) /\ Me(v)' = Me(v)
         /\ ScanSlot(v)' = ScanSlot(v) /\ Own(v)' = Own(v)
         /\ \A s : Uses(v, s)' <=> Uses(v, s)
  BY DEF LeaseSet, MineSet, Me, ScanSlot, ScanSlots, Own, Uses

\* A step that leaves the record and the slots of v alone.
LEMMA OthersStayLocked ==
  ASSUME TypeOK, Shapes, NEW v \in Workers, NEW w \in Workers, v # w, Locked(v), proc'[v] = proc[v],
         \A s \in Slots : lock[s] \in {NoWorker, w} \/ (lock'[s] = lock[s] /\ tree'[s] = tree[s])
  PROVE  Locked(v)'
<1>1. \A s \in Slots : lock[s] = v => lock'[s] = v /\ tree'[s] = tree[s]
  BY JobClaimsAssumption
<1>2. proc[v].pc \in {"check", "reset"} => ScanSlot(v) \in Slots
  <2>1. proc[v].pc \in {"check", "reset"} => proc[v].pc \in Acquiring /\ proc[v].scan <= Len(ScanSlots(v))
    BY DEF Shapes, Shaped, Acquiring, ScanSlots
  <2> QED
    BY <2>1, ScanSlotIsSlot
<1>3. \A s \in LeaseSet(v) : s \in Slots
  BY LeaseIsSlot
<1>4. LeaseSet(v)' = LeaseSet(v) /\ Me(v)' = Me(v) /\ ScanSlot(v)' = ScanSlot(v)
  BY SameRecord
<1> QED
  BY <1>1, <1>2, <1>3, <1>4 DEF Locked

\* The leases of w, when it keeps them.
LEMMA KeptStayLocked ==
  ASSUME NEW w \in Workers, Locked(w),
         proc'[w].leases = proc[w].leases, proc'[w].job = proc[w].job, proc'[w].number = proc[w].number,
         proc'[w].pc \notin {"check", "reset"},
         \A s \in LeaseSet(w) : lock'[s] = lock[s] /\ tree'[s] = tree[s]
  PROVE  Locked(w)'
<1>1. LeaseSet(w)' = LeaseSet(w) /\ Me(w)' = Me(w)
  BY DEF LeaseSet, Me
<1> QED
  BY <1>1 DEF Locked

LEMMA DroppedStayLocked ==
  ASSUME NEW w \in Workers, Drops(proc'[w])
  PROVE  Locked(w)' /\ LeaseSet(w)' = {}
<1>1. proc'[w].leases = <<>> /\ proc'[w].pc \notin {"check", "reset"}
  BY DEF Drops
<1>2. LeaseSet(w)' = {}
  BY <1>1 DEF LeaseSet
<1> QED
  BY <1>1, <1>2 DEF Locked

LEMMA InspectedStayLocked ==
  ASSUME TypeOK, NEW w \in Workers, Locked(w), Inspects(proc[w], proc'[w]), ScanSlot(w) \in Slots,
         UNCHANGED tree,
         \/ UNCHANGED lock /\ proc[w].pc = "check"
         \/ lock[ScanSlot(w)] = NoWorker /\ lock' = [lock EXCEPT ![ScanSlot(w)] = w]
  PROVE  Locked(w)'
<1>1. LeaseSet(w)' = LeaseSet(w) /\ Me(w)' = Me(w) /\ ScanSlot(w)' = ScanSlot(w)
  <2>1. /\ proc'[w].job = proc[w].job /\ proc'[w].number = proc[w].number
        /\ proc'[w].leases = proc[w].leases /\ proc'[w].want = proc[w].want
        /\ proc'[w].scan = proc[w].scan
    BY DEF Inspects
  <2>2. LeaseSet(w)' = LeaseSet(w)
    BY <2>1 DEF LeaseSet
  <2>3. Me(w)' = Me(w)
    BY <2>1 DEF Me
  <2>4. ScanSlots(w)' = ScanSlots(w)
    BY <2>1 DEF ScanSlots
  <2>5. ScanSlot(w)' = ScanSlot(w)
    BY <2>1, <2>4 DEF ScanSlot
  <2> QED
    BY <2>2, <2>3, <2>5
<1>2. lock'[ScanSlot(w)] = w /\ ScanSlot(w) \notin LeaseSet(w)
  <2>1. w # NoWorker
    BY JobClaimsAssumption
  <2>2. CASE UNCHANGED lock /\ proc[w].pc = "check"
    BY <2>2 DEF Locked
  <2>3. CASE lock[ScanSlot(w)] = NoWorker /\ lock' = [lock EXCEPT ![ScanSlot(w)] = w]
    <3>1. lock'[ScanSlot(w)] = w
      BY <2>3 DEF TypeOK
    <3>2. ScanSlot(w) \notin LeaseSet(w)
      BY <2>1, <2>3 DEF Locked
    <3> QED
      BY <3>1, <3>2
  <2> QED
    BY <2>2, <2>3
<1>3. \A s \in LeaseSet(w) : lock'[s] = w /\ tree'[s] = Me(w)
  <2>1. \A s \in LeaseSet(w) : s \in Slots /\ lock[s] = w /\ tree[s] = Me(w)
    BY LeaseIsSlot DEF Locked
  <2> QED
    BY <1>2, <2>1 DEF TypeOK
<1> QED
  BY <1>1, <1>2, <1>3 DEF Locked, Inspects

\* A new lease.
LEMMA LeasedStayLocked ==
  ASSUME TypeOK, NEW w \in Workers, Locked(w), proc[w].pc = "reset", ScanSlot(w) \in Slots,
         Leases(proc[w], proc'[w]), tree' = [tree EXCEPT ![ScanSlot(w)] = Me(w)], UNCHANGED lock
  PROVE  Locked(w)' /\ LeaseSet(w)' = LeaseSet(w) \cup {ScanSlot(w)} /\ Me(w)' = Me(w)
<1>1. /\ proc'[w].leases = Append(proc[w].leases, ScanSlot(w)) /\ Me(w)' = Me(w)
      /\ proc'[w].pc \notin {"check", "reset"}
  BY DEF Leases, Me, ScanSlot, ScanSlots
<1>2. PICK n \in Nat : /\ n = Len(proc[w].leases) /\ DOMAIN proc[w].leases = 1..n
                       /\ proc[w].leases \in Seq(Slots)
  BY LeaseIsSlot
<1>3. /\ DOMAIN proc'[w].leases = 1..(n + 1)
      /\ \A i \in 1..n : proc'[w].leases[i] = proc[w].leases[i]
      /\ proc'[w].leases[n + 1] = ScanSlot(w)
  <2>1. /\ Append(proc[w].leases, ScanSlot(w)) \in Seq(Slots)
        /\ Len(Append(proc[w].leases, ScanSlot(w))) = n + 1
        /\ \A i \in 1..n : Append(proc[w].leases, ScanSlot(w))[i] = proc[w].leases[i]
        /\ Append(proc[w].leases, ScanSlot(w))[n + 1] = ScanSlot(w)
    BY <1>2, AppendProperties
  <2> QED
    BY <1>1, <2>1, LenProperties
<1>4. \A i \in 1..(n + 1) : i \in 1..n \/ i = n + 1
  OBVIOUS
<1>5. 1..n \subseteq 1..(n + 1) /\ n + 1 \in 1..(n + 1)
  OBVIOUS
<1>6. LeaseSet(w)' = {proc'[w].leases[i] : i \in 1..(n + 1)} /\ LeaseSet(w) = {proc[w].leases[i] : i \in 1..n}
  BY <1>2, <1>3 DEF LeaseSet
<1>7. LeaseSet(w)' = LeaseSet(w) \cup {ScanSlot(w)}
  BY <1>3, <1>4, <1>5, <1>6
<1>8. lock[ScanSlot(w)] = w /\ ScanSlot(w) \notin LeaseSet(w)
  BY DEF Locked
<1>9. \A s \in LeaseSet(w)' : lock'[s] = w /\ tree'[s] = Me(w)
  BY <1>7, <1>8 DEF Locked, TypeOK
<1>10. \A i, k \in 1..(n + 1) : proc'[w].leases[i] = proc'[w].leases[k] => i = k
  <2>1. \A i, k \in 1..n : proc[w].leases[i] = proc[w].leases[k] => i = k
    BY <1>2 DEF Locked
  <2>2. \A i \in 1..n : proc[w].leases[i] # ScanSlot(w)
    BY <1>6, <1>8
  <2> QED
    BY <1>3, <1>4, <2>1, <2>2
<1> QED
  BY <1>1, <1>3, <1>7, <1>9, <1>10 DEF Locked

\* The workspace of setup is dropped, or nothing.
LEMMA ShedStayLocked ==
  ASSUME TypeOK, Shapes, NEW w \in Workers, Locked(w), proc[w].pc \in Containing,
         Sheds(proc[w], proc'[w]),
         proc'[w].leases = IF ReplacesSetup(w) THEN Tail(proc[w].leases) ELSE proc[w].leases,
         Dropped(ReplacedLeases(w))
  PROVE  /\ Locked(w)' /\ LeaseSet(w)' \subseteq LeaseSet(w) /\ Me(w)' = Me(w)
         /\ ReplacedLeases(w) \cup LeaseSet(w)' = LeaseSet(w)
<1>1. Me(w)' = Me(w) /\ proc'[w].pc \notin {"check", "reset"}
  BY DEF Sheds, Me
<1>2. CASE ~ReplacesSetup(w)
  <2>1. proc'[w].leases = proc[w].leases /\ ReplacedLeases(w) = {}
    BY <1>2 DEF ReplacedLeases
  <2>2. \A s \in LeaseSet(w) : lock'[s] = lock[s] /\ tree'[s] = tree[s]
    BY <2>1, LeaseIsSlot DEF Dropped
  <2>3. LeaseSet(w)' = LeaseSet(w)
    BY <2>1 DEF LeaseSet
  <2> QED
    BY <1>1, <2>1, <2>2, <2>3 DEF Locked
<1>3. CASE ReplacesSetup(w)
  <2>1. proc[w].leases # <<>>
    BY LeasesAreThere DEF TypeOK, Shapes
  <2>2. PICK n \in Nat \ {0} : /\ n = Len(proc[w].leases) /\ DOMAIN proc[w].leases = 1..n
                               /\ proc[w].leases \in Seq(Slots)
    BY <2>1, LeaseIsSlot, EmptySeq
  <2>3. /\ DOMAIN proc'[w].leases = 1..(n - 1)
        /\ \A i \in 1..(n - 1) : proc'[w].leases[i] = proc[w].leases[i + 1]
    <3>1. /\ Tail(proc[w].leases) \in Seq(Slots) /\ Len(Tail(proc[w].leases)) = n - 1
          /\ \A i \in 1..Len(Tail(proc[w].leases)) : Tail(proc[w].leases)[i] = proc[w].leases[i + 1]
      BY <2>1, <2>2, HeadTailProperties
    <3>2. proc'[w].leases = Tail(proc[w].leases)
      BY <1>3
    <3> QED
      BY <3>1, <3>2, LenProperties
  <2>4. ReplacedLeases(w) = {proc[w].leases[1]}
    BY <1>3, <2>1, <2>2 DEF ReplacedLeases
  <2>5. /\ \A i \in 1..(n - 1) : i + 1 \in 1..n /\ i + 1 # 1
        /\ \A i \in 1..n : i = 1 \/ (i - 1 \in 1..(n - 1) /\ (i - 1) + 1 = i)
        /\ 1 \in 1..n
    OBVIOUS
  <2>6. LeaseSet(w)' = {proc'[w].leases[i] : i \in 1..(n - 1)} /\ LeaseSet(w) = {proc[w].leases[i] : i \in 1..n}
    BY <2>2, <2>3 DEF LeaseSet
  <2>7. \A i, k \in 1..n : proc[w].leases[i] = proc[w].leases[k] => i = k
    BY <2>2 DEF Locked
  <2>8. \A s \in LeaseSet(w)' : s \in LeaseSet(w) /\ s \notin ReplacedLeases(w)
    BY <2>3, <2>4, <2>5, <2>6, <2>7
  <2>9. \A s \in LeaseSet(w) : s \in LeaseSet(w)' \/ s \in ReplacedLeases(w)
    <3> SUFFICES ASSUME NEW i \in 1..n, i # 1 PROVE proc[w].leases[i] \in LeaseSet(w)'
      BY <2>4, <2>6
    <3>1. PICK k \in 1..(n - 1) : k + 1 = i
      BY <2>5
    <3> QED
      BY <2>3, <2>6, <3>1
  <2>10. proc[w].leases[1] \in LeaseSet(w)
    BY <2>5, <2>6
  <2>11. \A i, k \in 1..(n - 1) : proc'[w].leases[i] = proc'[w].leases[k] => i = k
    <3>1. \A i, k \in 1..(n - 1) : i + 1 = k + 1 => i = k
      OBVIOUS
    <3> QED
      BY <2>3, <2>5, <2>7, <3>1
  <2>12. \A s \in LeaseSet(w)' : lock'[s] = w /\ tree'[s] = Me(w)
    BY <2>8, LeaseIsSlot DEF Dropped, Locked
  <2> QED
    BY SMTT(30), <1>1, <2>3, <2>4, <2>8, <2>9, <2>10, <2>11, <2>12 DEF Locked
<1> QED
  BY <1>2, <1>3

\* The slots of the worker that takes a step.
LEMMA WorkerStaysLocked ==
  ASSUME TypeOK, Shapes, BoxesAreLabelled, NEW w \in Workers, Locked(w), WorkerStep(w)
  PROVE  Locked(w)'
<1>1. CASE TrySlot(w)
  <2>1. ScanSlot(w) \in Slots /\ UNCHANGED tree
    BY <1>1, TryMoves DEF TrySlot
  <2>2. CASE Continues(proc[w], proc'[w]) /\ UNCHANGED lock
    BY <2>1, <2>2, KeptStayLocked DEF Continues
  <2>3. CASE /\ Inspects(proc[w], proc'[w])
             /\ lock[ScanSlot(w)] = NoWorker /\ lock' = [lock EXCEPT ![ScanSlot(w)] = w]
    BY <2>1, <2>3, InspectedStayLocked
  <2> QED
    BY <1>1, <2>2, <2>3, TryMoves
<1>2. CASE /\ CheckSlot(w) \/ ResetSlot(w)
           /\ Continues(proc[w], proc'[w])
           /\ lock' = [lock EXCEPT ![ScanSlot(w)] = NoWorker] /\ UNCHANGED tree
  <2>1. ScanSlot(w) \notin LeaseSet(w)
    BY <1>2 DEF CheckSlot, ResetSlot, Locked
  <2>2. \A s \in LeaseSet(w) : lock'[s] = lock[s]
    BY <1>2, <2>1, LeaseIsSlot DEF TypeOK
  <2> QED
    BY <1>2, <2>2, KeptStayLocked DEF Continues
<1>3. CASE CheckSlot(w) /\ Inspects(proc[w], proc'[w]) /\ UNCHANGED lock
  <2>1. ScanSlot(w) \in Slots /\ UNCHANGED tree /\ proc[w].pc = "check"
    BY <1>3, CheckMoves DEF CheckSlot
  <2> QED
    BY <1>3, <2>1, InspectedStayLocked
<1>4. CASE /\ ResetSlot(w) /\ Leases(proc[w], proc'[w])
           /\ tree' = [tree EXCEPT ![ScanSlot(w)] = Me(w)] /\ UNCHANGED lock
  <2>1. ScanSlot(w) \in Slots /\ proc[w].pc = "reset"
    BY <1>4, ResetMoves DEF ResetSlot
  <2> QED
    BY <1>4, <2>1, LeasedStayLocked
<1>5. CASE JudgePhase(w)
  <2>1. proc[w].pc \in Containing
    BY <1>5 DEF JudgePhase, Containing
  <2>2. CASE Continues(proc[w], proc'[w]) /\ UNCHANGED <<lock, tree>>
    BY <2>2, KeptStayLocked DEF Continues
  <2> QED
    BY <1>5, <2>1, <2>2, JudgeMoves, ShedStayLocked
<1>6. CASE Unwind(w)
  BY <1>6, UnwindMoves, DroppedStayLocked
<1>7. CASE CreateContainer(w)
  <2>1. PICK b : Creates(proc[w], proc'[w], b)
    BY <1>7, CreateArrives
  <2>2. UNCHANGED <<lock, tree>>
    BY <1>7 DEF CreateContainer
  <2> QED
    BY <2>1, <2>2, KeptStayLocked DEF Creates
<1>8. CASE StartRepair(w)
  <2>1. UNCHANGED <<lock, tree>>
    BY <1>8 DEF StartRepair
  <2>2. Continues(proc[w], proc'[w]) \/ \E b : Repairs(proc[w], proc'[w], b)
    BY <1>8, StartRepairMoves
  <2> QED
    BY <2>1, <2>2, KeptStayLocked DEF Continues, Repairs
<1>9. CASE /\ ~TrySlot(w) /\ ~CheckSlot(w) /\ ~ResetSlot(w) /\ ~JudgePhase(w) /\ ~Unwind(w)
           /\ ~CreateContainer(w) /\ ~StartRepair(w)
  <2>1. UNCHANGED <<lock, tree>>
    BY <1>9, LockWriters
  <2>2. Continues(proc[w], proc'[w]) \/ Drops(proc'[w])
    BY <1>9, WorkerMoves
  <2> QED
    BY <2>1, <2>2, KeptStayLocked, DroppedStayLocked DEF Continues
<1> QED
  BY <1>1, <1>2, <1>3, <1>4, <1>5, <1>6, <1>7, <1>8, <1>9, CheckMoves, ResetMoves DEF CheckSlot

LEMMA LocksHold ==
  ASSUME TypeOK, Shapes, BoxesAreLabelled, LeasesAreLocked, [Next]_vars
  PROVE  LeasesAreLocked'
<1>1. CASE UNCHANGED <<proc, lock, tree>>
  <2>1. \A v \in Workers : LeaseSet(v)' = LeaseSet(v) /\ Me(v)' = Me(v) /\ ScanSlot(v)' = ScanSlot(v)
    BY <1>1, SameRecord
  <2> QED
    BY <1>1, <2>1 DEF LeasesAreLocked, Locked
<1>2. ASSUME NEW w \in Workers, WorkerStep(w) \/ WorkerDies(w)
      PROVE  LeasesAreLocked'
  <2>1. Moves(w)
    BY <1>2, WorkerMoves, DiesMoves
  <2>2. \A s \in Slots : lock[s] \in {NoWorker, w} \/ (lock'[s] = lock[s] /\ tree'[s] = tree[s])
    BY <1>2, OwnSlotsOnly
  <2>3. \A v \in Workers : v # w => Locked(v)'
    BY <2>1, <2>2, OthersStayLocked DEF Moves, LeasesAreLocked
  <2>4. Locked(w)'
    BY <1>2, WorkerStaysLocked, DiesMoves, DroppedStayLocked DEF LeasesAreLocked
  <2> QED
    BY <2>3, <2>4 DEF LeasesAreLocked
<1>3. \/ UNCHANGED <<proc, lock, tree>>
      \/ \E w \in Workers : WorkerStep(w) \/ WorkerDies(w)
  BY DEF Next, vars, RefreshClaim, ClaimLapses, JobGoes, ContainerExits, ContainerAges
<1> QED
  BY <1>1, <1>2, <1>3

-----------------------------------------------------------------------------
(* The containers of an attempt.                                               *)

\* A new container is nobody's, and writes to a slot that nobody else uses.
LEMMA ArrivesAlone ==
  ASSUME TypeOK, LeasesAreLocked, NEW w \in Workers, NEW b \in Boxes, Arrives(w, b)
  PROVE  /\ box[b].state = "none"
         /\ \A v \in Workers : b \notin Own(v) /\ \A x \in proc[v].seen : x.box # b
         /\ \A v \in Workers : v # w => ~Uses(v, box'[b].slot)
<1>1. /\ box[b].state = "none"
      /\ \A v \in Workers : b \notin Own(v) /\ \A x \in proc[v].seen : x.box # b
  BY DEF Arrives, FreeBoxes, Own
<1>2. lock[box'[b].slot] = w
  BY DEF Arrives, LeasesAreLocked, Locked
<1>3. \A v \in Workers : v # w => ~Uses(v, box'[b].slot)
  BY <1>2 DEF LeasesAreLocked, Locked, Uses
<1> QED
  BY <1>1, <1>3

\* A container that starts is on a lease of its attempt.
LEMMA StartsAlone ==
  ASSUME TypeOK, LeasesAreLocked, BoxesAreLabelled, NEW w \in Workers, NEW b \in Boxes, Starts(w, b)
  PROVE  /\ box'[b].attempt = Me(w) /\ box'[b].slot \in LeaseSet(w)
         /\ \A v \in Workers : v # w => ~Uses(v, box'[b].slot)
<1>1. box[b].attempt = Me(w) /\ box[b].slot \in LeaseSet(w)
  BY DEF Starts, BoxesAreLabelled, Own, Containing
<1>2. \A v \in Workers : v # w => ~Uses(v, box[b].slot)
  BY <1>1 DEF LeasesAreLocked, Locked, Uses
<1> QED
  BY <1>1, <1>2 DEF Starts

\* The labels of a worker's own containers, when it keeps some of them.
Labelled(w) ==
    proc[w].pc \in Containing =>
        \A b \in Own(w) : box[b].state # "none" => box[b].attempt = Me(w) /\ box[b].slot \in LeaseSet(w)

LEMMA OwnIsBox ==
  ASSUME TypeOK, NEW w \in Workers
  PROVE  Own(w) \subseteq Boxes
  BY LeaseIsSlot DEF Own, TypeOK, ProcType

LEMMA StaysLabelled ==
  ASSUME TypeOK, LeasesAreLocked, NEW v \in Workers, NEW w \in Workers, Labelled(v),
         \A b \in Boxes : Fades(b) \/ Arrives(w, b) \/ Starts(w, b),
         Continues(proc[v], proc'[v]) \/ proc'[v] = proc[v]
  PROVE  Labelled(v)'
<1> SUFFICES ASSUME proc'[v].pc \in Containing, NEW b \in Own(v)', box'[b].state # "none"
             PROVE  box'[b].attempt = Me(v)' /\ box'[b].slot \in LeaseSet(v)'
  BY DEF Labelled
<1>1. /\ proc[v].pc \in Containing /\ Me(v)' = Me(v) /\ LeaseSet(v)' = LeaseSet(v) /\ Own(v)' \subseteq Own(v)
  BY SameRecord DEF Continues, Me, LeaseSet, Own, MineSet
<1>2. b \in Own(v) /\ b \in Boxes
  BY <1>1, OwnIsBox
<1>3. ~Arrives(w, b)
  BY <1>2, ArrivesAlone
<1>4. /\ box[b].state # "none" /\ box'[b].attempt = box[b].attempt /\ box'[b].slot = box[b].slot
  BY <1>2, <1>3 DEF Fades, Starts
<1> QED
  BY <1>1, <1>2, <1>4 DEF Labelled

\* What happens to the leases of the worker that takes a step.
LEMMA WorkerLeases ==
  ASSUME TypeOK, Shapes, LeasesAreLocked, BoxesAreLabelled, NEW w \in Workers, WorkerStep(w)
  PROVE  \/ Continues(proc[w], proc'[w])
         \/ Drops(proc'[w])
         \/ TrySlot(w) /\ Inspects(proc[w], proc'[w]) /\ proc'[w].pc = "check"
         \/ /\ CheckSlot(w) /\ Inspects(proc[w], proc'[w]) /\ proc'[w].pc = "reset"
            /\ ~SlotHasLiveContainer(ScanSlot(w)) /\ UNCHANGED box
         \/ ResetSlot(w) /\ Leases(proc[w], proc'[w])
         \/ CreateContainer(w)
         \/ /\ proc[w].pc = "repair" /\ proc[w].scan \in 1..Len(PhaseSlots(w))
            /\ \E b \in FreeBoxes :
                 /\ Repairs(proc[w], proc'[w], b)
                 /\ box' = [box EXCEPT ![b] = NewBox(w, PhaseSlots(w)[proc[w].scan], "running")]
         \/ JudgePhase(w) /\ Sheds(proc[w], proc'[w]) /\ LeaseSet(w)' \subseteq LeaseSet(w)
<1>1. CASE TrySlot(w) \/ CheckSlot(w) \/ ResetSlot(w)
  BY <1>1, TryMoves, CheckMoves, ResetMoves DEF CheckSlot
<1>2. CASE StartRepair(w)
  BY <1>2, StartRepairMoves
<1>3. CASE JudgePhase(w) /\ ~Continues(proc[w], proc'[w])
  <2>1. /\ Sheds(proc[w], proc'[w])
        /\ proc'[w].leases = IF ReplacesSetup(w) THEN Tail(proc[w].leases) ELSE proc[w].leases
        /\ Dropped(ReplacedLeases(w))
    BY <1>3, JudgeMoves
  <2>2. Locked(w) /\ proc[w].pc \in Containing
    BY <1>3 DEF LeasesAreLocked, JudgePhase, Containing
  <2>3. LeaseSet(w)' \subseteq LeaseSet(w)
    BY <2>1, <2>2, ShedStayLocked
  <2> QED
    BY <1>3, <2>1, <2>3
<1> QED
  BY <1>1, <1>2, <1>3, WorkerMoves

LEMMA WorkerStaysLabelled ==
  ASSUME TypeOK, Shapes, LeasesAreLocked, BoxesAreLabelled, NEW w \in Workers, WorkerStep(w)
  PROVE  Labelled(w)'
<1>1. \A b \in Boxes : Fades(b) \/ Arrives(w, b) \/ Starts(w, b)
  BY WorkerBoxes
<1>2. Labelled(w)
  BY DEF BoxesAreLabelled, Labelled
<1>3. CASE Continues(proc[w], proc'[w])
  BY <1>1, <1>2, <1>3, StaysLabelled
<1>4. CASE proc'[w].pc \notin Containing
  BY <1>4 DEF Labelled
<1>5. CASE Leases(proc[w], proc'[w])
  <2>1. proc'[w].mine = <<>> /\ proc'[w].target = NoBox
    BY <1>5 DEF Leases
  <2>2. Own(w)' = {}
    BY <2>1 DEF Own, MineSet
  <2> QED
    BY <2>2 DEF Labelled
<1>6. CASE CreateContainer(w)
  <2>1. PICK b \in FreeBoxes :
           /\ Creates(proc[w], proc'[w], b) /\ Arrives(w, b) /\ MineSet(w)' = MineSet(w) \cup {b}
           /\ \A c \in Boxes : c # b => box'[c] = box[c]
    BY <1>6, CreateArrives
  <2>2. /\ Me(w)' = Me(w) /\ LeaseSet(w)' = LeaseSet(w) /\ Own(w)' = MineSet(w) \cup {b}
        /\ MineSet(w) \subseteq Own(w)
    BY <2>1 DEF Creates, Me, LeaseSet, Own
  <2>3. proc[w].pc \in Containing /\ Own(w) \subseteq Boxes
    BY <2>1, OwnIsBox DEF Arrives
  <2>4. \A c \in MineSet(w) : c # b => c \in Own(w) /\ box'[c] = box[c]
    BY <2>1, <2>2, <2>3
  <2>5. box'[b].attempt = Me(w) /\ box'[b].slot \in LeaseSet(w)
    BY <2>1 DEF Arrives
  <2> QED
    BY <1>2, <2>2, <2>3, <2>4, <2>5 DEF Labelled
<1>7. ASSUME NEW b \in FreeBoxes, Repairs(proc[w], proc'[w], b), proc[w].pc = "repair",
             proc[w].scan \in 1..Len(PhaseSlots(w)),
             box' = [box EXCEPT ![b] = NewBox(w, PhaseSlots(w)[proc[w].scan], "running")]
      PROVE  Labelled(w)'
  <2>1. Arrives(w, b) /\ \A c \in Boxes : c # b => box'[c] = box[c]
    BY <1>7, NewArrives DEF Containing
  <2>2. /\ Me(w)' = Me(w) /\ LeaseSet(w)' = LeaseSet(w) /\ Own(w)' \subseteq MineSet(w) \cup {b}
        /\ MineSet(w) \subseteq Own(w)
    BY <1>7 DEF Repairs, Me, LeaseSet, Own, MineSet
  <2>3. \A c \in Own(w) : c \in Boxes
    BY OwnIsBox
  <2>4. proc[w].pc \in Containing
    BY <1>7 DEF Containing
  <2>5. \A c \in MineSet(w) : c # b => c \in Own(w) /\ box'[c] = box[c]
    BY <2>1, <2>2, <2>3
  <2>6. box'[b].attempt = Me(w) /\ box'[b].slot \in LeaseSet(w)
    BY <2>1 DEF Arrives
  <2> QED
    BY <1>2, <2>2, <2>4, <2>5, <2>6 DEF Labelled
<1> QED
  BY <1>3, <1>4, <1>5, <1>6, <1>7, WorkerLeases DEF Drops, Inspects, Sheds, Containing

\* The containers when no worker takes a step.
LEMMA OtherBoxes ==
  ASSUME TypeOK,
         \/ \E w \in Workers : RefreshClaim(w) \/ WorkerDies(w)
         \/ \E j \in Jobs : ClaimLapses(j) \/ JobGoes(j)
         \/ \E b \in Boxes : ContainerExits(b) \/ ContainerAges(b)
  PROVE  \A b \in Boxes : box'[b].state # "none" =>
            /\ box[b].state # "none"
            /\ box'[b].attempt = box[b].attempt /\ box'[b].slot = box[b].slot
            /\ box'[b].state = "running" => box[b].state = "running"
<1>1. CASE UNCHANGED box
  BY <1>1
<1>2. ASSUME NEW c \in Boxes, ContainerExits(c)
      PROVE  \A b \in Boxes : Fades(b)
  BY <1>2, StopFades DEF ContainerExits
<1>3. ASSUME NEW c \in Boxes, ContainerAges(c), NEW b \in Boxes
      PROVE  box'[b].state = box[b].state /\ box'[b].attempt = box[b].attempt /\ box'[b].slot = box[b].slot
  <2>1. box[c] \in BoxType /\ box' = [box EXCEPT ![c].old = TRUE]
    BY <1>3 DEF ContainerAges, TypeOK
  <2>2. PICK y : y = [box[c] EXCEPT !.old = TRUE]
    OBVIOUS
  <2>3. y.state = box[c].state /\ y.attempt = box[c].attempt /\ y.slot = box[c].slot
    BY <2>1, <2>2 DEF BoxType
  <2>4. box'[b] = box[b] \/ (b = c /\ box'[b] = y)
    BY <2>1, <2>2 DEF TypeOK
  <2> QED
    BY <2>3, <2>4
<1> QED
  BY <1>1, <1>2, <1>3 DEF RefreshClaim, WorkerDies, ClaimLapses, JobGoes, Fades

LEMMA LabelsHold ==
  ASSUME TypeOK, Shapes, LeasesAreLocked, BoxesAreLabelled, [Next]_vars
  PROVE  BoxesAreLabelled'
<1>0. \A v \in Workers : Labelled(v)
  BY DEF BoxesAreLabelled, Labelled
<1>1. ASSUME NEW w \in Workers, WorkerStep(w)
      PROVE  BoxesAreLabelled'
  <2>1. /\ \A b \in Boxes : Fades(b) \/ Arrives(w, b) \/ Starts(w, b)
        /\ \A v \in Workers : v # w => proc'[v] = proc[v]
    BY <1>1, WorkerBoxes, WorkerMoves DEF Moves
  <2>2. \A v \in Workers : Labelled(v)'
    BY <1>0, <1>1, <2>1, StaysLabelled, WorkerStaysLabelled
  <2>3. ASSUME NEW b \in Boxes, box'[b].state # "none"
        PROVE  box'[b].attempt \in Attempts /\ box'[b].slot \in Slots
    <3>1. CASE Fades(b) \/ Starts(w, b)
      BY <2>3, <3>1 DEF Fades, Starts, BoxesAreLabelled
    <3>2. CASE Arrives(w, b)
      <4>1. proc[w].job # NoJob
        BY <3>2 DEF Arrives, Shapes, Shaped
      <4> QED
        BY <3>2, <4>1, MeIsAttempt DEF Arrives
    <3> QED
      BY <2>1, <3>1, <3>2
  <2> QED
    BY <2>2, <2>3 DEF BoxesAreLabelled, Labelled
<1>2. ASSUME \/ \E w \in Workers : RefreshClaim(w) \/ WorkerDies(w)
             \/ \E j \in Jobs : ClaimLapses(j) \/ JobGoes(j)
             \/ \E b \in Boxes : ContainerExits(b) \/ ContainerAges(b)
      PROVE  BoxesAreLabelled'
  <2>1. \A b \in Boxes : box'[b].state # "none" =>
            /\ box[b].state # "none"
            /\ box'[b].attempt = box[b].attempt /\ box'[b].slot = box[b].slot
    BY <1>2, OtherBoxes
  <2>2. ASSUME NEW v \in Workers
        PROVE  Labelled(v)'
    <3>1. proc'[v] = proc[v] \/ Drops(proc'[v])
      BY <1>2, DiesMoves DEF RefreshClaim, ClaimLapses, JobGoes, ContainerExits, ContainerAges, Moves
    <3>2. CASE proc'[v] = proc[v]
      <4>1. \A b \in Own(v) : b \in Boxes
        BY OwnIsBox
      <4>2. Me(v)' = Me(v) /\ LeaseSet(v)' = LeaseSet(v) /\ Own(v)' = Own(v)
        BY <3>2, SameRecord
      <4> QED
        BY <1>0, <2>1, <3>2, <4>1, <4>2 DEF Labelled
    <3>3. CASE Drops(proc'[v])
      BY <3>3 DEF Drops, Labelled
    <3> QED
      BY <3>1, <3>2, <3>3
  <2>3. \A b \in Boxes : box'[b].state # "none" => box'[b].attempt \in Attempts /\ box'[b].slot \in Slots
    BY <2>1 DEF BoxesAreLabelled
  <2> QED
    BY <2>2, <2>3 DEF BoxesAreLabelled, Labelled
<1>3. CASE UNCHANGED vars
  <2>1. \A v \in Workers : Own(v)' = Own(v) /\ Me(v)' = Me(v) /\ LeaseSet(v)' = LeaseSet(v)
    BY <1>3, SameRecord DEF vars
  <2> QED
    BY <1>3, <2>1 DEF vars, BoxesAreLabelled
<1> QED
  BY <1>1, <1>2, <1>3 DEF Next

-----------------------------------------------------------------------------
(* One attempt to a slot.                                                      *)

\* The lease that follows the reset of a work path.
LEMMA NewLease ==
  ASSUME TypeOK, Shapes, LeasesAreLocked, NEW w \in Workers, ResetSlot(w), Leases(proc[w], proc'[w])
  PROVE  /\ LeaseSet(w)' = LeaseSet(w) \cup {ScanSlot(w)} /\ Me(w)' = Me(w)
         /\ ScanSlot(w) \notin rooted /\ proc[w].pc = "reset"
<1>1. ScanSlot(w) \in Slots /\ proc[w].pc = "reset" /\ Locked(w)
  BY ResetMoves DEF ResetSlot, LeasesAreLocked
<1>2. /\ tree' = [tree EXCEPT ![ScanSlot(w)] = Me(w)] /\ UNCHANGED lock /\ ScanSlot(w) \notin rooted
  <2>1. \/ /\ Continues(proc[w], proc'[w]) /\ proc'[w].leases = proc[w].leases
        \/ tree' = [tree EXCEPT ![ScanSlot(w)] = Me(w)] /\ UNCHANGED lock /\ ScanSlot(w) \notin rooted
    BY ResetMoves DEF Continues
  <2>2. proc'[w].leases # proc[w].leases
    <3>1. PICK n \in Nat : n = Len(proc[w].leases) /\ proc[w].leases \in Seq(Slots)
      BY LeaseIsSlot
    <3>2. Len(proc'[w].leases) = n + 1
      BY <1>1, <3>1, AppendProperties DEF Leases, ScanSlot, ScanSlots
    <3> QED
      BY <3>1, <3>2
  <2> QED
    BY <2>1, <2>2
<1>3. LeaseSet(w)' = LeaseSet(w) \cup {ScanSlot(w)} /\ Me(w)' = Me(w)
  BY <1>1, <1>2, LeasedStayLocked
<1> QED
  BY <1>1, <1>2, <1>3

\* A slot comes into use when no running container writes to it.
LEMMA WorkerUses ==
  ASSUME TypeOK, Shapes, LeasesAreLocked, BoxesAreLabelled, NEW w \in Workers, WorkerStep(w),
         NEW s, Uses(w, s)'
  PROVE  /\ Me(w)' = Me(w)
         /\ \/ Uses(w, s)
            \/ s = ScanSlot(w) /\ ~SlotHasLiveContainer(s) /\ UNCHANGED box
<1>1. CASE Continues(proc[w], proc'[w])
  BY <1>1 DEF Continues, Uses, LeaseSet, Me
<1>2. CASE Drops(proc'[w])
  <2>1. LeaseSet(w)' = {} /\ proc'[w].pc # "reset"
    BY <1>2, DroppedStayLocked DEF Drops
  <2> QED
    BY <2>1 DEF Uses
<1>3. CASE TrySlot(w) /\ Inspects(proc[w], proc'[w]) /\ proc'[w].pc = "check"
  BY <1>3 DEF Inspects, Uses, LeaseSet, Me
<1>4. CASE /\ CheckSlot(w) /\ Inspects(proc[w], proc'[w])
           /\ ~SlotHasLiveContainer(ScanSlot(w)) /\ UNCHANGED box
  <2>1. LeaseSet(w)' = LeaseSet(w) /\ ScanSlot(w)' = ScanSlot(w) /\ Me(w)' = Me(w)
    BY <1>4 DEF Inspects, LeaseSet, Me, ScanSlot, ScanSlots
  <2> QED
    BY <1>4, <2>1 DEF Uses
<1>5. CASE ResetSlot(w) /\ Leases(proc[w], proc'[w])
  <2>1. proc'[w].pc # "reset"
    BY <1>5 DEF Leases
  <2> QED
    BY <1>5, <2>1, NewLease DEF Uses
<1>6. CASE CreateContainer(w)
  <2>1. PICK b : Creates(proc[w], proc'[w], b)
    BY <1>6, CreateArrives
  <2> QED
    BY <2>1 DEF Creates, Uses, LeaseSet, Me
<1>7. CASE \E b \in FreeBoxes : Repairs(proc[w], proc'[w], b)
  BY <1>7 DEF Repairs, Uses, LeaseSet, Me
<1>8. CASE Sheds(proc[w], proc'[w]) /\ LeaseSet(w)' \subseteq LeaseSet(w)
  BY <1>8 DEF Sheds, Uses, Me
<1> QED
  BY <1>1, <1>2, <1>3, <1>4, <1>5, <1>6, <1>7, <1>8, WorkerLeases

\* A container that runs after a step of w ran before it, or is on a lease of w.
LEMMA RunsOrIsMine ==
  ASSUME TypeOK, Shapes, LeasesAreLocked, BoxesAreLabelled, NEW w \in Workers, WorkerStep(w),
         NEW b \in Boxes, box'[b].state = "running"
  PROVE  \/ /\ box[b].state = "running"
            /\ box'[b].attempt = box[b].attempt /\ box'[b].slot = box[b].slot
         \/ /\ box'[b].attempt = Me(w) /\ box'[b].slot \in LeaseSet(w)
            /\ \A v \in Workers : v # w => ~Uses(v, box'[b].slot)
<1>1. CASE Fades(b)
  BY <1>1 DEF Fades
<1>2. CASE Arrives(w, b)
  BY <1>2, ArrivesAlone DEF Arrives
<1>3. CASE Starts(w, b)
  BY <1>3, StartsAlone
<1> QED
  BY <1>1, <1>2, <1>3, WorkerBoxes

LEMMA UsesHold ==
  ASSUME TypeOK, Shapes, LeasesAreLocked, BoxesAreLabelled, UsedAlone, [Next]_vars
  PROVE  UsedAlone'
<1>1. ASSUME NEW w \in Workers, WorkerStep(w), NEW v \in Workers, NEW b \in Boxes,
             box'[b].state = "running", Uses(v, box[b].slot)'
      PROVE  box'[b].attempt = Me(v)'
  <2>1. \/ /\ box[b].state = "running"
           /\ box'[b].attempt = box[b].attempt /\ box'[b].slot = box[b].slot
        \/ /\ box'[b].attempt = Me(w)
           /\ v # w => ~Uses(v, box'[b].slot)
    BY <1>1, RunsOrIsMine
  <2>2. CASE v = w
    <3>1. PICK s : s = box'[b].slot
      OBVIOUS
    <3>2. Uses(w, s)'
      BY <2>2, <3>1, <1>1 DEF Uses, LeaseSet, ScanSlot, ScanSlots
    <3>3. /\ Me(w)' = Me(w)
          /\ \/ Uses(w, s)
             \/ s = ScanSlot(w) /\ ~SlotHasLiveContainer(s) /\ UNCHANGED box
      BY <1>1, <3>2, WorkerUses
    <3>4. ~(s = ScanSlot(w) /\ ~SlotHasLiveContainer(s) /\ UNCHANGED box)
      BY <1>1, <3>1 DEF SlotHasLiveContainer
    <3> QED
      BY <2>1, <2>2, <3>1, <3>3, <3>4 DEF UsedAlone
  <2>3. CASE v # w
    <3>1. proc'[v] = proc[v]
      BY <1>1, <2>3, WorkerMoves DEF Moves
    <3>2. Me(v)' = Me(v) /\ Uses(v, box'[b].slot)
      BY <1>1, <3>1, SameRecord DEF Uses, LeaseSet, ScanSlot, ScanSlots
    <3> QED
      BY <2>1, <2>3, <3>2 DEF UsedAlone
  <2> QED
    BY <2>2, <2>3
<1>2. ASSUME \/ \E w \in Workers : RefreshClaim(w) \/ WorkerDies(w)
             \/ \E j \in Jobs : ClaimLapses(j) \/ JobGoes(j)
             \/ \E b \in Boxes : ContainerExits(b) \/ ContainerAges(b)
             \/ UNCHANGED vars,
             NEW v \in Workers, NEW b \in Boxes,
             box'[b].state = "running", Uses(v, box[b].slot)'
      PROVE  box'[b].attempt = Me(v)'
  <2>1. /\ box[b].state = "running"
        /\ box'[b].attempt = box[b].attempt /\ box'[b].slot = box[b].slot
    BY <1>2, OtherBoxes DEF vars
  <2>2. proc'[v] = proc[v] \/ Drops(proc'[v])
    BY <1>2, DiesMoves DEF RefreshClaim, ClaimLapses, JobGoes, ContainerExits, ContainerAges, Moves, vars
  <2>3. CASE proc'[v] = proc[v]
    BY <1>2, <2>1, <2>3, SameRecord DEF UsedAlone, Uses, LeaseSet, ScanSlot, ScanSlots
  <2>4. CASE Drops(proc'[v])
    <3>1. LeaseSet(v)' = {} /\ proc'[v].pc # "reset"
      BY <2>4, DroppedStayLocked DEF Drops
    <3> QED
      BY <1>2, <3>1 DEF Uses
  <2> QED
    BY <2>2, <2>3, <2>4
<1> QED
  BY <1>1, <1>2 DEF Next, UsedAlone

LEMMA WritersHold ==
  ASSUME TypeOK, Shapes, LeasesAreLocked, BoxesAreLabelled, UsedAlone, ExclusiveWriter, [Next]_vars
  PROVE  ExclusiveWriter'
<1>1. ASSUME NEW w \in Workers, WorkerStep(w)
      PROVE  ExclusiveWriter'
  <2>1. \A b \in Boxes : box'[b].state = "running" =>
           \/ /\ box[b].state = "running"
              /\ box'[b].attempt = box[b].attempt /\ box'[b].slot = box[b].slot
           \/ box'[b].attempt = Me(w) /\ box'[b].slot \in LeaseSet(w)
    BY <1>1, RunsOrIsMine
  <2>2. \A b \in Boxes : box[b].state = "running" /\ box[b].slot \in LeaseSet(w) => box[b].attempt = Me(w)
    BY DEF UsedAlone, Uses
  <2> QED
    BY <2>1, <2>2 DEF ExclusiveWriter
<1>2. ASSUME \/ \E w \in Workers : RefreshClaim(w) \/ WorkerDies(w)
             \/ \E j \in Jobs : ClaimLapses(j) \/ JobGoes(j)
             \/ \E b \in Boxes : ContainerExits(b) \/ ContainerAges(b)
             \/ UNCHANGED vars
      PROVE  ExclusiveWriter'
  <2>1. \A b \in Boxes : box'[b].state = "running" =>
           /\ box[b].state = "running"
           /\ box'[b].attempt = box[b].attempt /\ box'[b].slot = box[b].slot
    BY <1>2, OtherBoxes DEF vars
  <2> QED
    BY <2>1 DEF ExclusiveWriter
<1> QED
  BY <1>1, <1>2 DEF Next

-----------------------------------------------------------------------------
(* The specification keeps the invariant.                                      *)

LEMMA InitIsIdle == Init => WriterInv
<1> SUFFICES ASSUME Init PROVE WriterInv
  OBVIOUS
<1> DEFINE r == [IdleProc EXCEPT !.pc = "off", !.booted = FALSE]
<1>1. r \in ProcType /\ Shaped(r)
  <2>1. r \in ProcType
    BY ZenonT(40), IdleIsShaped DEF ProcType
  <2>2. Shaped(r)
    BY DEF IdleProc, Shaped, Acquiring, Containing, Ending
  <2> QED
    BY <2>1, <2>2
<1>2. r.pc = "off" /\ r.leases = <<>> /\ r.mine = <<>>
  BY DEF IdleProc
<1> HIDE DEF r
<1>3. proc = [w \in Workers |-> r]
  BY DEF Init, r
<1>4. AbsentBox \in BoxType /\ AbsentBox.state = "none"
  BY DEF AbsentBox, BoxType
<1>5. 0 \in 0..MaxAttempts /\ Unclaimed("queued", 0) \in ClaimType /\ Unclaimed("queued", 0).status # "running"
  <2>1. 0 \in 0..MaxAttempts
    BY JobClaimsAssumption
  <2> QED
    BY <2>1, UnclaimedIsTyped DEF Unclaimed
<1>6. TypeOK
  BY <1>1, <1>3, <1>4, <1>5, BoundsAssumption DEF Init, TypeOK
<1>7. Shapes /\ ClaimsAreNumbered
  BY <1>1, <1>3, <1>5 DEF Init, Shapes, ClaimsAreNumbered
<1>8. \A w \in Workers : LeaseSet(w) = {} /\ proc[w].pc = "off" /\ proc[w].leases = <<>>
  BY <1>2, <1>3 DEF LeaseSet
<1>9. LeasesAreLocked
  BY <1>8 DEF LeasesAreLocked, Locked
<1>10. \A b \in Boxes : box[b].state = "none"
  BY <1>4 DEF Init
<1>11. BoxesAreLabelled
  BY <1>8, <1>10 DEF BoxesAreLabelled, Containing
<1>12. UsedAlone /\ ExclusiveWriter
  BY <1>10 DEF UsedAlone, ExclusiveWriter
<1> QED
  BY <1>6, <1>7, <1>9, <1>11, <1>12 DEF WriterInv

\* The processes hold what their state says, a lease is a lock on a work path of
\* the attempt, the containers carry the labels of who created them, and whatever
\* runs on a slot in use belongs to the attempt that uses it, at any number of
\* workers, containers, failed calls and crashes.
THEOREM WriterInvariance == Spec => []WriterInv
<1>1. WriterInv /\ [Next]_vars => WriterInv'
  BY TypesHold, LocksHold, LabelsHold, UsesHold, WritersHold DEF WriterInv
<1> QED
  BY <1>1, InitIsIdle, PTL DEF Spec

\* Two running containers that write to one slot belong to one attempt: the lock is
\* free when its worker dies, and the check of running containers that follows the
\* lock keeps the slot from the next attempt while a container of the dead one runs.
THEOREM WriterSafety == Spec => []ExclusiveWriter
<1>1. WriterInv => ExclusiveWriter
  BY DEF WriterInv
<1> QED
  BY <1>1, WriterInvariance, PTL

-----------------------------------------------------------------------------
(* Reconciliation and the claims: what a worker has seen, and who removes what. *)

LEMMA GoSets ==
  ASSUME TypeOK, NEW w \in Workers, NEW r, Go(w, r)
  PROVE  proc'[w] = r
  BY DEF TypeOK, Go

\* A record of the same process, whatever else is set in it.
SameSights(w, r) == r.seen \subseteq proc[w].seen /\ r.pc # "kill"

LEMMA ListedSights ==
  ASSUME TypeOK, NEW w \in Workers, ListContainers(w)
  PROVE  /\ proc'[w].pc = "sweep"
         /\ proc'[w].seen = {[box |-> b, state |-> box[b].state, attempt |-> box[b].attempt,
                              old |-> box[b].old] : b \in {c \in Boxes : box[c].state # "none"}}
<1>1. PICK s : s = {[box |-> b, state |-> box[b].state, attempt |-> box[b].attempt,
                     old |-> box[b].old] : b \in {c \in Boxes : box[c].state # "none"}}
  OBVIOUS
<1>2. Go(w, [proc[w] EXCEPT !.pc = "sweep", !.seen = s])
  BY <1>1 DEF ListContainers
<1>3. proc'[w] = [proc[w] EXCEPT !.pc = "sweep", !.seen = s]
  BY <1>2, GoSets
<1>4. proc[w] \in ProcType
  BY DEF TypeOK
<1>5. proc'[w].pc = "sweep" /\ proc'[w].seen = s
  BY <1>3, <1>4 DEF ProcType
<1> QED
  BY <1>1, <1>5

LEMMA PhaseSights ==
  ASSUME TypeOK, NEW w \in Workers,
         \/ Prepare(w) \/ NoSlotLeft(w) \/ CreateFails(w) \/ JudgePhase(w)
  PROVE  SameSights(w, proc'[w])
<1>1. proc[w] \in ProcType
  BY DEF TypeOK
<1>2. \A n, e : /\ Ends(w, e).seen = proc[w].seen /\ Ends(w, e).pc = "unwind"
                /\ Enters(w, n).seen = proc[w].seen /\ Enters(w, n).pc \in {"acquire", "unwind"}
  BY <1>1 DEF Ends, Enters, ProcType
<1>3. \A n, t : LET r == [Enters(w, n) EXCEPT !.leases = t] IN
         r.seen = proc[w].seen /\ r.pc \in {"acquire", "unwind"}
  BY <1>1, <1>2 DEF Ends, Enters, ProcType
<1>4. \/ \E e : Go(w, Ends(w, e))
      \/ \E n : Go(w, Enters(w, n))
      \/ Go(w, [Enters(w, proc[w].phase + 1) EXCEPT
                   !.leases = IF ReplacesSetup(w) THEN Tail(@) ELSE @])
      \/ Go(w, [proc[w] EXCEPT !.pc = "remove", !.outcome = "docker"])
  BY DEF Prepare, NoSlotLeft, CreateFails, JudgePhase
<1>5. CASE \E e : Go(w, Ends(w, e))
  BY <1>2, <1>5, GoSets DEF SameSights
<1>6. CASE \E n : Go(w, Enters(w, n))
  BY <1>2, <1>6, GoSets DEF SameSights
<1>7. CASE Go(w, [Enters(w, proc[w].phase + 1) EXCEPT
                     !.leases = IF ReplacesSetup(w) THEN Tail(@) ELSE @])
  <2>1. PICK n : n = proc[w].phase + 1
    OBVIOUS
  <2>2. PICK t : t = IF ReplacesSetup(w) THEN Tail(Enters(w, n).leases) ELSE Enters(w, n).leases
    OBVIOUS
  <2>3. proc'[w] = [Enters(w, n) EXCEPT !.leases = t]
    BY <1>7, <2>1, <2>2, GoSets
  <2> QED
    BY <1>3, <2>3 DEF SameSights
<1>8. CASE Go(w, [proc[w] EXCEPT !.pc = "remove", !.outcome = "docker"])
  <2>1. LET r == [proc[w] EXCEPT !.pc = "remove", !.outcome = "docker"] IN
           r.seen = proc[w].seen /\ r.pc = "remove"
    BY <1>1 DEF ProcType
  <2> QED
    BY <1>8, <2>1, GoSets DEF SameSights
<1> QED
  BY <1>4, <1>5, <1>6, <1>7, <1>8

LEMMA SlotSights ==
  ASSUME TypeOK, NEW w \in Workers, TrySlot(w) \/ CheckSlot(w) \/ ResetSlot(w)
  PROVE  SameSights(w, proc'[w])
<1>1. proc[w] \in ProcType
  BY DEF TypeOK
<1>2. PICK r : Go(w, r) /\ \/ \E pc \in {"check", "reset"} : r = [proc[w] EXCEPT !.pc = pc]
                           \/ \E n : r = [proc[w] EXCEPT !.scan = n]
                           \/ \E n : r = [proc[w] EXCEPT !.pc = "acquire", !.scan = n]
                           \/ \E t, n, u : \E pc \in {"create", "acquire"} :
                                 r = [proc[w] EXCEPT !.leases = t, !.scan = n, !.want = u, !.pc = pc]
  <2>1. CASE TrySlot(w)
    BY <2>1 DEF TrySlot, To
  <2>2. CASE CheckSlot(w)
    BY <2>2 DEF CheckSlot, PassSlot, To
  <2>3. CASE ResetSlot(w)
    <3>1. CASE PassSlot(w)
      BY <3>1 DEF PassSlot
    <3>2. CASE ~(ScanSlot(w) \in rooted)
      <4> DEFINE t == Append(proc[w].leases, ScanSlot(w))
                 u == Tail(proc[w].want)
                 pc == IF Len(proc[w].want) = 1 THEN "create" ELSE "acquire"
      <4>1. Go(w, [proc[w] EXCEPT !.leases = t, !.scan = 1, !.want = u, !.pc = pc])
        BY <2>3, <3>2 DEF ResetSlot
      <4>2. pc \in {"create", "acquire"}
        OBVIOUS
      <4> HIDE DEF t, u, pc
      <4> QED
        BY ZenonT(40), <4>1, <4>2
    <3> QED
      BY <2>3, <3>1, <3>2 DEF ResetSlot
  <2> QED
    BY <2>1, <2>2, <2>3
<1>3. r.seen = proc[w].seen /\ (r.pc = proc[w].pc \/ r.pc \in {"check", "reset", "acquire", "create"})
  BY <1>1, <1>2 DEF ProcType
<1>4. proc[w].pc # "kill"
  BY DEF TrySlot, CheckSlot, ResetSlot
<1> QED
  BY <1>2, <1>3, <1>4, GoSets DEF SameSights

\* The fields that the calls of a phase set.
Phased(r, q) ==
    \/ \E pc \in {"create", "start"} : \E m : q = [r EXCEPT !.pc = pc, !.mine = m]
    \/ \E n : q = [r EXCEPT !.scan = n]
    \/ \E pc \in {"wait", "remove", "judge"} : \E n : q = [r EXCEPT !.pc = pc, !.scan = n]
    \/ \E o : q = [r EXCEPT !.pc = "repair", !.outcome = o]
    \/ \E pc \in {"repair", "remove", "judge"} : \E n, o : q = [r EXCEPT !.pc = pc, !.scan = n, !.outcome = o]
    \/ \E b : q = [r EXCEPT !.pc = "repairing", !.target = b]
    \/ \E n, o : q = [r EXCEPT !.scan = n, !.outcome = o]
    \/ \E n : q = [r EXCEPT !.pc = "repair", !.scan = n, !.target = NoBox]
    \/ \E n, o : q = [r EXCEPT !.pc = "repair", !.scan = n, !.target = NoBox, !.outcome = o]

LEMMA PhasedKeepsSights ==
  ASSUME NEW r \in ProcType, NEW q, Phased(r, q), r.pc # "kill"
  PROVE  q.seen = r.seen /\ q.pc # "kill"
<1>1. CASE \E pc \in {"create", "start"} : \E m : q = [r EXCEPT !.pc = pc, !.mine = m]
  BY <1>1 DEF ProcType
<1>2. CASE \E n : q = [r EXCEPT !.scan = n]
  BY <1>2 DEF ProcType
<1>3. CASE \E pc \in {"wait", "remove", "judge"} : \E n : q = [r EXCEPT !.pc = pc, !.scan = n]
  BY <1>3 DEF ProcType
<1>4. CASE \E o : q = [r EXCEPT !.pc = "repair", !.outcome = o]
  BY <1>4 DEF ProcType
<1>9. CASE \E pc \in {"repair", "remove", "judge"} : \E n, o :
              q = [r EXCEPT !.pc = pc, !.scan = n, !.outcome = o]
  BY <1>9 DEF ProcType
<1>5. CASE \E b : q = [r EXCEPT !.pc = "repairing", !.target = b]
  BY <1>5 DEF ProcType
<1>6. CASE \E n, o : q = [r EXCEPT !.scan = n, !.outcome = o]
  BY <1>6 DEF ProcType
<1>7. CASE \E n : q = [r EXCEPT !.pc = "repair", !.scan = n, !.target = NoBox]
  BY <1>7 DEF ProcType
<1>8. CASE \E n, o : q = [r EXCEPT !.pc = "repair", !.scan = n, !.target = NoBox, !.outcome = o]
  BY <1>8 DEF ProcType
<1> QED
  BY <1>1, <1>2, <1>3, <1>4, <1>5, <1>6, <1>7, <1>8, <1>9 DEF Phased

LEMMA ContainerSights ==
  ASSUME TypeOK, NEW w \in Workers,
         \/ CreateContainer(w) \/ StartContainer(w) \/ WaitEnds(w) \/ WaitTimesOut(w) \/ WaitFails(w)
         \/ StartRepair(w) \/ EndRepair(w) \/ RemoveContainer(w)
  PROVE  SameSights(w, proc'[w])
<1>1. proc[w] \in ProcType
  BY DEF TypeOK
<1>2. PICK r : Go(w, r) /\ Phased(proc[w], r)
  <2>1. CASE CreateContainer(w)
    <3>0. PICK pc \in {"create", "start"} : \E m : Go(w, [proc[w] EXCEPT !.pc = pc, !.mine = m])
      BY <2>1 DEF CreateContainer
    <3>1. PICK m : Go(w, [proc[w] EXCEPT !.pc = pc, !.mine = m])
      BY <3>0
    <3>2. PICK q : q = [proc[w] EXCEPT !.pc = pc, !.mine = m]
      OBVIOUS
    <3>3. Phased(proc[w], q)
      BY <3>2, Zenon DEF Phased
    <3> QED
      BY <3>1, <3>2, <3>3
  <2>6. CASE StartContainer(w)
    <3>1. \/ Go(w, [proc[w] EXCEPT !.pc = "wait", !.scan = 1])
          \/ Go(w, [proc[w] EXCEPT !.scan = proc[w].scan + 1])
          \/ Go(w, [proc[w] EXCEPT !.pc = "repair", !.scan = 1, !.outcome = "docker"])
      BY <2>6 DEF StartContainer
    <3>2. /\ Phased(proc[w], [proc[w] EXCEPT !.pc = "wait", !.scan = 1])
          /\ Phased(proc[w], [proc[w] EXCEPT !.scan = proc[w].scan + 1])
          /\ Phased(proc[w], [proc[w] EXCEPT !.pc = "repair", !.scan = 1, !.outcome = "docker"])
      BY Zenon DEF Phased
    <3> QED
      BY <3>1, <3>2, Zenon
  <2>2. CASE WaitEnds(w) \/ WaitTimesOut(w) \/ WaitFails(w)
    BY <2>2 DEF WaitEnds, WaitTimesOut, WaitFails, Phased
  <2>3. CASE StartRepair(w)
    <3>1. CASE Go(w, [proc[w] EXCEPT !.pc = "remove", !.scan = 1])
      <4>1. Phased(proc[w], [proc[w] EXCEPT !.pc = "remove", !.scan = 1])
        BY Zenon DEF Phased
      <4> QED
        BY <3>1, <4>1, Zenon
    <3>2. CASE \E b : Go(w, [proc[w] EXCEPT !.pc = "repairing", !.target = b])
      BY <3>2 DEF Phased
    <3>3. CASE Go(w, [proc[w] EXCEPT !.scan = @ + 1, !.outcome = "docker"])
      <4>1. PICK n : n = proc[w].scan + 1
        OBVIOUS
      <4>2. PICK q : q = [proc[w] EXCEPT !.scan = n, !.outcome = "docker"]
        OBVIOUS
      <4>3. Phased(proc[w], q)
        BY <4>2, Zenon DEF Phased
      <4> QED
        BY <3>3, <4>1, <4>2, <4>3
    <3> QED
      BY <2>3, <3>1, <3>2, <3>3 DEF StartRepair
  <2>4. CASE EndRepair(w)
    <3>1. PICK n : n = proc[w].scan + 1
      OBVIOUS
    <3>2. \/ Go(w, [proc[w] EXCEPT !.pc = "repair", !.scan = n, !.target = NoBox])
          \/ Go(w, [[proc[w] EXCEPT !.pc = "repair", !.scan = n, !.target = NoBox] EXCEPT !.outcome = "docker"])
      BY <2>4, <3>1 DEF EndRepair
    <3>3. [[proc[w] EXCEPT !.pc = "repair", !.scan = n, !.target = NoBox] EXCEPT !.outcome = "docker"]
          = [proc[w] EXCEPT !.pc = "repair", !.scan = n, !.target = NoBox, !.outcome = "docker"]
      BY <1>1 DEF ProcType
    <3>4. PICK q : q = [proc[w] EXCEPT !.pc = "repair", !.scan = n, !.target = NoBox, !.outcome = "docker"]
      OBVIOUS
    <3>5. Phased(proc[w], q) /\ Phased(proc[w], [proc[w] EXCEPT !.pc = "repair", !.scan = n, !.target = NoBox])
      BY <3>4, Zenon DEF Phased
    <3> QED
      BY <3>2, <3>3, <3>4, <3>5
  <2>5. CASE RemoveContainer(w)
    <3>1. PICK n : n = proc[w].scan + 1
      OBVIOUS
    <3>2. PICK pc \in {"remove", "judge"} : pc = IF proc[w].scan = Len(proc[w].mine) THEN "judge" ELSE "remove"
      OBVIOUS
    <3>3. \/ Go(w, [proc[w] EXCEPT !.pc = pc, !.scan = n])
          \/ Go(w, [[proc[w] EXCEPT !.pc = pc, !.scan = n] EXCEPT !.outcome = "docker"])
      BY <2>5, <3>1, <3>2 DEF RemoveContainer
    <3>4. [[proc[w] EXCEPT !.pc = pc, !.scan = n] EXCEPT !.outcome = "docker"]
          = [proc[w] EXCEPT !.pc = pc, !.scan = n, !.outcome = "docker"]
      BY <1>1 DEF ProcType
    <3>5. PICK q : q = [proc[w] EXCEPT !.pc = pc, !.scan = n, !.outcome = "docker"]
      OBVIOUS
    <3>6. Phased(proc[w], q) /\ Phased(proc[w], [proc[w] EXCEPT !.pc = pc, !.scan = n])
      BY <3>5, Zenon DEF Phased
    <3> QED
      BY <3>3, <3>4, <3>5, <3>6
  <2> QED
    BY <2>1, <2>2, <2>3, <2>4, <2>5, <2>6
<1>3. proc[w].pc # "kill"
  BY DEF CreateContainer, StartContainer, WaitEnds, WaitTimesOut, WaitFails, StartRepair, EndRepair,
         RemoveContainer
<1> QED
  BY <1>1, <1>2, <1>3, PhasedKeepsSights, GoSets DEF SameSights

LEMMA SweptSights ==
  ASSUME TypeOK, NEW w \in Workers, NEW x \in proc[w].seen, SweepContainer(w, x)
  PROVE  proc'[w].seen \subseteq proc[w].seen
<1>1. proc[w] \in ProcType
  BY DEF TypeOK
<1>2. PICK r : r = [proc[w] EXCEPT !.seen = proc[w].seen \ {x}]
  OBVIOUS
<1>3. r \in ProcType /\ r.seen \subseteq proc[w].seen
  BY <1>1, <1>2 DEF ProcType
<1>4. Go(w, r) \/ Go(w, [r EXCEPT !.pc = "kill", !.target = x.box])
  BY <1>2 DEF SweepContainer
<1>5. proc'[w] = r \/ proc'[w] = [r EXCEPT !.pc = "kill", !.target = x.box]
  BY <1>4, GoSets
<1> QED
  BY <1>3, <1>5 DEF ProcType

\* A worker sees containers when it lists them, and kills what it has seen.
LEMMA SeenMoves ==
  ASSUME TypeOK, NEW w \in Workers, WorkerStep(w)
  PROVE  /\ proc'[w].seen \subseteq proc[w].seen \/ ListContainers(w)
         /\ proc'[w].pc = "kill" => \E x \in proc[w].seen : SweepContainer(w, x)
<1>1. proc[w] \in ProcType
  BY DEF TypeOK
<1>2. CASE ListContainers(w)
  BY <1>2, ListedSights
<1>3. CASE \E x \in proc[w].seen : SweepContainer(w, x)
  BY <1>3, SweptSights
<1>4. CASE \/ Prepare(w) \/ NoSlotLeft(w) \/ CreateFails(w) \/ JudgePhase(w)
           \/ TrySlot(w) \/ CheckSlot(w) \/ ResetSlot(w)
           \/ CreateContainer(w) \/ StartContainer(w) \/ WaitEnds(w) \/ WaitTimesOut(w) \/ WaitFails(w)
           \/ StartRepair(w) \/ EndRepair(w) \/ RemoveContainer(w)
  BY <1>4, PhaseSights, SlotSights, ContainerSights DEF SameSights
<1>5. CASE \/ MaintenanceFails(w) \/ SweepEnds(w) \/ FindNothing(w) \/ Report(w)
           \/ \E j \in Jobs : ClaimJob(w, j)
  <2>1. PICK r : Go(w, r) /\ \/ r = IdleProc
                             \/ r = [proc[w] EXCEPT !.pc = "claim"]
                             \/ \E j, n : r = [IdleProc EXCEPT !.pc = "prepare", !.job = j, !.number = n]
    <3>1. CASE MaintenanceFails(w) \/ FindNothing(w) \/ Report(w)
      BY <3>1 DEF MaintenanceFails, FindNothing, Report
    <3>2. CASE SweepEnds(w)
      BY <3>2 DEF SweepEnds
    <3>3. CASE \E j \in Jobs : ClaimJob(w, j)
      BY <3>3 DEF ClaimJob
    <3> QED
      BY <1>5, <3>1, <3>2, <3>3
  <2>2. \A j, n : LET q == [IdleProc EXCEPT !.pc = "prepare", !.job = j, !.number = n] IN
           q.seen = {} /\ q.pc # "kill"
    BY DEF IdleProc
  <2>3. IdleProc.seen = {} /\ IdleProc.pc # "kill"
    BY DEF IdleProc
  <2>4. LET q == [proc[w] EXCEPT !.pc = "claim"] IN q.seen = proc[w].seen /\ q.pc # "kill"
    BY <1>1 DEF ProcType
  <2>5. r.seen \subseteq proc[w].seen /\ r.pc # "kill"
    <3>1. CASE r = IdleProc \/ r = [proc[w] EXCEPT !.pc = "claim"]
      BY <2>3, <2>4, <3>1
    <3>2. CASE \E j, n : r = [IdleProc EXCEPT !.pc = "prepare", !.job = j, !.number = n]
      <4>1. r.seen = {} /\ r.pc # "kill"
        BY <2>2, <3>2
      <4> QED
        BY <4>1
    <3> QED
      BY <2>1, <3>1, <3>2
  <2> QED
    BY <2>1, <2>5, GoSets
<1>6. CASE StartWorker(w) \/ ReapClaims(w) \/ KillContainer(w)
  <2>1. PICK r : Go(w, r) /\ \/ r = [proc[w] EXCEPT !.pc = "list"]
                             \/ r = [proc[w] EXCEPT !.pc = "sweep", !.target = NoBox]
    BY <1>6 DEF StartWorker, ReapClaims, KillContainer, To
  <2>2. r.seen = proc[w].seen /\ r.pc # "kill"
    BY <1>1, <2>1 DEF ProcType
  <2> QED
    BY <2>1, <2>2, GoSets
<1>7. CASE Unwind(w) \/ PersistLog(w) \/ CleanWorkspace(w)
  <2>1. PICK r : Go(w, r) /\ \/ \E e : r = [proc[w] EXCEPT !.pc = "clean", !.result = e]
                             \/ \E e : r = [proc[w] EXCEPT !.pc = "report", !.result = e]
                             \/ r = [proc[w] EXCEPT !.pc = "clean"]
                             \/ r = [proc[w] EXCEPT !.pc = "log", !.leases = <<>>, !.mine = <<>>,
                                                    !.want = <<>>, !.scan = 1]
    BY <1>7 DEF Unwind, PersistLog, CleanWorkspace
  <2>2. r.seen = proc[w].seen /\ r.pc # "kill"
    BY <1>1, <2>1 DEF ProcType
  <2> QED
    BY <2>1, <2>2, GoSets
<1> QED
  BY <1>2, <1>3, <1>4, <1>5, <1>6, <1>7 DEF WorkerStep

\* A worker takes a job from the queue, keeps it, and has none afterwards.
LEMMA JobMoves ==
  ASSUME TypeOK, Shapes, LeasesAreLocked, BoxesAreLabelled, NEW w \in Workers, WorkerStep(w)
  PROVE  \/ \E j \in Jobs : ClaimJob(w, j)
         \/ proc'[w].job = NoJob
         \/ proc'[w].job = proc[w].job /\ proc'[w].number = proc[w].number
<1>1. CASE MaintenanceFails(w) \/ FindNothing(w) \/ Report(w) \/ (SweepEnds(w) /\ Go(w, IdleProc))
  <2>1. Go(w, IdleProc)
    BY <1>1 DEF MaintenanceFails, FindNothing, Report
  <2> QED
    BY <2>1, GoSets DEF IdleProc
<1>2. CASE SweepEnds(w) /\ ~Go(w, IdleProc)
  <2>1. proc[w].pc = "sweep" /\ To(w, "claim")
    BY <1>2 DEF SweepEnds, To
  <2> QED
    BY <2>1, ToMoves DEF Continues
<1>3. CASE Unwind(w)
  BY <1>3, UnwindMoves
<1>4. CASE \/ StartWorker(w) \/ ReapClaims(w) \/ ListContainers(w) \/ KillContainer(w) \/ Prepare(w)
           \/ (\E x \in proc[w].seen : SweepContainer(w, x)) \/ EndRepair(w) \/ RemoveContainer(w)
           \/ PersistLog(w) \/ CleanWorkspace(w)
  <2>1. Continues(proc[w], proc'[w])
    BY <1>4, ToMoves, ListMoves, KillMoves, PrepareMoves, SweepMoves, EndRepairMoves, RemoveMoves,
       EndingMoves DEF StartWorker, ReapClaims
  <2> QED
    BY <2>1 DEF Continues
<1>5. CASE NoSlotLeft(w) \/ CreateFails(w) \/ StartContainer(w)
  <2>1. Continues(proc[w], proc'[w])
    BY <1>5, EndsMoves, CreateFailsMoves, StartMoves DEF NoSlotLeft, Results, Acquiring
  <2> QED
    BY <2>1 DEF Continues
<1>6. CASE WaitEnds(w) \/ WaitTimesOut(w) \/ WaitFails(w)
  BY <1>6, RepairMoves DEF Continues
<1>7. CASE TrySlot(w) \/ CheckSlot(w) \/ ResetSlot(w)
  BY <1>7, TryMoves, CheckMoves, ResetMoves DEF Continues, Inspects, Leases
<1>8. CASE StartRepair(w) \/ JudgePhase(w) \/ CreateContainer(w)
  BY <1>8, StartRepairMoves, JudgeMoves, CreateArrives DEF Continues, Repairs, Sheds, Creates
<1> QED
  BY <1>1, <1>2, <1>3, <1>4, <1>5, <1>6, <1>7, <1>8 DEF WorkerStep

\* The claim of an attempt holds and is fresh until it has lapsed, or its job is gone.
Prompt(w) ==
    Executing(w) /\ Me(w) \notin forfeited =>
        Holds(w, proc[w].job, proc[w].number) /\ claim[proc[w].job].fresh

PromptClaimsHold == \A w \in Workers : Prompt(w)

\* What a worker has seen of a container of a phase is what its label says, and
\* what it is about to kill belongs to an attempt that has forfeited its claim.
Sees(v, w) ==
    proc[w].pc \in Containing =>
        /\ \A x \in proc[v].seen : x.box \in Own(w) => x.attempt = Me(w)
        /\ proc[v].pc = "kill" /\ proc[v].target \in Own(w) => Me(w) \in forfeited

SightingsHold == \A v, w \in Workers : Sees(v, w)

\* No container is old that runs, is about to start or does a repair, and one that
\* was seen to be old has not started since.
AgesHold ==
    /\ \A b \in Boxes : box[b].state = "running" => ~box[b].old
    /\ \A v \in Workers : \A x \in proc[v].seen : x.state # "running" /\ x.old =>
          /\ box[x.box].state # "running"
          /\ box[x.box].state # "none" => box[x.box].old
    /\ \A w \in Workers : proc[w].pc \in {"create", "start"} =>
          \A b \in MineSet(w) : box[b].state # "none" => ~box[b].old
    /\ \A w \in Workers : proc[w].pc = "repairing" =>
          (box[proc[w].target].state # "none" => ~box[proc[w].target].old)

\* The sidecar of a prompt attempt is there until the attempt removes it.
SidecarsStay ==
    \A w \in Workers : proc[w].pc = "repairing" /\ Me(w) \notin forfeited => box[proc[w].target].state # "none"

ReconcileInv == WriterInv /\ PromptClaimsHold /\ SightingsHold /\ AgesHold /\ SidecarsStay

\* The claims of the workers that take no step.
LEMMA OthersStayPrompt ==
  ASSUME TypeOK, Shapes, NEW w \in Workers, WorkerStep(w), UNCHANGED forfeited,
         NEW v \in Workers, v # w, proc'[v] = proc[v], Prompt(v)
  PROVE  Prompt(v)'
<1> SUFFICES ASSUME Executing(v), Me(v) \notin forfeited PROVE claim'[proc[v].job] = claim[proc[v].job]
  BY DEF Prompt, Executing, Me, Holds
<1>1. /\ claim[proc[v].job].status = "running" /\ claim[proc[v].job].worker = v
      /\ claim[proc[v].job].fresh /\ proc[v].job \in Jobs
  BY DEF Prompt, Holds, Executing, TypeOK, ProcType
<1>2. CASE UNCHANGED claim
  BY <1>2
<1>3. CASE ReapClaims(w)
  BY <1>1, <1>3 DEF ReapClaims, Reap
<1>4. ASSUME NEW j \in Jobs, ClaimJob(w, j)
      PROVE  claim'[proc[v].job] = claim[proc[v].job]
  <2>1. j # proc[v].job
    BY <1>1, <1>4 DEF ClaimJob, Claim
  <2> QED
    BY <1>1, <1>4, <2>1 DEF ClaimJob, Claim, TypeOK
<1>5. CASE Report(w) /\ ~UNCHANGED claim
  <2>1. Holds(w, proc[w].job, proc[w].number)
    BY <1>5 DEF Report
  <2>2. proc[w].job # proc[v].job
    BY <1>1, <2>1 DEF Holds
  <2>3. \E c : claim' = [claim EXCEPT ![proc[w].job] = c]
    BY <1>5 DEF Report, GiveBack, Settle
  <2> QED
    BY <1>1, <2>2, <2>3 DEF TypeOK
<1> QED
  BY <1>2, <1>3, <1>4, <1>5, ClaimWriters

\* The claim of the worker that takes a step.
LEMMA WorkerStaysPrompt ==
  ASSUME TypeOK, Shapes, LeasesAreLocked, BoxesAreLabelled,
         NEW w \in Workers, Prompt(w), WorkerStep(w), UNCHANGED forfeited
  PROVE  Prompt(w)'
<1>1. ASSUME NEW j \in Jobs, ClaimJob(w, j)
      PROVE  Prompt(w)'
  <2>1. proc'[w].job = j /\ proc'[w].number = claim[j].attempt + 1
    BY <1>1, ClaimMoves
  <2>2. claim'[j] = [status |-> "running", worker |-> w, attempt |-> claim[j].attempt + 1, fresh |-> TRUE]
    BY <1>1 DEF ClaimJob, Claim, TypeOK
  <2> QED
    BY <2>1, <2>2 DEF Prompt, Holds
<1>2. CASE proc'[w].job = NoJob
  BY <1>2 DEF Prompt, Executing
<1>3. CASE /\ proc'[w].job = proc[w].job /\ proc'[w].number = proc[w].number /\ proc[w].job # NoJob
           /\ ~ \E j \in Jobs : ClaimJob(w, j)
  <2>1. Me(w)' = Me(w) /\ (Executing(w)' <=> Executing(w))
    BY <1>3 DEF Me, Executing
  <2>2. CASE UNCHANGED claim
    BY <1>3, <2>1, <2>2 DEF Prompt, Holds
  <2>3. CASE Report(w)
    <3>1. Go(w, IdleProc)
      BY <2>3 DEF Report
    <3>2. proc'[w].job = NoJob
      BY <3>1, GoSets DEF IdleProc
    <3> QED
      BY <1>2, <3>2
  <2>4. CASE ReapClaims(w)
    <3>1. proc[w].pc = "idle"
      BY <2>4 DEF ReapClaims
    <3> QED
      BY <1>3, <3>1 DEF Shapes, Shaped, Acquiring, Containing, Ending
  <2> QED
    BY <1>3, <2>2, <2>3, <2>4, ClaimWriters
<1> QED
  BY <1>1, <1>2, <1>3, JobMoves

LEMMA PromptClaimsStay ==
  ASSUME TypeOK, Shapes, LeasesAreLocked, BoxesAreLabelled, PromptClaimsHold, [Next]_vars
  PROVE  PromptClaimsHold'
<1>1. ASSUME NEW w \in Workers, WorkerStep(w), UNCHANGED forfeited, NEW v \in Workers
      PROVE  Prompt(v)'
  <2>1. v # w => proc'[v] = proc[v]
    BY <1>1, WorkerMoves DEF Moves
  <2> QED
    BY <1>1, <2>1, OthersStayPrompt, WorkerStaysPrompt DEF PromptClaimsHold
<1>2. ASSUME NEW w \in Workers, RefreshClaim(w), UNCHANGED forfeited, NEW v \in Workers
      PROVE  Prompt(v)'
  <2>1. proc[w].job \in Jobs /\ proc' = proc /\ claim' = [claim EXCEPT ![proc[w].job].fresh = TRUE]
    BY <1>2 DEF RefreshClaim, Refresh, Executing, TypeOK, ProcType
  <2>2. claim[proc[w].job] \in ClaimType
    BY <2>1 DEF TypeOK
  <2>3. PICK c : c = [claim[proc[w].job] EXCEPT !.fresh = TRUE]
    OBVIOUS
  <2>4. /\ c.status = claim[proc[w].job].status /\ c.worker = claim[proc[w].job].worker
        /\ c.attempt = claim[proc[w].job].attempt /\ c.fresh
    BY <2>2, <2>3 DEF ClaimType
  <2>5. claim' = [claim EXCEPT ![proc[w].job] = c]
    BY <2>1, <2>3
  <2>6. \A j \in Jobs : claim'[j] = claim[j] \/ (j = proc[w].job /\ claim'[j] = c)
    BY <2>1, <2>5 DEF TypeOK
  <2>7. Prompt(v) /\ (Executing(v) => proc[v].job \in Jobs) /\ Me(v)' = Me(v)
    BY <2>1 DEF PromptClaimsHold, Executing, TypeOK, ProcType, Me
  <2> QED
    BY <1>2, <2>1, <2>4, <2>6, <2>7 DEF Prompt, Executing, Holds
<1>3. ASSUME NEW j \in Jobs, ClaimLapses(j), NEW v \in Workers
      PROVE  Prompt(v)'
  <2>1. /\ proc' = proc /\ claim' = [claim EXCEPT ![j].fresh = FALSE]
        /\ forfeited' = forfeited \cup {Holder(j)}
    BY <1>3 DEF ClaimLapses, Lapse
  <2>2. SUFFICES ASSUME Executing(v), Me(v) \notin forfeited'
                 PROVE  claim'[proc[v].job] = claim[proc[v].job] /\ Prompt(v)
    BY <2>1 DEF Prompt, Executing, Me, Holds
  <2>3. Prompt(v) /\ Me(v) \notin forfeited /\ proc[v].job \in Jobs
    BY <2>1, <2>2 DEF PromptClaimsHold, Executing, TypeOK, ProcType
  <2>4. j # proc[v].job
    BY <2>1, <2>2, <2>3 DEF Prompt, Holds, Me, Holder
  <2> QED
    BY <2>1, <2>3, <2>4 DEF TypeOK
<1>6. ASSUME NEW j \in Jobs, JobGoes(j), NEW v \in Workers
      PROVE  Prompt(v)'
  <2>1. /\ proc' = proc /\ \A i \in Jobs : i # j => claim'[i] = claim[i]
        /\ forfeited' = IF claim[j].status = "running" THEN forfeited \cup {Holder(j)} ELSE forfeited
    BY <1>6 DEF JobGoes, Withdraw, TypeOK
  <2>2. SUFFICES ASSUME Executing(v), Me(v) \notin forfeited'
                 PROVE  claim'[proc[v].job] = claim[proc[v].job] /\ Prompt(v)
    BY <2>1 DEF Prompt, Executing, Me, Holds
  <2>3. Prompt(v) /\ Me(v) \notin forfeited /\ proc[v].job \in Jobs
    BY <2>1, <2>2 DEF PromptClaimsHold, Executing, TypeOK, ProcType
  <2>4. Holds(v, proc[v].job, proc[v].number)
    BY <2>2, <2>3 DEF Prompt
  <2>5. j # proc[v].job
    BY <2>1, <2>2, <2>4 DEF Holds, Me, Holder
  <2> QED
    BY <2>1, <2>3, <2>5
<1>4. ASSUME NEW w \in Workers, WorkerDies(w), UNCHANGED forfeited, NEW v \in Workers
      PROVE  Prompt(v)'
  <2>1. CASE v # w
    <3>1. proc'[v] = proc[v] /\ UNCHANGED claim
      BY <1>4, <2>1, DiesMoves DEF Moves, WorkerDies
    <3> QED
      BY <1>4, <3>1 DEF PromptClaimsHold, Prompt, Executing, Me, Holds
  <2>2. CASE v = w
    <3>1. proc'[w] = [IdleProc EXCEPT !.pc = "dead"]
      BY <1>4, GoSets DEF WorkerDies
    <3> QED
      BY <2>2, <3>1 DEF Prompt, Executing, IdleProc
  <2> QED
    BY <2>1, <2>2
<1>5. ASSUME UNCHANGED <<claim, proc, forfeited>>, NEW v \in Workers
      PROVE  Prompt(v)'
  BY <1>5 DEF PromptClaimsHold, Prompt, Executing, Me, Holds
<1> QED
  BY <1>1, <1>2, <1>3, <1>4, <1>5, <1>6 DEF PromptClaimsHold, Next, vars, ContainerExits, ContainerAges

\* The containers a worker calls its own are created by it one phase at a time.
LEMMA OwnMoves ==
  ASSUME TypeOK, Shapes, LeasesAreLocked, BoxesAreLabelled, NEW w \in Workers, WorkerStep(w),
         proc'[w].pc \in Containing
  PROVE  \/ Own(w)' = {}
         \/ /\ proc[w].pc \in Containing /\ Me(w)' = Me(w)
            /\ \A b \in Own(w)' : b \in Own(w) \/ Arrives(w, b)
<1>1. CASE Continues(proc[w], proc'[w])
  BY <1>1 DEF Continues, Me, Own, MineSet
<1>2. CASE Leases(proc[w], proc'[w])
  BY <1>2 DEF Leases, Own, MineSet
<1>3. CASE CreateContainer(w)
  <2>1. PICK b : Creates(proc[w], proc'[w], b) /\ Arrives(w, b) /\ MineSet(w)' = MineSet(w) \cup {b}
    BY <1>3, CreateArrives
  <2>2. Own(w)' \subseteq Own(w) \cup {b} /\ Me(w)' = Me(w) /\ proc[w].pc \in Containing
    BY <2>1 DEF Creates, Own, Me, Containing
  <2> QED
    BY <2>1, <2>2
<1>4. ASSUME NEW b \in FreeBoxes, Repairs(proc[w], proc'[w], b), proc[w].pc = "repair",
             proc[w].scan \in 1..Len(PhaseSlots(w)),
             box' = [box EXCEPT ![b] = NewBox(w, PhaseSlots(w)[proc[w].scan], "running")]
      PROVE  /\ proc[w].pc \in Containing /\ Me(w)' = Me(w)
             /\ \A c \in Own(w)' : c \in Own(w) \/ Arrives(w, c)
  <2>1. Arrives(w, b)
    BY <1>4, NewArrives DEF Containing
  <2>2. Own(w)' \subseteq Own(w) \cup {b} /\ Me(w)' = Me(w)
    BY <1>4 DEF Repairs, Own, MineSet, Me
  <2> QED
    BY <1>4, <2>1, <2>2 DEF Containing
<1> QED
  BY <1>1, <1>2, <1>3, <1>4, WorkerLeases DEF Drops, Inspects, Sheds, Containing

\* What a worker that lists the containers sees of them.
LEMMA ListsLabels ==
  ASSUME TypeOK, BoxesAreLabelled, NEW v \in Workers, ListContainers(v), NEW x \in proc'[v].seen
  PROVE  /\ x.box \in Boxes /\ x.state = box[x.box].state /\ x.attempt = box[x.box].attempt
         /\ x.old = box[x.box].old /\ box[x.box].state # "none"
<1>1. PICK b \in Boxes : box[b].state # "none" /\ x = [box |-> b, state |-> box[b].state,
                                                      attempt |-> box[b].attempt, old |-> box[b].old]
  BY ListedSights
<1> QED
  BY <1>1

LEMMA WorkerSees ==
  ASSUME TypeOK, Shapes, LeasesAreLocked, BoxesAreLabelled, PromptClaimsHold, SightingsHold,
         NEW u \in Workers, WorkerStep(u), UNCHANGED forfeited, NEW v \in Workers, NEW w \in Workers
  PROVE  Sees(v, w)'
<1> SUFFICES ASSUME proc'[w].pc \in Containing
             PROVE  /\ \A x \in proc'[v].seen : x.box \in Own(w)' => x.attempt = Me(w)'
                    /\ proc'[v].pc = "kill" /\ proc'[v].target \in Own(w)' => Me(w)' \in forfeited'
  BY DEF Sees
<1>1. \A y \in Workers : y # u => proc'[y] = proc[y]
  BY WorkerMoves DEF Moves
<1>2. CASE Own(w)' = {}
  BY <1>2
<1>3. CASE /\ proc[w].pc \in Containing /\ Me(w)' = Me(w)
           /\ \A b \in Own(w)' : b \in Own(w) \/ Arrives(w, b)
  <2>1. /\ \A x \in proc[v].seen : x.box \in Own(w) => x.attempt = Me(w)
        /\ proc[v].pc = "kill" /\ proc[v].target \in Own(w) => Me(w) \in forfeited
    BY <1>3 DEF SightingsHold, Sees
  <2>2. \A b : Arrives(w, b) => (\A x \in proc[v].seen : x.box # b) /\ proc[v].target # b
    BY DEF Arrives, FreeBoxes
  <2>3. ASSUME NEW x \in proc'[v].seen, x.box \in Own(w)'
        PROVE  x.attempt = Me(w)'
    <3>1. CASE x \in proc[v].seen
      BY <1>3, <2>1, <2>2, <2>3, <3>1
    <3>2. CASE v = u /\ ListContainers(v)
      <4>1. v # w
        BY <3>2, ListedSights DEF Containing
      <4>2. proc'[w] = proc[w]
        BY <1>1, <3>2, <4>1
      <4>3. x.box \in Own(w)
        BY <2>3, <4>2, SameRecord
      <4>4. x.attempt = box[x.box].attempt /\ box[x.box].state # "none"
        BY <2>3, <3>2, ListsLabels
      <4> QED
        BY <1>3, <4>3, <4>4 DEF BoxesAreLabelled
    <3> QED
      BY <1>1, <2>3, <3>1, <3>2, SeenMoves
  <2>4. ASSUME proc'[v].pc = "kill", proc'[v].target \in Own(w)'
        PROVE  Me(w)' \in forfeited'
    <3>1. CASE v # u
      <4>1. proc[v].pc = "kill" /\ proc[v].target \in Own(w)'
        BY <1>1, <2>4, <3>1
      <4> QED
        BY <1>3, <2>1, <2>2, <4>1
    <3>2. CASE v = u
      <4>1. PICK x \in proc[v].seen : SweepContainer(v, x)
        BY <2>4, <3>2, SeenMoves
      <4>2. proc'[v].target = x.box /\ ClaimIsStale(x.attempt)
        BY <2>4, <4>1, SweepMoves
      <4>3. v # w
        BY <2>4 DEF Containing
      <4>4. proc'[w] = proc[w]
        BY <1>1, <3>2, <4>3
      <4>5. x.box \in Own(w)
        BY <2>4, <4>2, <4>4, SameRecord
      <4>6. ClaimIsStale(Me(w))
        BY <2>1, <4>2, <4>5
      <4>7. Executing(w) /\ Prompt(w)
        BY <1>3 DEF Shapes, Shaped, Executing, PromptClaimsHold
      <4>8. Me(w) \in forfeited
        BY <4>6, <4>7 DEF ClaimIsStale, Prompt, Me
      <4> QED
        BY <1>3, <4>8
    <3> QED
      BY <3>1, <3>2
  <2> QED
    BY <2>3, <2>4
<1>4. CASE w # u
  <2>1. proc'[w] = proc[w]
    BY <1>1, <1>4
  <2>2. Own(w)' = Own(w) /\ Me(w)' = Me(w) /\ proc[w].pc \in Containing
    BY <2>1, SameRecord
  <2> QED
    BY <1>3, <2>2
<1> QED
  BY <1>2, <1>3, <1>4, OwnMoves

LEMMA SightingsStay ==
  ASSUME TypeOK, Shapes, LeasesAreLocked, BoxesAreLabelled, PromptClaimsHold, SightingsHold, [Next]_vars
  PROVE  SightingsHold'
<1>1. CASE \E u \in Workers : WorkerStep(u) /\ UNCHANGED forfeited
  BY <1>1, WorkerSees DEF SightingsHold
<1>2. ASSUME NEW u \in Workers, WorkerDies(u), UNCHANGED forfeited, NEW v \in Workers, NEW w \in Workers
      PROVE  Sees(v, w)'
  <2>1. proc'[u].pc = "dead" /\ proc'[u].seen = {} /\ \A y \in Workers : y # u => proc'[y] = proc[y]
    <3>1. Go(u, [IdleProc EXCEPT !.pc = "dead"])
      BY <1>2 DEF WorkerDies
    <3>2. proc'[u] = [IdleProc EXCEPT !.pc = "dead"]
      BY <3>1, GoSets
    <3>3. proc'[u].pc = "dead" /\ proc'[u].seen = {}
      BY <3>2 DEF IdleProc
    <3>4. \A y \in Workers : y # u => proc'[y] = proc[y]
      BY <1>2, DiesMoves DEF Moves
    <3> QED
      BY <3>3, <3>4
  <2>2. w # u => proc'[w] = proc[w] /\ Own(w)' = Own(w) /\ Me(w)' = Me(w)
    BY <2>1, SameRecord
  <2>3. Sees(v, w) /\ "dead" \notin Containing
    BY DEF SightingsHold, Containing
  <2> QED
    BY <1>2, <2>1, <2>2, <2>3 DEF Sees
<1>3. ASSUME UNCHANGED proc, forfeited \subseteq forfeited', NEW v \in Workers, NEW w \in Workers
      PROVE  Sees(v, w)'
  <2>1. Own(w)' = Own(w) /\ Me(w)' = Me(w) /\ Sees(v, w)
    BY <1>3, SameRecord DEF SightingsHold
  <2> QED
    BY <1>3, <2>1 DEF Sees
<1>4. \/ \E u \in Workers : (WorkerStep(u) \/ WorkerDies(u)) /\ UNCHANGED forfeited
      \/ UNCHANGED proc /\ forfeited \subseteq forfeited'
  BY DEF Next, vars, RefreshClaim, ClaimLapses, JobGoes, ContainerExits, ContainerAges
<1> QED
  BY <1>1, <1>2, <1>3, <1>4 DEF SightingsHold

\* Containers go in the calls that remove them.
LEMMA Removers ==
  ASSUME TypeOK, Shapes, NEW v \in Workers, WorkerStep(v),
         NEW b \in Boxes, box[b].state # "none", box'[b].state = "none"
  PROVE  \/ KillContainer(v) /\ b = proc[v].target
         \/ \E x \in proc[v].seen : x.box = b /\ x.old /\ x.state # "running"
         \/ EndRepair(v) /\ b = proc[v].target
         \/ RemoveContainer(v) /\ b \in MineSet(v)
<1>1. \A bs : box' = Without(bs) => b \in bs
  BY DEF Without
<1>2. box[b] \in BoxType
  BY DEF TypeOK
<1>0. \A s, state : NewBox(v, s, state).state = state
  BY DEF NewBox
<1>3. CASE KillContainer(v) \/ EndRepair(v)
  BY <1>1, <1>3 DEF KillContainer, EndRepair
<1>9. CASE RemoveContainer(v)
  <2>1. b = proc[v].mine[proc[v].scan]
    BY <1>1, <1>9 DEF RemoveContainer
  <2>2. proc[v].scan \in DOMAIN proc[v].mine
    <3>1. proc[v].scan \in 1..Len(proc[v].mine)
      BY <1>9, RemoveMoves
    <3> QED
      BY <3>1, LenProperties DEF TypeOK, ProcType
  <2> QED
    BY <1>9, <2>1, <2>2 DEF MineSet
<1>4. ASSUME NEW x \in proc[v].seen, SweepContainer(v, x)
      PROVE  x.box = b /\ x.old /\ x.state # "running"
  BY <1>1, <1>4 DEF SweepContainer
<1>5. CASE WaitTimesOut(v)
  <2>1. box'[b] = box[b] \/ box'[b] = [box[b] EXCEPT !.state = "exited"]
    BY <1>5 DEF WaitTimesOut, Stop
  <2> QED
    BY <1>2, <2>1 DEF BoxType
<1>6. CASE StartContainer(v)
  <2>1. Fades(b) \/ Starts(v, b)
    BY <1>6, StartStarts
  <2>2. CASE Fades(b)
    <3>1. box' = [box EXCEPT ![proc[v].mine[proc[v].scan]].state = "running"] \/ UNCHANGED box
      BY <1>6 DEF StartContainer
    <3>2. box'[b].state = box[b].state \/ box'[b].state = "running"
      BY <1>2, <3>1 DEF TypeOK, BoxType
    <3> QED
      BY <3>2
  <2>3. CASE Starts(v, b)
    BY <2>3 DEF Starts
  <2> QED
    BY <2>1, <2>2, <2>3
<1>7. CASE CreateContainer(v)
  BY <1>7, CreateArrives
<1>8. CASE StartRepair(v)
  <2>1. box'[b] = box[b] \/ \E s : box'[b] = NewBox(v, s, "running")
    <3>1. CASE UNCHANGED box
      BY <3>1
    <3>2. ASSUME NEW c, NEW s, box' = [box EXCEPT ![c] = NewBox(v, s, "running")]
          PROVE  box'[b] = box[b] \/ box'[b] = NewBox(v, s, "running")
      <4>1. PICK y : y = NewBox(v, s, "running")
        OBVIOUS
      <4>2. box' = [box EXCEPT ![c] = y] /\ box \in [Boxes -> BoxType]
        BY <3>2, <4>1 DEF TypeOK
      <4> HIDE DEF BoxType
      <4> QED
        BY <4>1, <4>2
    <3> QED
      BY ZenonT(40), <1>8, <3>1, <3>2 DEF StartRepair
  <2> QED
    BY <1>0, <2>1
<1> QED
  BY <1>3, <1>4, <1>5, <1>6, <1>7, <1>8, <1>9, BoxWriters

\* Nobody but the attempt itself removes its containers before it forfeits its claim.
LEMMA OthersLeaveBoxes ==
  ASSUME ReconcileInv, NEW v \in Workers, WorkerStep(v), NEW w \in Workers, v # w,
         proc[w].pc \in Containing, Me(w) \notin forfeited,
         NEW b \in Own(w), box[b].state # "none", box[b].state = "running" \/ ~box[b].old
  PROVE  box'[b].state # "none"
<1> USE DEF ReconcileInv, WriterInv
<1>1. b \in Boxes /\ box[b].attempt = Me(w)
  BY OwnIsBox DEF BoxesAreLabelled
<1>2. Sees(v, w)
  BY DEF SightingsHold
<1>3. ~(KillContainer(v) /\ b = proc[v].target)
  BY <1>2 DEF Sees, KillContainer
<1>4. ~ \E x \in proc[v].seen : x.box = b /\ x.old /\ x.state # "running"
  BY DEF AgesHold
<1>5. ASSUME b \in Own(v), proc[v].pc \in Containing
      PROVE  FALSE
  <2>1. box[b].attempt = Me(v)
    BY <1>1, <1>5 DEF BoxesAreLabelled
  <2> QED
    BY <1>1, <2>1 DEF Me
<1>6. ~(EndRepair(v) /\ b = proc[v].target) /\ ~(RemoveContainer(v) /\ b \in MineSet(v))
  <2>1. EndRepair(v) => proc[v].pc \in Containing
    BY DEF EndRepair, Containing
  <2>2. RemoveContainer(v) => proc[v].pc \in Containing
    BY DEF RemoveContainer, Containing
  <2>3. b \in MineSet(v) => b \in Own(v)
    BY DEF Own
  <2>4. b = proc[v].target => b \in Own(v)
    BY <1>1, NamesAssumption DEF Own
  <2> QED
    BY <1>5, <2>1, <2>2, <2>3, <2>4
<1> QED
  BY <1>1, <1>3, <1>4, <1>6, Removers

LEMMA StartsByCreation ==
  ASSUME TypeOK, Shapes, LeasesAreLocked, BoxesAreLabelled, NEW w \in Workers, WorkerStep(w)
  PROVE  /\ proc'[w].pc \in {"create", "start"} =>
               \/ CreateContainer(w)
               \/ Leases(proc[w], proc'[w])
               \/ Continues(proc[w], proc'[w]) /\ proc[w].pc = "start"
         /\ proc'[w].pc = "repairing" => \E b \in FreeBoxes :
               /\ Repairs(proc[w], proc'[w], b)
               /\ proc[w].pc = "repair" /\ proc[w].scan \in 1..Len(PhaseSlots(w))
               /\ box' = [box EXCEPT ![b] = NewBox(w, PhaseSlots(w)[proc[w].scan], "running")]
<1>1. CreateContainer(w) => proc'[w].pc \in {"create", "start"}
  BY CreateArrives DEF Creates
<1> QED
  BY <1>1, WorkerLeases DEF Continues, Drops, Inspects, Leases, Sheds, Repairs, Containing

\* What a worker knows of its own containers after its step.
LEMMA WorkerAges ==
  ASSUME TypeOK, Shapes, LeasesAreLocked, BoxesAreLabelled, AgesHold, NEW w \in Workers, WorkerStep(w)
  PROVE  /\ proc'[w].pc \in {"create", "start"} =>
               \A b \in MineSet(w)' : box'[b].state # "none" => ~box'[b].old
         /\ proc'[w].pc = "repairing" => /\ box'[proc'[w].target].state # "none"
                                         /\ ~box'[proc'[w].target].old
<1>1. ASSUME proc'[w].pc \in {"create", "start"}, NEW b \in MineSet(w)', box'[b].state # "none"
      PROVE  ~box'[b].old
  <2>1. ASSUME b \in MineSet(w), proc[w].pc \in {"create", "start"}
        PROVE  ~box'[b].old
    <3>1. b \in Boxes /\ b \in Own(w)
      BY <2>1, LeaseIsSlot DEF Own
    <3>2. Fades(b) \/ Starts(w, b)
      BY <3>1, WorkerBoxes, ArrivesAlone
    <3> QED
      BY <1>1, <2>1, <3>1, <3>2 DEF Fades, Starts, AgesHold
  <2>2. CASE CreateContainer(w)
    <3>1. PICK c \in FreeBoxes : /\ Creates(proc[w], proc'[w], c) /\ Arrives(w, c)
                                 /\ MineSet(w)' = MineSet(w) \cup {c}
      BY <2>2, CreateArrives
    <3> QED
      BY <1>1, <2>1, <3>1 DEF Arrives, Creates
  <2>3. CASE Leases(proc[w], proc'[w])
    BY <1>1, <2>3 DEF Leases, MineSet
  <2>4. CASE Continues(proc[w], proc'[w]) /\ proc[w].pc = "start"
    BY <1>1, <2>1, <2>4 DEF Continues, MineSet, Containing
  <2> QED
    BY <1>1, <2>2, <2>3, <2>4, StartsByCreation
<1>2. ASSUME proc'[w].pc = "repairing"
      PROVE  box'[proc'[w].target].state # "none" /\ ~box'[proc'[w].target].old
  <2>1. PICK b \in FreeBoxes :
               /\ Repairs(proc[w], proc'[w], b)
               /\ proc[w].pc = "repair" /\ proc[w].scan \in 1..Len(PhaseSlots(w))
               /\ box' = [box EXCEPT ![b] = NewBox(w, PhaseSlots(w)[proc[w].scan], "running")]
    BY <1>2, StartsByCreation
  <2>2. Arrives(w, b) /\ proc'[w].target = b
    BY <2>1, NewArrives DEF Repairs, Containing
  <2> QED
    BY <2>2 DEF Arrives
<1> QED
  BY <1>1, <1>2

LEMMA SightIsBox ==
  ASSUME TypeOK, NEW v \in Workers, NEW x \in proc[v].seen
  PROVE  x.box \in Boxes
  BY DEF TypeOK, ProcType

LEMMA WorkerStaysYoung ==
  ASSUME TypeOK, Shapes, LeasesAreLocked, BoxesAreLabelled, AgesHold, NEW u \in Workers, WorkerStep(u)
  PROVE  AgesHold'
<1>1. /\ \A b \in Boxes : Fades(b) \/ Arrives(u, b) \/ Starts(u, b)
      /\ \A y \in Workers : y # u => proc'[y] = proc[y]
  BY WorkerBoxes, WorkerMoves DEF Moves
<1>2. \A b \in Boxes : Starts(u, b) => box[b].state # "none" /\ ~box[b].old /\ ~box'[b].old
  BY DEF Starts, AgesHold
<1>3. \A b \in Boxes : box'[b].state = "running" => ~box'[b].old
  BY <1>1, <1>2 DEF AgesHold, Fades, Arrives
<1>4. ASSUME NEW v \in Workers, NEW x \in proc'[v].seen, x.state # "running", x.old
      PROVE  /\ box'[x.box].state # "running"
             /\ box'[x.box].state # "none" => box'[x.box].old
  <2>1. CASE x \in proc[v].seen
    <3>1. x.box \in Boxes
      BY <2>1, SightIsBox
    <3>2. box[x.box].state # "running" /\ (box[x.box].state # "none" => box[x.box].old)
      BY <1>4, <2>1 DEF AgesHold
    <3>3. ~Arrives(u, x.box) /\ ~Starts(u, x.box)
      BY <1>2, <2>1, <3>1, <3>2, ArrivesAlone
    <3> QED
      BY <1>1, <3>1, <3>2, <3>3 DEF Fades
  <2>2. CASE v = u /\ ListContainers(v)
    <3>1. x.state = box[x.box].state /\ x.old = box[x.box].old
      BY <1>4, <2>2, ListsLabels
    <3>2. UNCHANGED box
      BY <2>2 DEF ListContainers
    <3> QED
      BY <1>4, <3>1, <3>2
  <2> QED
    BY <1>1, <1>4, <2>1, <2>2, SeenMoves
<1>5. ASSUME NEW w \in Workers, proc'[w].pc \in {"create", "start"}, NEW b \in MineSet(w)', box'[b].state # "none"
      PROVE  ~box'[b].old
  <2>1. CASE w # u
    <3>1. proc'[w] = proc[w]
      BY <1>1, <2>1
    <3>2. b \in MineSet(w) /\ b \in Boxes /\ proc[w].pc \in {"create", "start"} /\ b \in Own(w)
      BY <1>5, <3>1, SameRecord, LeaseIsSlot DEF Own
    <3>3. ~Arrives(u, b)
      BY <3>2, ArrivesAlone
    <3> QED
      BY <1>1, <1>2, <1>5, <3>2, <3>3 DEF Fades, AgesHold
  <2> QED
    BY <1>5, <2>1, WorkerAges
<1>6. ASSUME NEW w \in Workers, proc'[w].pc = "repairing", box'[proc'[w].target].state # "none"
      PROVE  ~box'[proc'[w].target].old
  <2>1. CASE w # u
    <3>1. proc'[w] = proc[w]
      BY <1>1, <2>1
    <3>2. proc[w].target \in Boxes /\ proc[w].target \in Own(w)
      BY <1>6, <3>1 DEF TypeOK, ProcType, Shapes, Shaped, Own
    <3>3. ~Arrives(u, proc[w].target)
      BY <3>2, ArrivesAlone
    <3>4. CASE Fades(proc[w].target)
      BY <1>6, <3>1, <3>4 DEF Fades, AgesHold
    <3> QED
      BY <1>1, <1>2, <3>1, <3>2, <3>3, <3>4
  <2> QED
    BY <1>6, <2>1, WorkerAges
<1> QED
  BY <1>3, <1>4, <1>5, <1>6 DEF AgesHold

\* The containers of a live attempt when no worker takes a step.
LEMMA AgingBoxes ==
  ASSUME TypeOK, NEW c \in Boxes, ContainerAges(c), NEW b \in Boxes
  PROVE  /\ box'[b].state = box[b].state
         /\ box[b].old => box'[b].old
         /\ b # c => box'[b].old = box[b].old
<1>1. box[c] \in BoxType /\ box' = [box EXCEPT ![c].old = TRUE]
  BY DEF ContainerAges, TypeOK
<1>2. PICK y : y = [box[c] EXCEPT !.old = TRUE]
  OBVIOUS
<1>3. y.state = box[c].state /\ y.old = TRUE
  BY <1>1, <1>2 DEF BoxType
<1>4. (b # c => box'[b] = box[b]) /\ (b = c => box'[b] = y)
  BY <1>1, <1>2 DEF TypeOK
<1> QED
  BY <1>3, <1>4

LEMMA AgesStay ==
  ASSUME TypeOK, Shapes, LeasesAreLocked, BoxesAreLabelled, AgesHold, [Next]_vars
  PROVE  AgesHold'
<1>1. CASE \E u \in Workers : WorkerStep(u)
  BY <1>1, WorkerStaysYoung
<1>2. ASSUME UNCHANGED proc, \A b \in Boxes : Fades(b)
      PROVE  AgesHold'
  <2>1. \A b \in Boxes : box'[b].state = "running" => ~box'[b].old
    BY <1>2 DEF AgesHold, Fades
  <2>2. ASSUME NEW v \in Workers, NEW x \in proc'[v].seen, x.state # "running", x.old
        PROVE  /\ box'[x.box].state # "running"
               /\ box'[x.box].state # "none" => box'[x.box].old
    <3>1. x \in proc[v].seen /\ x.box \in Boxes
      BY <1>2, <2>2, SightIsBox
    <3> QED
      BY <1>2, <2>2, <3>1 DEF AgesHold, Fades
  <2>3. ASSUME NEW w \in Workers, proc'[w].pc \in {"create", "start"}, NEW b \in MineSet(w)', box'[b].state # "none"
        PROVE  ~box'[b].old
    <3>1. b \in MineSet(w) /\ b \in Boxes
      BY <1>2, <2>3, SameRecord, LeaseIsSlot
    <3> QED
      BY <1>2, <2>3, <3>1 DEF AgesHold, Fades
  <2>4. ASSUME NEW w \in Workers, proc'[w].pc = "repairing", box'[proc'[w].target].state # "none"
        PROVE  ~box'[proc'[w].target].old
    <3>1. proc[w].target \in Boxes /\ proc[w].pc = "repairing"
      BY <1>2, <2>4 DEF TypeOK, ProcType, Shapes, Shaped
    <3> QED
      BY <1>2, <2>4, <3>1 DEF AgesHold, Fades
  <2> QED
    BY <2>1, <2>2, <2>3, <2>4 DEF AgesHold
<1>3. ASSUME NEW c \in Boxes, ContainerExits(c)
      PROVE  AgesHold'
  BY <1>2, <1>3, StopFades DEF ContainerExits
<1>4. CASE UNCHANGED <<proc, box>>
  BY <1>2, <1>4 DEF Fades
<1>5. ASSUME NEW c \in Boxes, ContainerAges(c)
      PROVE  AgesHold'
  <2>0. /\ UNCHANGED proc /\ box[c].state # "running"
        /\ \A w \in Workers : proc[w].pc \in {"create", "start"} => c \notin MineSet(w)
        /\ \A w \in Workers : proc[w].pc = "repairing" => c # proc[w].target
    BY <1>5 DEF ContainerAges
  <2>1. \A b \in Boxes : box'[b].state = "running" => ~box'[b].old
    BY <1>5, <2>0, AgingBoxes DEF AgesHold
  <2>2. ASSUME NEW v \in Workers, NEW x \in proc'[v].seen, x.state # "running", x.old
        PROVE  /\ box'[x.box].state # "running"
               /\ box'[x.box].state # "none" => box'[x.box].old
    <3>1. x \in proc[v].seen /\ x.box \in Boxes
      BY <2>0, <2>2, SightIsBox
    <3> QED
      BY <1>5, <2>2, <3>1, AgingBoxes DEF AgesHold
  <2>3. ASSUME NEW w \in Workers, proc'[w].pc \in {"create", "start"}, NEW b \in MineSet(w)', box'[b].state # "none"
        PROVE  ~box'[b].old
    <3>1. b \in MineSet(w) /\ b \in Boxes /\ b # c /\ proc[w].pc \in {"create", "start"}
      BY <2>0, <2>3, SameRecord, LeaseIsSlot
    <3> QED
      BY <1>5, <2>3, <3>1, AgingBoxes DEF AgesHold
  <2>4. ASSUME NEW w \in Workers, proc'[w].pc = "repairing", box'[proc'[w].target].state # "none"
        PROVE  ~box'[proc'[w].target].old
    <3>1. proc[w].target \in Boxes /\ proc[w].pc = "repairing" /\ c # proc[w].target
      BY <2>0, <2>4 DEF TypeOK, ProcType, Shapes, Shaped
    <3> QED
      BY <1>5, <2>0, <2>4, <3>1, AgingBoxes DEF AgesHold
  <2> QED
    BY <2>1, <2>2, <2>3, <2>4 DEF AgesHold
<1>6. ASSUME NEW u \in Workers, WorkerDies(u)
      PROVE  AgesHold'
  <2>1. /\ proc'[u].pc = "dead" /\ proc'[u].seen = {} /\ UNCHANGED box
        /\ \A y \in Workers : y # u => proc'[y] = proc[y]
    <3>1. Go(u, [IdleProc EXCEPT !.pc = "dead"]) /\ UNCHANGED box
      BY <1>6 DEF WorkerDies
    <3>2. proc'[u] = [IdleProc EXCEPT !.pc = "dead"]
      BY <3>1, GoSets
    <3>3. proc'[u].pc = "dead" /\ proc'[u].seen = {}
      BY <3>2 DEF IdleProc
    <3>4. \A y \in Workers : y # u => proc'[y] = proc[y]
      BY <1>6, DiesMoves DEF Moves
    <3> QED
      BY <3>1, <3>3, <3>4
  <2>2. \A y \in Workers : y # u => MineSet(y)' = MineSet(y)
    BY <2>1, SameRecord
  <2> QED
    BY <2>1, <2>2 DEF AgesHold
<1> QED
  BY <1>1, <1>3, <1>4, <1>5, <1>6 DEF Next, vars, RefreshClaim, ClaimLapses, JobGoes

\* Containers go in the steps of workers only.
LEMMA StepKinds ==
  ASSUME TypeOK, [Next]_vars
  PROVE  \/ \E u \in Workers : (WorkerStep(u) \/ WorkerDies(u)) /\ UNCHANGED forfeited
         \/ /\ UNCHANGED proc /\ forfeited \subseteq forfeited'
            /\ \A b \in Boxes : box'[b].state = "none" => box[b].state = "none"
<1>1. ASSUME NEW c \in Boxes, ContainerExits(c), NEW b \in Boxes, box'[b].state = "none"
      PROVE  box[b].state = "none"
  <2>1. box'[b] = box[b] \/ box'[b] = [box[b] EXCEPT !.state = "exited"]
    BY <1>1 DEF ContainerExits, Stop
  <2> QED
    BY <1>1, <2>1 DEF TypeOK, BoxType
<1>2. ASSUME NEW c \in Boxes, ContainerAges(c), NEW b \in Boxes
      PROVE  box'[b].state = box[b].state
  BY <1>2, AgingBoxes
<1> QED
  BY <1>1, <1>2 DEF Next, vars, RefreshClaim, ClaimLapses, JobGoes, ContainerExits, ContainerAges

LEMMA SidecarsRemain ==
  ASSUME ReconcileInv, [Next]_vars
  PROVE  SidecarsStay'
<1> USE DEF ReconcileInv, WriterInv
<1>0. ASSUME NEW w \in Workers, proc[w].pc = "repairing"
      PROVE  proc[w].target \in Boxes /\ proc[w].target \in Own(w) /\ proc[w].pc \in Containing
  BY <1>0 DEF TypeOK, ProcType, Shapes, Shaped, Own, Containing
<1>1. ASSUME NEW u \in Workers, WorkerStep(u), UNCHANGED forfeited,
             NEW w \in Workers, proc'[w].pc = "repairing", (Me(w) \notin forfeited)'
      PROVE  box'[proc'[w].target].state # "none"
  <2>1. CASE w = u
    BY <1>1, <2>1, WorkerAges
  <2>2. CASE w # u
    <3>1. proc'[w] = proc[w]
      BY <1>1, <2>2, WorkerMoves DEF Moves
    <3>2. Me(w) \notin forfeited /\ proc[w].pc = "repairing"
      BY <1>1, <3>1, SameRecord
    <3>3. /\ proc[w].target \in Own(w) /\ proc[w].pc \in Containing
          /\ box[proc[w].target].state # "none" /\ ~box[proc[w].target].old
      BY <1>0, <3>2 DEF SidecarsStay, AgesHold
    <3>4. box'[proc[w].target].state # "none"
      BY <1>1, <2>2, <3>2, <3>3, OthersLeaveBoxes
    <3> QED
      BY <3>1, <3>4
  <2> QED
    BY <2>1, <2>2
<1>2. ASSUME NEW u \in Workers, WorkerDies(u), UNCHANGED forfeited,
             NEW w \in Workers, proc'[w].pc = "repairing", (Me(w) \notin forfeited)'
      PROVE  box'[proc'[w].target].state # "none"
  <2>1. proc'[u] = [IdleProc EXCEPT !.pc = "dead"] /\ UNCHANGED box
    BY <1>2, GoSets DEF WorkerDies
  <2>2. proc'[u].pc = "dead"
    BY <2>1 DEF IdleProc
  <2>3. proc'[w] = proc[w]
    BY <1>2, <2>2, DiesMoves DEF Moves
  <2> QED
    BY <1>2, <2>1, <2>3, SameRecord DEF SidecarsStay
<1>3. ASSUME UNCHANGED proc, forfeited \subseteq forfeited',
             \A b \in Boxes : box'[b].state = "none" => box[b].state = "none",
             NEW w \in Workers, proc'[w].pc = "repairing", (Me(w) \notin forfeited)'
      PROVE  box'[proc'[w].target].state # "none"
  BY <1>0, <1>3, SameRecord DEF SidecarsStay
<1> QED
  BY <1>1, <1>2, <1>3, StepKinds DEF SidecarsStay

LEMMA InitReconciles == Init => ReconcileInv
<1> SUFFICES ASSUME Init PROVE ReconcileInv
  OBVIOUS
<1>1. WriterInv
  BY InitIsIdle
<1>2. \A w \in Workers : /\ proc[w].pc = "off" /\ proc[w].job = NoJob /\ proc[w].seen = {}
  BY DEF Init, IdleProc
<1>3. \A b \in Boxes : box[b].state = "none"
  BY DEF Init, AbsentBox
<1>4. PromptClaimsHold
  BY <1>2 DEF PromptClaimsHold, Prompt, Executing
<1>5. SightingsHold
  BY <1>2 DEF SightingsHold, Sees, Containing
<1>6. AgesHold /\ SidecarsStay
  BY <1>2, <1>3 DEF AgesHold, SidecarsStay
<1> QED
  BY <1>1, <1>4, <1>5, <1>6 DEF ReconcileInv

\* An attempt whose claim has not lapsed and whose job is not gone holds the claim, no
\* worker has an outdated sight of its containers or is about to kill one, and none of
\* them is old.
THEOREM ReconcileInvariance == Spec => []ReconcileInv
<1>1. WriterInv /\ [Next]_vars => WriterInv'
  BY TypesHold, LocksHold, LabelsHold, UsesHold, WritersHold DEF WriterInv
<1>2. ReconcileInv /\ [Next]_vars => ReconcileInv'
  BY <1>1, PromptClaimsStay, SightingsStay, AgesStay, SidecarsRemain DEF ReconcileInv, WriterInv
<1> QED
  BY <1>2, InitReconciles, PTL DEF Spec

LEMMA PromptStep ==
  ASSUME ReconcileInv, [Next]_vars, NEW w \in Workers, NEW b \in Own(w),
         proc[w].pc \in {"start", "wait", "repairing"}, Me(w) \notin forfeited,
         box[b].state = "running", box'[b].state = "none"
  PROVE  proc'[w] # proc[w]
<1> USE DEF ReconcileInv, WriterInv
<1>0. b \in Boxes /\ proc[w].pc \in Containing /\ box[b].state # "none"
  BY OwnIsBox DEF Containing
<1>1. ASSUME NEW u \in Workers, WorkerStep(u)
      PROVE  proc'[w] # proc[w]
  <2>1. CASE u # w
    BY <1>0, <1>1, <2>1, OthersLeaveBoxes
  <2>2. CASE u = w
    <3>1. ~ \E x \in proc[w].seen : x.box = b /\ x.old /\ x.state # "running"
      BY DEF AgesHold
    <3>2. EndRepair(w)
      <4>1. ~KillContainer(w) /\ ~RemoveContainer(w)
        BY DEF KillContainer, RemoveContainer
      <4> QED
        BY <1>0, <1>1, <2>2, <3>1, <4>1, Removers
    <3> QED
      BY <3>2, EndRepairMoves
  <2> QED
    BY <2>1, <2>2
<1>2. ~ \E u \in Workers : WorkerDies(u)
  BY <1>0 DEF WorkerDies
<1> QED
  BY <1>0, <1>1, <1>2, StepKinds

\* The running containers of an attempt whose claim has not lapsed, and whose job is not
\* gone, are removed by that attempt: a worker that listed the containers before a job was claimed cannot kill
\* those of the claim, as its list does not hold them, and what it lists later has
\* the label of an attempt whose claim it then finds fresh.
THEOREM PromptSafety == Spec => PromptAttemptKeepsContainers
<1>1. ReconcileInv /\ [Next]_vars =>
         [\A w \in Workers : \A b \in MineSet(w) \cup ({proc[w].target} \ {NoBox}) :
             /\ proc[w].pc \in {"start", "wait", "repairing"}
             /\ Me(w) \notin forfeited
             /\ box[b].state = "running"
             /\ box'[b].state = "none"
             => proc'[w] # proc[w]]_vars
  BY PromptStep DEF Own
<1> QED
  BY <1>1, ReconcileInvariance, PTL DEF Spec, PromptAttemptKeepsContainers

-----------------------------------------------------------------------------
(* The work paths come back.                                                   *)

\* The containers about to start write to the slots of the phase.
StartsOnPhase ==
    \A w \in Workers : proc[w].pc \in {"create", "start"} =>
        \A b \in MineSet(w) : box[b].state # "none" =>
            \E i \in DOMAIN PhaseSlots(w) : box[b].slot = PhaseSlots(w)[i]

\* The repair of slot s is still to come.
Repairable(w, s) ==
    /\ proc[w].pc \in {"start", "wait", "repair", "repairing"}
    /\ \E i \in DOMAIN PhaseSlots(w) :
          s = PhaseSlots(w)[i] /\ (proc[w].pc = "start" \/ i >= proc[w].scan)

\* Without failed calls and crashes, a work path with files of other owners is the
\* lease of an attempt, and of a prompt one the repair is still to come.
AwaitsRepair(w) ==
    Me(w) \notin forfeited => \A s \in LeaseSet(w) : s \in rooted => Repairable(w, s)

RootedIsRepaired ==
    faults = 0 /\ Dead = {} =>
        /\ \A s \in rooted : tree[s] \in forfeited \/ \E w \in Workers : s \in LeaseSet(w)
        /\ \A w \in Workers : AwaitsRepair(w)

ReturnInv == ReconcileInv /\ StartsOnPhase /\ RootedIsRepaired

LEMMA SamePhase ==
  ASSUME NEW w \in Workers, proc'[w].job = proc[w].job, proc'[w].phase = proc[w].phase,
         proc'[w].leases = proc[w].leases
  PROVE  PhaseSlots(w)' = PhaseSlots(w)
  BY DEF PhaseSlots, Phase

LEMMA StartsOnPhaseStays ==
  ASSUME TypeOK, Shapes, LeasesAreLocked, BoxesAreLabelled, StartsOnPhase, [Next]_vars
  PROVE  StartsOnPhase'
<1>1. ASSUME NEW u \in Workers, WorkerStep(u), NEW w \in Workers, proc'[w].pc \in {"create", "start"},
             NEW b \in MineSet(w)', box'[b].state # "none"
      PROVE  (\E i \in DOMAIN PhaseSlots(w) : box[b].slot = PhaseSlots(w)[i])'
  <2>1. ASSUME proc[w].pc \in {"create", "start"}, b \in MineSet(w), PhaseSlots(w)' = PhaseSlots(w)
        PROVE  (\E i \in DOMAIN PhaseSlots(w) : box[b].slot = PhaseSlots(w)[i])'
    <3>1. b \in Boxes /\ b \in Own(w)
      BY <2>1, LeaseIsSlot DEF Own
    <3>2. Fades(b) \/ Starts(u, b)
      BY <1>1, <3>1, ArrivesAlone, WorkerBoxes
    <3>3. box[b].state # "none" /\ box'[b].slot = box[b].slot
      BY <1>1, <3>2 DEF Fades, Starts
    <3> QED
      BY <2>1, <3>3 DEF StartsOnPhase
  <2>2. CASE w # u
    <3>1. proc'[w] = proc[w]
      BY <1>1, <2>2, WorkerMoves DEF Moves
    <3> QED
      BY <1>1, <2>1, <3>1, SamePhase, SameRecord
  <2>3. CASE w = u /\ CreateContainer(w)
    <3>1. PICK c \in FreeBoxes : /\ Creates(proc[w], proc'[w], c) /\ Arrives(w, c)
                                 /\ MineSet(w)' = MineSet(w) \cup {c}
      BY <2>3, CreateArrives
    <3>2. PhaseSlots(w)' = PhaseSlots(w) /\ proc[w].pc = "create"
      BY <3>1, SamePhase DEF Creates
    <3>3. CASE b = c
      BY <3>1, <3>2, <3>3 DEF Arrives
    <3> QED
      BY <1>1, <2>1, <3>1, <3>2, <3>3
  <2>4. CASE w = u /\ Leases(proc[w], proc'[w])
    BY <1>1, <2>4 DEF Leases, MineSet
  <2>5. CASE w = u /\ Continues(proc[w], proc'[w]) /\ proc[w].pc = "start"
    <3>1. /\ proc'[w].job = proc[w].job /\ proc'[w].phase = proc[w].phase
          /\ proc'[w].leases = proc[w].leases /\ proc'[w].mine = proc[w].mine
      BY <1>1, <2>5 DEF Continues, Containing
    <3>2. PhaseSlots(w)' = PhaseSlots(w) /\ b \in MineSet(w)
      BY <1>1, <3>1, SamePhase DEF MineSet
    <3> QED
      BY <2>1, <2>5, <3>2
  <2> QED
    BY <1>1, <2>2, <2>3, <2>4, <2>5, StartsByCreation
<1>2. ASSUME \/ \E u \in Workers : RefreshClaim(u) \/ WorkerDies(u)
             \/ \E j \in Jobs : ClaimLapses(j) \/ JobGoes(j)
             \/ \E c \in Boxes : ContainerExits(c) \/ ContainerAges(c)
             \/ UNCHANGED vars,
             NEW w \in Workers, proc'[w].pc \in {"create", "start"},
             NEW b \in MineSet(w)', box'[b].state # "none"
      PROVE  (\E i \in DOMAIN PhaseSlots(w) : box[b].slot = PhaseSlots(w)[i])'
  <2>1. proc'[w] = proc[w]
    <3>1. ASSUME NEW u \in Workers, WorkerDies(u)
          PROVE  proc'[w] = proc[w]
      <4>1. proc'[u] = [IdleProc EXCEPT !.pc = "dead"]
        BY <3>1, GoSets DEF WorkerDies
      <4>2. proc'[u].pc = "dead"
        BY <4>1 DEF IdleProc
      <4> QED
        BY <1>2, <3>1, <4>2, DiesMoves DEF Moves
    <3> QED
      BY <1>2, <3>1 DEF RefreshClaim, ClaimLapses, JobGoes, ContainerExits, ContainerAges, vars
  <2>2. PhaseSlots(w)' = PhaseSlots(w) /\ b \in MineSet(w) /\ b \in Boxes
    BY <1>2, <2>1, SamePhase, SameRecord, LeaseIsSlot
  <2>3. box[b].state # "none" /\ box'[b].slot = box[b].slot
    BY <1>2, <2>2, OtherBoxes DEF vars
  <2> QED
    BY <1>2, <2>1, <2>2, <2>3 DEF StartsOnPhase
<1> QED
  BY <1>1, <1>2 DEF Next, StartsOnPhase

\* The calls of a phase at each point of it.
LEMMA StepAt ==
  ASSUME NEW w \in Workers, WorkerStep(w)
  PROVE  /\ proc[w].pc # "dead"
         /\ proc[w].pc = "start" => StartContainer(w)
         /\ proc[w].pc = "wait" => WaitEnds(w) \/ WaitTimesOut(w) \/ WaitFails(w)
         /\ proc[w].pc = "repair" => StartRepair(w)
         /\ proc[w].pc = "repairing" => EndRepair(w)
  BY DEF WorkerStep, StartWorker, ReapClaims, ListContainers, SweepContainer, KillContainer,
         MaintenanceFails, SweepEnds, ClaimJob, FindNothing, Prepare, TrySlot, NoSlotLeft, CheckSlot,
         ResetSlot, CreateContainer, CreateFails, StartContainer, WaitEnds, WaitTimesOut, WaitFails,
         StartRepair, EndRepair, RemoveContainer, JudgePhase, Unwind, PersistLog, CleanWorkspace, Report

\* Files of other owners appear on the slot of a container that starts.
LEMMA RootedMoves ==
  ASSUME TypeOK, Shapes, BoxesAreLabelled, NEW w \in Workers, WorkerStep(w),
         NEW s \in rooted', s \notin rooted
  PROVE  /\ StartContainer(w) /\ proc[w].pc = "start" /\ s \in LeaseSet(w)
         /\ \E b \in MineSet(w) : box[b].state # "none" /\ s = box[b].slot
<1>1. StartContainer(w) /\ ~UNCHANGED rooted
  BY RootedWriters DEF EndRepair
<1>2. /\ proc[w].pc = "start" /\ box[proc[w].mine[proc[w].scan]].state = "created"
      /\ s = box[proc[w].mine[proc[w].scan]].slot
  BY <1>1 DEF StartContainer
<1>3. proc[w].mine[proc[w].scan] \in MineSet(w)
  <2>1. proc[w].scan \in 1..Len(proc[w].mine)
    BY <1>1, StartMoves
  <2>2. DOMAIN proc[w].mine = 1..Len(proc[w].mine)
    BY LenProperties DEF TypeOK, ProcType
  <2> QED
    BY <2>1, <2>2 DEF MineSet
<1>4. PICK b \in MineSet(w) : b = proc[w].mine[proc[w].scan]
  BY <1>3
<1>5. b \in Boxes /\ b \in Own(w)
  BY <1>4, LeaseIsSlot DEF Own
<1>6. s \in LeaseSet(w)
  BY <1>2, <1>4, <1>5 DEF BoxesAreLabelled, Containing
<1> QED
  BY <1>1, <1>2, <1>4, <1>6

\* The leases of a step are those before it and slots whose work path was reset.
LEMMA LeasesGrow ==
  ASSUME TypeOK, Shapes, LeasesAreLocked, BoxesAreLabelled, NEW w \in Workers, WorkerStep(w)
  PROVE  \/ LeaseSet(w)' = {}
         \/ /\ Me(w)' = Me(w)
            /\ \A s \in LeaseSet(w)' : s \in LeaseSet(w) \/ s \notin rooted
<1>1. CASE Continues(proc[w], proc'[w])
  BY <1>1 DEF Continues, LeaseSet, Me
<1>2. CASE Drops(proc'[w])
  BY <1>2, DroppedStayLocked
<1>3. CASE Inspects(proc[w], proc'[w])
  BY <1>3 DEF Inspects, LeaseSet, Me
<1>4. CASE ResetSlot(w) /\ Leases(proc[w], proc'[w])
  BY <1>4, NewLease
<1>5. CASE CreateContainer(w)
  <2>1. PICK b : Creates(proc[w], proc'[w], b)
    BY <1>5, CreateArrives
  <2> QED
    BY <2>1 DEF Creates, LeaseSet, Me
<1>6. CASE \E b \in FreeBoxes : Repairs(proc[w], proc'[w], b)
  BY <1>6 DEF Repairs, LeaseSet, Me
<1>7. CASE Sheds(proc[w], proc'[w]) /\ LeaseSet(w)' \subseteq LeaseSet(w)
  BY <1>7 DEF Sheds, Me
<1> QED
  BY <1>1, <1>2, <1>3, <1>4, <1>5, <1>6, <1>7, WorkerLeases

\* A work path that cannot be removed stays the tree of its attempt.
LEMMA RootedKeepsTree ==
  ASSUME TypeOK, Shapes, NEW w \in Workers, WorkerStep(w), NEW s \in rooted
  PROVE  tree'[s] = tree[s]
<1>1. s \in Slots
  BY DEF TypeOK
<1>2. CASE UNCHANGED tree
  BY <1>2
<1>3. CASE ResetSlot(w)
  BY <1>1, <1>3, ResetMoves DEF TypeOK
<1>4. CASE JudgePhase(w) \/ Unwind(w)
  BY <1>1, <1>4 DEF JudgePhase, Unwind, Dropped
<1> QED
  BY <1>2, <1>3, <1>4, LockWriters

\* A container of the phase starts, or does not and the repair begins.
LEMMA StartAwaits ==
  ASSUME ReconcileInv, StartsOnPhase, NEW w \in Workers, AwaitsRepair(w), WorkerStep(w),
         StartContainer(w), Me(w) \notin forfeited, NEW s \in LeaseSet(w)', s \in rooted'
  PROVE  Repairable(w, s)'
<1> USE DEF ReconcileInv, WriterInv
<1>1. /\ Continues(proc[w], proc'[w]) /\ proc[w].pc = "start"
      /\ proc'[w].pc = "start" \/ (proc'[w].pc \in {"wait", "repair"} /\ proc'[w].scan = 1)
  BY StartMoves
<1>2. /\ proc'[w].leases = proc[w].leases /\ proc'[w].job = proc[w].job
      /\ proc'[w].phase = proc[w].phase
  BY <1>1 DEF Continues, Containing
<1>3. LeaseSet(w)' = LeaseSet(w) /\ PhaseSlots(w)' = PhaseSlots(w)
  BY <1>2, SamePhase DEF LeaseSet
<1>4. PICK i \in DOMAIN PhaseSlots(w) : s = PhaseSlots(w)[i]
  <2>1. CASE s \in rooted
    BY <1>3, <2>1 DEF AwaitsRepair, Repairable
  <2>2. CASE s \notin rooted
    <3>1. PICK b \in MineSet(w) : box[b].state # "none" /\ s = box[b].slot
      BY <2>2, RootedMoves
    <3> QED
      BY <1>1, <3>1 DEF StartsOnPhase
  <2> QED
    BY <2>1, <2>2
<1>5. i >= 1
  <2>1. DOMAIN PhaseSlots(w) = 1..Len(PhaseSlots(w)) /\ Len(PhaseSlots(w)) \in Nat
    BY <1>1, PhaseSlotsAreLeased DEF Containing
  <2> QED
    BY <2>1
<1> QED
  BY <1>1, <1>3, <1>4, <1>5 DEF Repairable

LEMMA WaitAwaits ==
  ASSUME TypeOK, Shapes, NEW w \in Workers, AwaitsRepair(w), proc[w].pc = "wait",
         WaitEnds(w) \/ WaitTimesOut(w) \/ WaitFails(w),
         Me(w) \notin forfeited, NEW s \in LeaseSet(w)', s \in rooted'
  PROVE  Repairable(w, s)'
<1>1. Continues(proc[w], proc'[w]) /\ proc'[w].pc = "repair" /\ proc'[w].scan = 1
  BY RepairMoves
<1>2. /\ proc'[w].leases = proc[w].leases /\ proc'[w].job = proc[w].job
      /\ proc'[w].phase = proc[w].phase /\ proc[w].scan = 1
  BY <1>1 DEF Continues, Containing, Shapes, Shaped
<1>3. LeaseSet(w)' = LeaseSet(w) /\ PhaseSlots(w)' = PhaseSlots(w) /\ UNCHANGED rooted
  BY <1>2, SamePhase DEF LeaseSet, WaitEnds, WaitTimesOut, WaitFails
<1> QED
  BY <1>1, <1>2, <1>3 DEF AwaitsRepair, Repairable

\* The next mount of a phase is repaired, or all are.
LEMMA RepairAwaits ==
  ASSUME TypeOK, Shapes, NEW w \in Workers, AwaitsRepair(w), StartRepair(w), ~Fault,
         Me(w) \notin forfeited, NEW s \in LeaseSet(w)', s \in rooted'
  PROVE  Repairable(w, s)'
<1>0. UNCHANGED rooted /\ proc[w].pc = "repair"
  BY DEF StartRepair
<1>1. DOMAIN PhaseSlots(w) = 1..Len(PhaseSlots(w)) /\ Len(PhaseSlots(w)) \in Nat /\ proc[w].scan \in Nat
  BY <1>0, PhaseSlotsAreLeased DEF Containing, TypeOK, ProcType
<1>2. CASE Continues(proc[w], proc'[w]) /\ proc[w].scan > Len(PhaseSlots(w))
  <2>1. s \in LeaseSet(w)
    BY <1>2 DEF Continues, LeaseSet
  <2>2. PICK i \in DOMAIN PhaseSlots(w) : i >= proc[w].scan
    BY <1>0, <2>1 DEF AwaitsRepair, Repairable
  <2> QED
    BY <1>1, <1>2, <2>2
<1>3. ASSUME NEW b, Repairs(proc[w], proc'[w], b)
      PROVE  Repairable(w, s)'
  <2>1. /\ proc'[w].pc = "repairing" /\ proc'[w].leases = proc[w].leases /\ proc'[w].job = proc[w].job
        /\ proc'[w].phase = proc[w].phase /\ proc'[w].scan = proc[w].scan
    BY <1>3 DEF Repairs
  <2>2. LeaseSet(w)' = LeaseSet(w) /\ PhaseSlots(w)' = PhaseSlots(w)
    BY <2>1, SamePhase DEF LeaseSet
  <2> QED
    BY <1>0, <2>1, <2>2 DEF AwaitsRepair, Repairable
<1> QED
  BY <1>2, <1>3, StartRepairMoves

LEMMA EndAwaits ==
  ASSUME ReconcileInv, NEW w \in Workers, AwaitsRepair(w), EndRepair(w), ~Fault,
         Me(w) \notin forfeited, NEW s \in LeaseSet(w)', s \in rooted'
  PROVE  Repairable(w, s)'
<1> USE DEF ReconcileInv, WriterInv
<1>1. /\ proc[w].pc = "repairing" /\ proc'[w].pc = "repair" /\ proc'[w].scan = proc[w].scan + 1
      /\ proc'[w].leases = proc[w].leases /\ proc'[w].job = proc[w].job
      /\ proc'[w].phase = proc[w].phase
  BY EndRepairMoves DEF Continues, Containing
<1>2. LeaseSet(w)' = LeaseSet(w) /\ PhaseSlots(w)' = PhaseSlots(w)
  BY <1>1, SamePhase DEF LeaseSet
<1>3. rooted' = rooted \ {PhaseSlots(w)[proc[w].scan]}
  <2>1. box[proc[w].target].state # "none"
    BY <1>1 DEF SidecarsStay
  <2> QED
    BY <2>1 DEF EndRepair
<1>4. PICK i \in DOMAIN PhaseSlots(w) : i >= proc[w].scan /\ s = PhaseSlots(w)[i]
  BY <1>1, <1>2, <1>3 DEF AwaitsRepair, Repairable
<1>5. i # proc[w].scan
  BY <1>3, <1>4
<1>6. DOMAIN PhaseSlots(w) = 1..Len(PhaseSlots(w)) /\ Len(PhaseSlots(w)) \in Nat /\ proc[w].scan \in Nat
  BY <1>1, PhaseSlotsAreLeased DEF Containing, TypeOK, ProcType
<1>7. i >= proc[w].scan + 1
  BY <1>4, <1>5, <1>6
<1> QED
  BY <1>1, <1>2, <1>4, <1>7 DEF Repairable

\* The worker that takes a step.
LEMMA WorkerAwaits ==
  ASSUME ReconcileInv, StartsOnPhase, NEW w \in Workers, WorkerStep(w), UNCHANGED forfeited, ~Fault,
         AwaitsRepair(w)
  PROVE  AwaitsRepair(w)'
<1> USE DEF ReconcileInv, WriterInv
<1> SUFFICES ASSUME (Me(w) \notin forfeited)', NEW s \in LeaseSet(w)', s \in rooted'
             PROVE  Repairable(w, s)'
  BY DEF AwaitsRepair
<1>1. Me(w)' = Me(w) /\ (s \in LeaseSet(w) \/ s \notin rooted)
  BY LeasesGrow
<1>2. Me(w) \notin forfeited
  BY <1>1
<1>3. CASE proc[w].pc \in {"start", "wait", "repair", "repairing"}
  BY <1>2, <1>3, StepAt, StartAwaits, WaitAwaits, RepairAwaits, EndAwaits
<1>4. CASE proc[w].pc \notin {"start", "wait", "repair", "repairing"}
  <2>1. s \in rooted
    BY <1>4, RootedMoves
  <2> QED
    BY <1>1, <1>2, <1>4, <2>1 DEF AwaitsRepair, Repairable
<1> QED
  BY <1>3, <1>4

\* The workers that take no step.
LEMMA OthersAwait ==
  ASSUME ReconcileInv, NEW u \in Workers, WorkerStep(u), UNCHANGED forfeited,
         NEW w \in Workers, w # u, AwaitsRepair(w)
  PROVE  AwaitsRepair(w)'
<1> USE DEF ReconcileInv, WriterInv
<1>1. proc'[w] = proc[w]
  BY WorkerMoves DEF Moves
<1>2. /\ LeaseSet(w)' = LeaseSet(w) /\ Me(w)' = Me(w) /\ PhaseSlots(w)' = PhaseSlots(w)
  BY <1>1, SameRecord, SamePhase
<1>3. \A s \in LeaseSet(w) : s \in rooted' => s \in rooted
  BY RootedMoves DEF LeasesAreLocked, Locked
<1> QED
  BY <1>1, <1>2, <1>3 DEF AwaitsRepair, Repairable

\* A slot that holds files of other owners after a step of u.
LEMMA RootedStaysLeased ==
  ASSUME ReconcileInv, NEW u \in Workers, WorkerStep(u), UNCHANGED forfeited, AwaitsRepair(u),
         \A s \in rooted : tree[s] \in forfeited \/ \E w \in Workers : s \in LeaseSet(w),
         NEW s \in rooted'
  PROVE  tree'[s] \in forfeited' \/ (\E w \in Workers : s \in LeaseSet(w))'
<1> USE DEF ReconcileInv, WriterInv
<1>1. \A w \in Workers : w # u => LeaseSet(w)' = LeaseSet(w)
  BY WorkerMoves, SameRecord DEF Moves
<1>2. CASE s \notin rooted
  <2>1. proc'[u].leases = proc[u].leases /\ s \in LeaseSet(u)
    BY <1>2, RootedMoves, StartMoves DEF Continues
  <2>2. s \in LeaseSet(u)'
    BY <2>1 DEF LeaseSet
  <2> QED
    BY <2>2
<1>3. CASE s \in rooted
  <2>1. tree'[s] = tree[s]
    BY <1>3, RootedKeepsTree
  <2>2. CASE s \in LeaseSet(u) /\ s \notin LeaseSet(u)'
    <3>1. CASE Me(u) \in forfeited
      BY <2>1, <2>2, <3>1 DEF LeasesAreLocked, Locked
    <3>2. CASE Me(u) \notin forfeited
      <4>1. proc[u].pc \in {"start", "wait", "repair", "repairing"}
        BY <1>3, <2>2, <3>2 DEF AwaitsRepair, Repairable
      <4>2. proc'[u].leases = proc[u].leases
        <5>1. CASE proc[u].pc \in {"start", "wait"}
          BY <5>1, StepAt, StartMoves, RepairMoves DEF Continues
        <5>2. CASE proc[u].pc \in {"repair", "repairing"}
          BY <5>2, StepAt, StartRepairMoves, EndRepairMoves DEF Continues, Repairs
        <5> QED
          BY <4>1, <5>1, <5>2
      <4> QED
        BY <2>2, <4>2 DEF LeaseSet
    <3> QED
      BY <3>1, <3>2
  <2>3. CASE \E w \in Workers : s \in LeaseSet(w)'
    BY <2>3
  <2>4. CASE \A w \in Workers : s \notin LeaseSet(w)
    BY <1>3, <2>1, <2>4
  <2> QED
    BY <1>1, <2>2, <2>3, <2>4
<1> QED
  BY <1>2, <1>3

LEMMA RepairsHold ==
  ASSUME ReconcileInv, StartsOnPhase, RootedIsRepaired, [Next]_vars
  PROVE  RootedIsRepaired'
<1> USE DEF ReconcileInv, WriterInv
<1>1. ASSUME NEW u \in Workers, WorkerStep(u), UNCHANGED forfeited
      PROVE  RootedIsRepaired'
  <2> SUFFICES ASSUME faults' = 0, Dead' = {}
               PROVE  /\ \A s \in rooted' : tree'[s] \in forfeited' \/ (\E w \in Workers : s \in LeaseSet(w))'
                      /\ \A w \in Workers : AwaitsRepair(w)'
    BY DEF RootedIsRepaired
  <2>1. ~Fault /\ faults = 0
    <3>1. faults \in Nat
      BY BoundsAssumption DEF TypeOK
    <3>2. ~Fault
      BY <3>1 DEF Fault
    <3> QED
      BY <1>1, <3>2, FaultWriters
  <2>2. Dead = {}
    <3>1. \A w \in Workers : w # u => proc'[w] = proc[w]
      BY <1>1, WorkerMoves DEF Moves
    <3>2. proc[u].pc # "dead"
      BY <1>1, StepAt
    <3> QED
      BY <3>1, <3>2 DEF Dead
  <2>3. /\ \A s \in rooted : tree[s] \in forfeited \/ \E w \in Workers : s \in LeaseSet(w)
        /\ \A w \in Workers : AwaitsRepair(w)
    BY <2>1, <2>2 DEF RootedIsRepaired
  <2>4. \A w \in Workers : AwaitsRepair(w)'
    BY <1>1, <2>1, <2>3, WorkerAwaits, OthersAwait
  <2>5. \A s \in rooted' : tree'[s] \in forfeited' \/ (\E w \in Workers : s \in LeaseSet(w))'
    BY <1>1, <2>3, RootedStaysLeased
  <2> QED
    BY <2>4, <2>5
<1>2. ASSUME NEW u \in Workers, WorkerDies(u)
      PROVE  RootedIsRepaired'
  <2>1. proc'[u] = [IdleProc EXCEPT !.pc = "dead"]
    BY <1>2, GoSets DEF WorkerDies
  <2>2. proc'[u].pc = "dead"
    BY <2>1 DEF IdleProc
  <2> QED
    BY <2>2 DEF RootedIsRepaired, Dead
<1>3. ASSUME UNCHANGED <<proc, tree, rooted, faults>>, forfeited \subseteq forfeited'
      PROVE  RootedIsRepaired'
  <2>1. \A w \in Workers : LeaseSet(w)' = LeaseSet(w) /\ Me(w)' = Me(w) /\ PhaseSlots(w)' = PhaseSlots(w)
    BY <1>3, SameRecord, SamePhase
  <2>2. \A w \in Workers : AwaitsRepair(w) => AwaitsRepair(w)'
    BY <1>3, <2>1 DEF AwaitsRepair, Repairable
  <2> QED
    BY <1>3, <2>1, <2>2 DEF RootedIsRepaired, Dead
<1>4. \/ \E u \in Workers : WorkerStep(u) /\ UNCHANGED forfeited
      \/ \E u \in Workers : WorkerDies(u)
      \/ UNCHANGED <<proc, tree, rooted, faults>> /\ forfeited \subseteq forfeited'
  BY DEF Next, vars, RefreshClaim, ClaimLapses, JobGoes, ContainerExits, ContainerAges
<1> QED
  BY <1>1, <1>2, <1>3, <1>4

\* As long as no call fails and no worker dies, files of other owners are on leases
\* only, and where the attempt has not forfeited its claim their repair is still to come.
THEOREM ReturnInvariance == Spec => []ReturnInv
<1>1. Init => ReturnInv
  <2> SUFFICES ASSUME Init PROVE ReturnInv
    OBVIOUS
  <2>1. ReconcileInv
    BY InitReconciles
  <2>2. rooted = {} /\ \A w \in Workers : proc[w].pc = "off"
    BY DEF Init, IdleProc
  <2>3. StartsOnPhase /\ RootedIsRepaired
    BY <2>2 DEF StartsOnPhase, RootedIsRepaired, AwaitsRepair
  <2> QED
    BY <2>1, <2>3 DEF ReturnInv
<1>2. WriterInv /\ [Next]_vars => WriterInv'
  BY TypesHold, LocksHold, LabelsHold, UsesHold, WritersHold DEF WriterInv
<1>3. ReconcileInv /\ [Next]_vars => ReconcileInv'
  BY <1>2, PromptClaimsStay, SightingsStay, AgesStay, SidecarsRemain DEF ReconcileInv, WriterInv
<1>4. ReturnInv /\ [Next]_vars => ReturnInv'
  BY <1>3, StartsOnPhaseStays, RepairsHold DEF ReturnInv, ReconcileInv, WriterInv
<1> QED
  BY <1>1, <1>4, PTL DEF Spec

\* A slot whose files the host cannot remove is in use, or was lost to a dead worker,
\* a failed call, or a claim that lapsed or went with its job: the repair follows the
\* timeout and the failure of a phase as it follows its end, and comes before the lease
\* is dropped.
THEOREM ReturnSafety == Spec => []SlotsAreReturned
<1>1. ReturnInv => SlotsAreReturned
  <2> SUFFICES ASSUME ReturnInv, NEW s \in rooted, faults = 0, Dead = {}, tree[s] \notin forfeited
               PROVE  lock[s] # NoWorker
    <3>1. ReturnInv => faults = 0 \/ faults > 0
      BY BoundsAssumption DEF ReturnInv, ReconcileInv, WriterInv, TypeOK
    <3> QED
      BY <3>1 DEF SlotsAreReturned
  <2>1. PICK w \in Workers : s \in LeaseSet(w)
    BY DEF ReturnInv, RootedIsRepaired
  <2>2. lock[s] = w
    BY <2>1 DEF ReturnInv, ReconcileInv, WriterInv, LeasesAreLocked, Locked
  <2> QED
    BY <2>2, JobClaimsAssumption
<1> QED
  BY <1>1, ReturnInvariance, PTL

=============================================================================
