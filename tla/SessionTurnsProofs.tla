--------------------------- MODULE SessionTurnsProofs ---------------------------
(***************************************************************************)
(* What the run lock is for: one run at a time moves the conversation.     *)
(* From it follow the types of the session, that a wake run has something  *)
(* to say, and that the drains keep the conversation well formed; for any  *)
(* number of runs and messages, any scenes and caps.  At the end: what the *)
(* gate is for, by an invariant of its own.                                *)
(***************************************************************************)
EXTENDS SessionRuns, TLAPS

Chained == {"queued"} \union Inside

(* Inside a turn that has been counted and has taken what it begins with.  *)
Turning == Inside \ {"assembling", "boundary", "settling"}

(* runChain is a queue without repetition of all who wait for the lock or   *)
(* have it, and who has it is at its head; so is a wake run from the start. *)
Lock ==
    /\ \A i \in 1..Len(chain) : runs[chain[i]].pc \in Chained
    /\ \A i, j \in 1..Len(chain) : chain[i] = chain[j] => i = j
    /\ \A r \in Runs : runs[r].pc \in Chained => \E i \in 1..Len(chain) : chain[i] = r
    /\ \A r \in Runs : \/ runs[r].pc \in Inside
                       \/ runs[r].pc \in Chained /\ runs[r].kind = "wake"
                       => chain[1] = r

(* A resume is the only one in flight, and its interruption stays stored   *)
(* until it settles.                                                       *)
OneResume ==
    /\ \A q, r \in InFlight : runs[q].kind = "resume" /\ runs[r].kind = "resume" => q = r
    /\ \A r \in Runs : runs[r].pc = "reading" => runs[r].kind = "resume"

Resumes ==
    /\ OneResume
    /\ \A r \in Runs : runs[r].kind = "resume" /\ runs[r].pc \in Chained => intr # 0

(* The loop's locals in the run that has the lock.                         *)
LoopOf(r) ==
    /\ runs[r].pc = "boundary" /\ loop.resuming =>
          ~loop.drain /\ ~loop.first /\ loop.turns # 0
    /\ runs[r].pc \in Turning => loop.turns # 0 /\ ~loop.first
    /\ runs[r].pc \in {"model", "tools"} => loop.steps # 0
    /\ runs[r].pc = "hook" => loop.stop \in {"end_turn", "error"}
    /\ runs[r].pc = "rejected" => loop.stop \in {"thrown", "blocked"}
    /\ runs[r].pc \in {"gates", "handing"} => ~loop.resuming

(* The end of the conversation while this run has the lock.                *)
EndingOf(r) ==
    /\ runs[r].pc = "assembling" => tail # "prompt" /\ (tail = "calls" => intr # 0)
    /\ runs[r].pc = "boundary" => /\ tail = "calls" => loop.resuming
                                  /\ tail = "prompt" => ~loop.drain /\ ~loop.resuming
    /\ runs[r].pc = "preparing" => tail # IF loop.resuming THEN "prompt" ELSE "calls"
    /\ runs[r].pc \in {"batch", "asking", "pausing"} => tail # "prompt"
    /\ runs[r].pc \in {"top", "model"} => tail # "calls"
    /\ runs[r].pc = "tools" => tail = "calls"
    /\ runs[r].pc \in {"hook", "gates", "handing"} => tail = "quiet"
    /\ runs[r].pc = "returned" => /\ loop.stop = "interrupt" => tail # "prompt"
                                  /\ loop.stop \in {"end_turn", "handoff"} => tail = "quiet"
    /\ tail = "prompt" => intr = 0

TailOf(r) ==
    /\ claimed \/ EndingOf(r)
    /\ runs[r].kind # "resume" /\ runs[r].pc \notin {"assembling", "settling"} => intr = 0

(* A wake run finds what it was started for on the bus, or has taken it.   *)
InputOf(r) ==
    runs[r].kind = "wake" =>
        /\ runs[r].pc \in {"queued", "assembling"} => hasItems
        /\ runs[r].pc = "boundary" => runs[r].fed \/ (loop.drain /\ loop.first /\ hasItems)
        /\ runs[r].pc \in Turning => runs[r].fed

Between ==
    (\A r \in Runs : runs[r].pc \notin Inside)
        => claimed \/ (tail # "prompt" /\ (tail = "calls" => intr # 0))

Inv ==
    /\ Lock
    /\ Resumes
    /\ \A r \in Runs : runs[r].pc \in Inside => LoopOf(r) /\ TailOf(r)
    /\ \A r \in Runs : InputOf(r)
    /\ Between

---------------------------------------------------------------------------
(* A step of a run that has, or gets, the lock and keeps it.               *)
Keeps(r) ==
    /\ runs[r].pc \in Inside \/ (runs[r].pc = "queued" /\ chain[1] = r)
    /\ runs'[r].pc \in Inside
    /\ runs'[r].kind = runs[r].kind
    /\ \A q \in Runs \ {r} : runs'[q] = runs[q]
    /\ UNCHANGED chain
    /\ intr # 0 => intr' # 0

(* What is to be shown of each of these steps.                             *)
Does(r) == TypeOK' /\ Keeps(r) /\ LoopOf(r)' /\ TailOf(r)' /\ InputOf(r)'

LEMMA DoesKeepsInv ==
    ASSUME TypeOK, Inv, NEW r \in Runs, Does(r)
    PROVE  TypeOK' /\ Inv'
<1>1. chain[1] = r
  BY DEF Does, Keeps, Inv, Lock
<1>2. Lock'
  <2>1. \A q \in Runs : runs'[q].kind = runs[q].kind
    BY DEF Does, Keeps
  <2>2. \A q \in Runs : runs'[q].pc \in Chained <=> runs[q].pc \in Chained
    BY DEF Does, Keeps, Chained
  <2>3. \A q \in Runs \ {r} : runs'[q].pc = runs[q].pc
    BY DEF Does, Keeps
  <2>4. \A i \in 1..Len(chain) : chain[i] \in Runs
    BY DEF TypeOK
  <2>5. chain' = chain
    BY DEF Does, Keeps
  <2>6. \A q \in Runs : \/ runs'[q].pc \in Inside
                        \/ runs'[q].pc \in Chained /\ runs'[q].kind = "wake"
                        => chain[1] = q
    BY <1>1, <2>1, <2>3 DEF Inv, Lock
  <2> QED
    BY <2>2, <2>4, <2>5, <2>6 DEF Inv, Lock
<1>3. \A q \in Runs \ {r} : runs'[q].pc \notin Inside
  BY <1>1, <1>2 DEF Does, Keeps, Lock
<1>4. Resumes'
  <2>1. InFlight' = InFlight /\ r \in InFlight
    BY DEF InFlight, Does, Keeps, Inside
  <2>2. \A q \in Runs : runs'[q].kind = runs[q].kind
    BY DEF Does, Keeps
  <2>3. \A q \in Runs : runs'[q].pc \in Chained <=> runs[q].pc \in Chained
    BY DEF Does, Keeps, Chained
  <2>4. intr # 0 => intr' # 0
    BY DEF Does, Keeps
  <2>5. \A p, q \in InFlight : runs'[p].kind = "resume" /\ runs'[q].kind = "resume" => p = q
    BY <2>2 DEF InFlight, Inv, Resumes, OneResume
  <2>6. \A q \in Runs : runs'[q].kind = "resume" /\ runs'[q].pc \in Chained => intr' # 0
    BY <2>2, <2>3, <2>4 DEF Inv, Resumes
  <2>7. \A q \in Runs : runs'[q].pc = "reading" => runs'[q].kind = "resume"
    BY <2>2 DEF Does, Keeps, Inside, Inv, Resumes, OneResume
  <2> QED
    BY <2>1, <2>5, <2>6, <2>7 DEF Resumes, OneResume
<1>5. \A q \in Runs : InputOf(q)'
  <2> SUFFICES ASSUME NEW q \in Runs PROVE InputOf(q)'
    OBVIOUS
  <2>1. CASE q = r
    BY <2>1 DEF Does
  <2>2. CASE q # r
    <3>1. runs'[q].kind = "wake" => runs'[q].pc \notin Chained
      BY <1>1, <1>2, <2>2 DEF Does, Keeps, Lock
    <3> QED
      BY <3>1 DEF InputOf, Chained, Turning, Inside
  <2> QED
    BY <2>1, <2>2
<1>6. Between'
  <2>1. runs'[r].pc \in Inside
    BY DEF Does, Keeps
  <2> QED
    BY <2>1 DEF Between
<1>7. \A q \in Runs : runs'[q].pc \in Inside => LoopOf(q)' /\ TailOf(q)'
  BY <1>3 DEF Does
<1> QED
  BY <1>2, <1>4, <1>5, <1>6, <1>7 DEF Inv, Does

RunType == [pc : Places, kind : {"prompt", "wake", "resume"}, aborted : BOOLEAN,
            result : Results, fed : BOOLEAN]
LoopType == [turns : 0..MaxTurns, drain : BOOLEAN, first : BOOLEAN,
             resuming : BOOLEAN, steps : 0..MaxSteps,
             recoveries : 0..MAX_STEP_RECOVERIES_PER_TURN, stop : Stops]

(* The run of a step moves to pc, and nothing else about the runs changes  *)
(* but its result and what it has been fed.                                *)
MovedTo(r, pc) ==
    /\ runs' \in [Runs -> RunType]
    /\ runs'[r].pc = pc /\ runs'[r].kind = runs[r].kind
    /\ runs[r].fed => runs'[r].fed
    /\ \A q \in Runs \ {r} : runs'[q] = runs[q]

LEMMA GoMoves ==
    ASSUME TypeOK, NEW r \in Runs, NEW pc \in Places, Go(r, pc)
    PROVE  MovedTo(r, pc)
BY DEF TypeOK, Go, MovedTo, RunType

LEMMA PutMoves ==
    ASSUME TypeOK, NEW r \in Runs, NEW run \in RunType, runs' = [runs EXCEPT ![r] = run],
           run.kind = runs[r].kind, runs[r].fed => run.fed
    PROVE  MovedTo(r, run.pc) /\ runs'[r] = run
BY DEF TypeOK, MovedTo, RunType

LEMMA EndsMoves ==
    ASSUME TypeOK, NEW r \in Runs, NEW result \in Results, Ends(r, result)
    PROVE  MovedTo(r, "settling") /\ runs'[r].result = result
<1> DEFINE placed == [runs[r] EXCEPT !.pc = "settling"]
           run == [placed EXCEPT !.result = result]
<1>1. runs[r] \in RunType
  BY DEF TypeOK, RunType
<1>2. placed \in RunType /\ placed.kind = runs[r].kind /\ placed.fed = runs[r].fed
      /\ placed.pc = "settling"
  BY <1>1 DEF RunType, Places, Inside
<1>3. run \in RunType /\ run.kind = placed.kind /\ run.fed = placed.fed
      /\ run.pc = placed.pc /\ run.result = result
  <2> HIDE DEF placed
  <2> QED BY <1>2 DEF RunType
<1>4. runs' = [runs EXCEPT ![r] = run]
  BY <1>1 DEF Ends, TypeOK
<1> HIDE DEF run
<1>5. MovedTo(r, run.pc) /\ runs'[r] = run
  BY <1>2, <1>3, <1>4, PutMoves
<1> QED
  BY <1>2, <1>3, <1>5

LEMMA TakeMoves ==
    ASSUME TypeOK, NEW r \in Runs, NEW drained, NEW pc \in Places, Take(r, drained, pc)
    PROVE  /\ MovedTo(r, pc)
           /\ drained # {} => runs'[r].fed
           /\ place' \in [Messages -> {"out", "steering", "followUp", "taken"}]
<1> DEFINE placed == [runs[r] EXCEPT !.pc = pc]
           fed == runs[r].fed \/ drained # {}
           run == [placed EXCEPT !.fed = fed]
<1>1. runs[r] \in RunType
  BY DEF TypeOK, RunType
<1>2. placed \in RunType /\ placed.kind = runs[r].kind /\ placed.pc = pc
  BY <1>1 DEF RunType
<1>3. fed \in BOOLEAN /\ (runs[r].fed => fed) /\ (drained # {} => fed)
  OBVIOUS
<1>4. run \in RunType /\ run.kind = placed.kind /\ run.fed = fed /\ run.pc = placed.pc
  <2> HIDE DEF placed, fed
  <2> QED BY <1>2, <1>3 DEF RunType
<1>5. runs' = [runs EXCEPT ![r] = run]
  BY <1>1 DEF Take, TypeOK
<1>6. MovedTo(r, pc) /\ (drained # {} => runs'[r].fed)
  <2> HIDE DEF run, placed, fed
  <2> QED BY <1>2, <1>3, <1>4, <1>5, PutMoves
<1> QED
  BY <1>6 DEF Take, TypeOK

LEMMA SpendTyped ==
    ASSUME TypeOK, NEW doing \in Doings, Spend(doing)
    PROVE  spent' \in [Doings -> Nat]
BY DEF TypeOK, Spend


(* A turn begins with its locals reset.                                    *)
LEMMA ResetLoop ==
    ASSUME loop \in LoopType,
           loop' = [loop EXCEPT !.steps = 0, !.recoveries = 0, !.stop = "none"]
    PROVE  /\ loop' \in LoopType
           /\ loop'.turns = loop.turns /\ loop'.first = loop.first
           /\ loop'.drain = loop.drain /\ loop'.resuming = loop.resuming
<1> DEFINE l1 == [loop EXCEPT !.steps = 0]
           l2 == [l1 EXCEPT !.recoveries = 0]
           l3 == [l2 EXCEPT !.stop = "none"]
<1>1. /\ l1 \in LoopType
      /\ l1.turns = loop.turns /\ l1.first = loop.first
      /\ l1.drain = loop.drain /\ l1.resuming = loop.resuming
  BY CapsAssumption DEF LoopType
<1>2. /\ l2 \in LoopType
      /\ l2.turns = l1.turns /\ l2.first = l1.first
      /\ l2.drain = l1.drain /\ l2.resuming = l1.resuming
  <2> HIDE DEF l1
  <2> QED BY <1>1 DEF LoopType, MAX_STEP_RECOVERIES_PER_TURN
<1>3. /\ l3 \in LoopType
      /\ l3.turns = l2.turns /\ l3.first = l2.first
      /\ l3.drain = l2.drain /\ l3.resuming = l2.resuming
  <2> HIDE DEF l2
  <2> QED BY <1>2 DEF LoopType, Stops
<1>4. loop' = l3
  OBVIOUS
<1> QED
  <2> HIDE DEF l1, l2, l3
  <2> QED BY <1>1, <1>2, <1>3, <1>4

(* The other ways in which a step leaves the locals of the loop.           *)
LEMMA StopSet ==
    ASSUME loop \in LoopType, NEW stop \in Stops, loop' = [loop EXCEPT !.stop = stop]
    PROVE  /\ loop' \in LoopType /\ loop'.stop = stop
           /\ loop'.turns = loop.turns /\ loop'.first = loop.first
BY DEF LoopType

LEMMA StepCounted ==
    ASSUME loop \in LoopType, loop.steps < MaxSteps,
           loop' = [loop EXCEPT !.steps = @ + 1]
    PROVE  /\ loop' \in LoopType /\ loop'.steps # 0
           /\ loop'.turns = loop.turns /\ loop'.first = loop.first
<1> DEFINE steps == loop.steps + 1
<1>1. loop.steps \in 0..MaxSteps
  BY DEF LoopType
<1>2. steps \in 0..MaxSteps /\ steps # 0
  BY <1>1, CapsAssumption
<1>3. loop' = [loop EXCEPT !.steps = steps]
  BY DEF LoopType
<1> HIDE DEF steps
<1> QED
  BY <1>2, <1>3 DEF LoopType

LEMMA StepGivenBack ==
    ASSUME loop \in LoopType, loop.steps # 0,
           loop.recoveries < MAX_STEP_RECOVERIES_PER_TURN,
           loop' = [loop EXCEPT !.recoveries = @ + 1, !.steps = @ - 1]
    PROVE  /\ loop' \in LoopType
           /\ loop'.turns = loop.turns /\ loop'.first = loop.first
<1> DEFINE recoveries == loop.recoveries + 1
           steps == loop.steps - 1
           l1 == [loop EXCEPT !.recoveries = recoveries]
           l2 == [l1 EXCEPT !.steps = steps]
<1>1. recoveries \in 0..MAX_STEP_RECOVERIES_PER_TURN
  BY DEF LoopType, MAX_STEP_RECOVERIES_PER_TURN
<1>2. steps \in 0..MaxSteps
  BY CapsAssumption DEF LoopType
<1>3. l1 \in LoopType /\ l1.turns = loop.turns /\ l1.first = loop.first
  <2> HIDE DEF recoveries
  <2> QED BY <1>1 DEF LoopType
<1>4. l2 \in LoopType /\ l2.turns = l1.turns /\ l2.first = l1.first
  <2> HIDE DEF steps, l1
  <2> QED BY <1>2, <1>3 DEF LoopType
<1>5. loop' = l2
  BY DEF LoopType
<1> QED
  <2> HIDE DEF l1, l2
  <2> QED BY <1>3, <1>4, <1>5

LEMMA TurnCounted ==
    ASSUME loop \in LoopType, loop.resuming \/ loop.turns < MaxTurns,
           loop' = [loop EXCEPT !.first = FALSE,
                                !.turns = IF loop.resuming THEN @ ELSE @ + 1]
    PROVE  /\ loop' \in LoopType /\ ~loop'.first
           /\ loop'.resuming = loop.resuming
           /\ loop'.turns = IF loop.resuming THEN loop.turns ELSE loop.turns + 1
<1> DEFINE l1 == [loop EXCEPT !.first = FALSE]
           turns == IF loop.resuming THEN loop.turns ELSE loop.turns + 1
           l2 == [l1 EXCEPT !.turns = turns]
<1>1. turns \in 0..MaxTurns
  BY CapsAssumption DEF LoopType
<1>2. l1 \in LoopType /\ ~l1.first /\ l1.resuming = loop.resuming
  BY DEF LoopType
<1>3. l2 \in LoopType /\ l2.first = l1.first /\ l2.resuming = l1.resuming
      /\ l2.turns = turns
  <2> HIDE DEF l1, turns
  <2> QED BY <1>1, <1>2 DEF LoopType
<1>4. loop' = l2
  BY DEF LoopType
<1> QED
  <2> HIDE DEF l1, l2
  <2> QED BY <1>2, <1>3, <1>4

LEMMA TurnLeft ==
    ASSUME loop \in LoopType,
           loop' = [loop EXCEPT !.drain = TRUE, !.resuming = FALSE]
    PROVE  /\ loop' \in LoopType /\ ~loop'.resuming
           /\ loop'.turns = loop.turns /\ loop'.first = loop.first
<1> DEFINE l1 == [loop EXCEPT !.drain = TRUE]
           l2 == [l1 EXCEPT !.resuming = FALSE]
<1>1. l1 \in LoopType /\ l1.turns = loop.turns /\ l1.first = loop.first
  BY DEF LoopType
<1>2. l2 \in LoopType /\ ~l2.resuming /\ l2.turns = l1.turns /\ l2.first = l1.first
  <2> HIDE DEF l1
  <2> QED BY <1>1 DEF LoopType
<1>3. loop' = l2
  OBVIOUS
<1> QED
  <2> HIDE DEF l1, l2
  <2> QED BY <1>1, <1>2, <1>3

LEMMA TurnAgain ==
    ASSUME loop \in LoopType
    PROVE  /\ SameTurn \in LoopType /\ SameTurn.resuming /\ ~SameTurn.drain
           /\ SameTurn.turns = loop.turns /\ SameTurn.first = loop.first
<1> DEFINE l1 == [loop EXCEPT !.resuming = TRUE]
           l2 == [l1 EXCEPT !.drain = FALSE]
<1>1. l1 \in LoopType /\ l1.resuming /\ l1.turns = loop.turns /\ l1.first = loop.first
  BY DEF LoopType
<1>2. /\ l2 \in LoopType /\ ~l2.drain /\ l2.resuming = l1.resuming
      /\ l2.turns = l1.turns /\ l2.first = l1.first
  <2> HIDE DEF l1
  <2> QED BY <1>1 DEF LoopType
<1>3. SameTurn = l2
  BY DEF SameTurn
<1> QED
  <2> HIDE DEF l1, l2
  <2> QED BY <1>1, <1>2, <1>3

LEMMA LoopBegins ==
    ASSUME NEW kind \in {"prompt", "wake", "resume"}, NEW turns \in 0..MaxTurns
    PROVE  /\ FirstTurn(kind, turns) \in LoopType
           /\ FirstTurn(kind, turns).turns = turns
           /\ FirstTurn(kind, turns).drain = (kind = "wake")
           /\ FirstTurn(kind, turns).first = (kind = "wake")
           /\ FirstTurn(kind, turns).resuming = (kind = "resume")
<1> DEFINE l1 == [NoLoop EXCEPT !.turns = turns]
           l2 == [l1 EXCEPT !.drain = (kind = "wake")]
           l3 == [l2 EXCEPT !.first = (kind = "wake")]
           l4 == [l3 EXCEPT !.resuming = (kind = "resume")]
<1>1. l1 \in LoopType /\ l1.turns = turns
  <2>1. NoLoop \in LoopType
    BY CapsAssumption DEF LoopType, NoLoop, Stops, MAX_STEP_RECOVERIES_PER_TURN
  <2> QED
    BY <2>1 DEF LoopType
<1>2. l2 \in LoopType /\ l2.turns = l1.turns /\ l2.drain = (kind = "wake")
  <2> HIDE DEF l1
  <2> QED BY <1>1 DEF LoopType
<1>3. l3 \in LoopType /\ l3.turns = l2.turns /\ l3.drain = l2.drain
      /\ l3.first = (kind = "wake")
  <2> HIDE DEF l2
  <2> QED BY <1>2 DEF LoopType
<1>4. l4 \in LoopType /\ l4.turns = l3.turns /\ l4.drain = l3.drain
      /\ l4.first = l3.first /\ l4.resuming = (kind = "resume")
  <2> HIDE DEF l3
  <2> QED BY <1>3 DEF LoopType
<1>5. FirstTurn(kind, turns) = l4
  BY DEF FirstTurn
<1> QED
  <2> HIDE DEF l1, l2, l3, l4
  <2> QED BY <1>1, <1>2, <1>3, <1>4, <1>5

(* The types of what a step of a run changes are the types of all.         *)
LEMMA TypesOfStep ==
    ASSUME TypeOK,
           runs' \in [Runs -> RunType], loop' \in LoopType, spent' \in [Doings -> Nat],
           place' \in [Messages -> {"out", "steering", "followUp", "taken"}],
           active' \in BOOLEAN, intr' \in 0..MaxTurns,
           tail' \in {"quiet", "prompt", "calls"},
           told' \in {"closed", "open", "paused", "left"},
           UNCHANGED <<scene, marks, life, gate, waited, wake, interrupted, chain>>
    PROVE  TypeOK'
BY DEF TypeOK, RunType, LoopType, marks

---------------------------------------------------------------------------
(* One lemma for each step between the lock and the end of the run.        *)

LEMMA withRunLockDoes ==
    ASSUME TypeOK, Inv, NEW r \in Runs, withRunLock(r)
    PROVE  Does(r)
<1>1. runs[r].pc = "queued" /\ InputOf(r)
  BY DEF withRunLock, At, Inv
<1>2. chain[1] = r
  BY DEF withRunLock
<1>3. \A q \in Runs : runs[q].pc \notin Inside
  BY <1>1, <1>2 DEF Inv, Lock, Inside
<1>4. \E pc \in {"assembling", "settling"} : MovedTo(r, pc)
  BY GoMoves, EndsMoves DEF withRunLock, Places, Inside, Results
<1>5. TypeOK'
  <2>1. runs' \in [Runs -> RunType]
    BY <1>4 DEF MovedTo
  <2> QED
    BY <2>1, TypesOfStep DEF withRunLock, TypeOK, LoopType, facadeVars, busVars, storyVars
<1>6. Keeps(r)
  BY <1>1, <1>2, <1>4 DEF withRunLock, facadeVars, storyVars, Inside, Keeps, MovedTo
<1>7. LoopOf(r)'
  BY <1>4 DEF Inside, LoopOf, Turning, MovedTo
<1>8. TailOf(r)'
  BY <1>3, <1>4 DEF withRunLock, Inv, Between, TailOf, EndingOf, MovedTo, storyVars, marks
<1>9. InputOf(r)'
  BY <1>1, <1>4 DEF withRunLock, InputOf, Turning, Inside, MovedTo, hasItems, Queued, busVars
<1> QED
  BY <1>5, <1>6, <1>7, <1>8, <1>9 DEF Does

LEMMA BeginTurnDoes ==
    ASSUME TypeOK, Inv, NEW r \in Runs, BeginTurn(r)
    PROVE  Does(r)
<1>1. runs[r].pc = "preparing" /\ LoopOf(r) /\ TailOf(r) /\ InputOf(r)
  BY DEF BeginTurn, At, Inv, Inside
<1>2. loop \in LoopType
  BY DEF TypeOK, LoopType
<1>3. \E pc \in {"batch", "top", "settling"} : MovedTo(r, pc)
  BY GoMoves, EndsMoves, TakeMoves DEF BeginTurn, Places, Inside, Results
<1>4. loop' \in LoopType /\ loop'.turns = loop.turns /\ loop'.first = loop.first
  BY <1>1, <1>2, ResetLoop DEF BeginTurn, Stops, LoopOf
<1>5. TypeOK'
  <2>1. runs' \in [Runs -> RunType]
    BY <1>3 DEF MovedTo
  <2>2. spent' \in [Doings -> Nat]
    BY SpendTyped DEF BeginTurn, TypeOK, Free, Fault, Doings
  <2>3. place' \in [Messages -> {"out", "steering", "followUp", "taken"}]
    BY TakeMoves DEF BeginTurn, TypeOK, Places, Inside, busVars
  <2>4. /\ active' \in BOOLEAN /\ intr' \in 0..MaxTurns
        /\ tail' \in {"quiet", "prompt", "calls"}
        /\ told' \in {"closed", "open", "paused", "left"}
    BY DEF BeginTurn, TypeOK, LoopType, Leaves, ToldOfRejection, busVars, storyVars
  <2>5. UNCHANGED <<scene, marks, life, gate, waited, wake, interrupted, chain>>
    BY DEF BeginTurn, facadeVars
  <2> QED
    BY <1>4, <2>1, <2>2, <2>3, <2>4, <2>5, TypesOfStep
<1>6. Keeps(r)
  BY <1>1, <1>3 DEF BeginTurn, facadeVars, storyVars, Inside, Keeps, MovedTo
<1>7. LoopOf(r)'
  BY <1>1, <1>2, <1>4, GoMoves, EndsMoves, TakeMoves
     DEF BeginTurn, Places, Inside, Results, Stops, LoopOf, Turning, MovedTo
<1>8. TailOf(r)'
  BY <1>1, <1>2, <1>4, GoMoves, EndsMoves, TakeMoves
     DEF BeginTurn, Places, Inside, Results, Stops, TailOf, EndingOf, LoopOf, MovedTo, storyVars, marks
<1>9. InputOf(r)'
  BY <1>1, <1>3 DEF BeginTurn, Inside, InputOf, Turning, MovedTo
<1> QED
  BY <1>5, <1>6, <1>7, <1>8, <1>9 DEF Does

LEMMA BatchAgainDoes ==
    ASSUME TypeOK, Inv, NEW r \in Runs, BatchAgain(r)
    PROVE  Does(r)
<1>1. runs[r].pc = "batch" /\ LoopOf(r) /\ TailOf(r) /\ InputOf(r)
  BY DEF BatchAgain, At, Inv, Inside
<1>2. loop \in LoopType
  BY DEF TypeOK, LoopType
<1>3. \E pc \in {"returned", "top", "rejected"} : MovedTo(r, pc)
  BY GoMoves, EndsMoves, TakeMoves DEF BatchAgain, Interrupts, Returns, TurnThrows, Places, Inside, Results
<1>4. loop' \in LoopType /\ loop'.turns = loop.turns /\ loop'.first = loop.first
  BY <1>1, <1>2, StopSet DEF BatchAgain, Interrupts, Returns, TurnThrows, Stops, LoopOf
<1>5. TypeOK'
  <2>1. runs' \in [Runs -> RunType]
    BY <1>3 DEF MovedTo
  <2>2. spent' \in [Doings -> Nat]
    BY SpendTyped DEF BatchAgain, Interrupts, Returns, TurnThrows, TypeOK, Free, Fault, Doings
  <2>3. place' \in [Messages -> {"out", "steering", "followUp", "taken"}]
    BY TakeMoves DEF BatchAgain, Interrupts, Returns, TurnThrows, TypeOK, Places, Inside, busVars
  <2>4. /\ active' \in BOOLEAN /\ intr' \in 0..MaxTurns
        /\ tail' \in {"quiet", "prompt", "calls"}
        /\ told' \in {"closed", "open", "paused", "left"}
    BY DEF BatchAgain, Interrupts, Returns, TurnThrows, TypeOK, LoopType, Leaves, ToldOfRejection, busVars, storyVars
  <2>5. UNCHANGED <<scene, marks, life, gate, waited, wake, interrupted, chain>>
    BY DEF BatchAgain, Interrupts, Returns, TurnThrows, facadeVars
  <2> QED
    BY <1>4, <2>1, <2>2, <2>3, <2>4, <2>5, TypesOfStep
<1>6. Keeps(r)
  BY <1>1, <1>3 DEF BatchAgain, Interrupts, Returns, TurnThrows, facadeVars, storyVars, Inside, Keeps, MovedTo
<1>7. LoopOf(r)'
  BY <1>1, <1>2, <1>4, GoMoves, EndsMoves, TakeMoves, StopSet
     DEF BatchAgain, Interrupts, Returns, TurnThrows, Places, Inside, Results, Stops, LoopOf, Turning, MovedTo
<1>8. TailOf(r)'
  BY <1>1, <1>2, <1>4, GoMoves, EndsMoves, TakeMoves, StopSet
     DEF BatchAgain, Interrupts, Returns, TurnThrows, Places, Inside, Results, Stops, TailOf, EndingOf, LoopOf, MovedTo, storyVars, marks
<1>9. InputOf(r)'
  BY <1>1, <1>3 DEF BatchAgain, Interrupts, Returns, TurnThrows, Inside, InputOf, Turning, MovedTo
<1> QED
  BY <1>5, <1>6, <1>7, <1>8, <1>9 DEF Does

LEMMA StepTopDoes ==
    ASSUME TypeOK, Inv, NEW r \in Runs, StepTop(r)
    PROVE  Does(r)
<1>1. runs[r].pc = "top" /\ LoopOf(r) /\ TailOf(r) /\ InputOf(r)
  BY DEF StepTop, At, Inv, Inside
<1>2. loop \in LoopType
  BY DEF TypeOK, LoopType
<1>3. \E pc \in {"returned", "model", "rejected"} : MovedTo(r, pc)
  BY GoMoves, EndsMoves, TakeMoves DEF StepTop, Returns, StepLeft, Places, Inside, Results
<1>4. loop' \in LoopType /\ loop'.turns = loop.turns /\ loop'.first = loop.first
  BY <1>1, <1>2, StopSet, StepCounted DEF StepTop, Returns, StepLeft, Stops, LoopOf
<1>5. TypeOK'
  <2>1. runs' \in [Runs -> RunType]
    BY <1>3 DEF MovedTo
  <2>2. spent' \in [Doings -> Nat]
    BY SpendTyped DEF StepTop, Returns, StepLeft, TypeOK, Free, Fault, Doings
  <2>3. place' \in [Messages -> {"out", "steering", "followUp", "taken"}]
    BY TakeMoves DEF StepTop, Returns, StepLeft, TypeOK, Places, Inside, busVars
  <2>4. /\ active' \in BOOLEAN /\ intr' \in 0..MaxTurns
        /\ tail' \in {"quiet", "prompt", "calls"}
        /\ told' \in {"closed", "open", "paused", "left"}
    BY DEF StepTop, Returns, StepLeft, TypeOK, LoopType, Leaves, ToldOfRejection, busVars, storyVars
  <2>5. UNCHANGED <<scene, marks, life, gate, waited, wake, interrupted, chain>>
    BY DEF StepTop, Returns, StepLeft, facadeVars
  <2> QED
    BY <1>4, <2>1, <2>2, <2>3, <2>4, <2>5, TypesOfStep
<1>6. Keeps(r)
  BY <1>1, <1>3 DEF StepTop, Returns, StepLeft, facadeVars, storyVars, Inside, Keeps, MovedTo
<1>7. LoopOf(r)'
  BY <1>1, <1>2, <1>4, GoMoves, EndsMoves, TakeMoves, StepCounted, StopSet
     DEF StepTop, Returns, StepLeft, Places, Inside, Results, Stops, LoopOf, Turning, MovedTo
<1>8. TailOf(r)'
  BY <1>1, <1>2, <1>4, GoMoves, EndsMoves, TakeMoves, StopSet
     DEF StepTop, Returns, StepLeft, Places, Inside, Results, Stops, TailOf, EndingOf, LoopOf, MovedTo, storyVars, marks
<1>9. InputOf(r)'
  BY <1>1, <1>3 DEF StepTop, Returns, StepLeft, Inside, InputOf, Turning, MovedTo
<1> QED
  BY <1>5, <1>6, <1>7, <1>8, <1>9 DEF Does

LEMMA ModelAnswersDoes ==
    ASSUME TypeOK, Inv, NEW r \in Runs, ModelAnswers(r)
    PROVE  Does(r)
<1>1. runs[r].pc = "model" /\ LoopOf(r) /\ TailOf(r) /\ InputOf(r)
  BY DEF ModelAnswers, At, Inv, Inside
<1>2. loop \in LoopType
  BY DEF TypeOK, LoopType
<1>3. \E pc \in {"returned", "tools", "hook", "top", "rejected"} : MovedTo(r, pc)
  BY GoMoves, EndsMoves, TakeMoves DEF ModelAnswers, Returns, TurnThrows, Places, Inside, Results
<1>4. loop' \in LoopType /\ loop'.turns = loop.turns /\ loop'.first = loop.first
  BY <1>1, <1>2, StopSet, StepGivenBack DEF ModelAnswers, Returns, TurnThrows, Stops, LoopOf
<1>5. TypeOK'
  <2>1. runs' \in [Runs -> RunType]
    BY <1>3 DEF MovedTo
  <2>2. spent' \in [Doings -> Nat]
    BY SpendTyped DEF ModelAnswers, Returns, TurnThrows, TypeOK, Free, Fault, Doings
  <2>3. place' \in [Messages -> {"out", "steering", "followUp", "taken"}]
    BY TakeMoves DEF ModelAnswers, Returns, TurnThrows, TypeOK, Places, Inside, busVars
  <2>4. /\ active' \in BOOLEAN /\ intr' \in 0..MaxTurns
        /\ tail' \in {"quiet", "prompt", "calls"}
        /\ told' \in {"closed", "open", "paused", "left"}
    BY DEF ModelAnswers, Returns, TurnThrows, TypeOK, LoopType, Leaves, ToldOfRejection, busVars, storyVars
  <2>5. UNCHANGED <<scene, marks, life, gate, waited, wake, interrupted, chain>>
    BY DEF ModelAnswers, Returns, TurnThrows, facadeVars
  <2> QED
    BY <1>4, <2>1, <2>2, <2>3, <2>4, <2>5, TypesOfStep
<1>6. Keeps(r)
  BY <1>1, <1>3 DEF ModelAnswers, Returns, TurnThrows, facadeVars, storyVars, Inside, Keeps, MovedTo
<1>7. LoopOf(r)'
  BY <1>1, <1>2, <1>4, GoMoves, EndsMoves, TakeMoves, StopSet
     DEF ModelAnswers, Returns, TurnThrows, Places, Inside, Results, Stops, LoopOf, Turning, MovedTo
<1>8. TailOf(r)'
  BY <1>1, <1>2, <1>4, GoMoves, EndsMoves, TakeMoves, StopSet
     DEF ModelAnswers, Returns, TurnThrows, Places, Inside, Results, Stops, TailOf, EndingOf, LoopOf, MovedTo, storyVars, marks
<1>9. InputOf(r)'
  BY <1>1, <1>3 DEF ModelAnswers, Returns, TurnThrows, Inside, InputOf, Turning, MovedTo
<1> QED
  BY <1>5, <1>6, <1>7, <1>8, <1>9 DEF Does

LEMMA ToolsEndDoes ==
    ASSUME TypeOK, Inv, NEW r \in Runs, ToolsEnd(r)
    PROVE  Does(r)
<1>1. runs[r].pc = "tools" /\ LoopOf(r) /\ TailOf(r) /\ InputOf(r)
  BY DEF ToolsEnd, At, Inv, Inside
<1>2. loop \in LoopType
  BY DEF TypeOK, LoopType
<1>3. \E pc \in {"returned", "top", "hook", "rejected"} : MovedTo(r, pc)
  BY GoMoves, EndsMoves, TakeMoves DEF ToolsEnd, Interrupts, Returns, TurnThrows, Places, Inside, Results
<1>4. loop' \in LoopType /\ loop'.turns = loop.turns /\ loop'.first = loop.first
  BY <1>1, <1>2, StopSet DEF ToolsEnd, Interrupts, Returns, TurnThrows, Stops, LoopOf
<1>5. TypeOK'
  <2>1. runs' \in [Runs -> RunType]
    BY <1>3 DEF MovedTo
  <2>2. spent' \in [Doings -> Nat]
    BY SpendTyped DEF ToolsEnd, Interrupts, Returns, TurnThrows, TypeOK, Free, Fault, Doings
  <2>3. place' \in [Messages -> {"out", "steering", "followUp", "taken"}]
    BY TakeMoves DEF ToolsEnd, Interrupts, Returns, TurnThrows, TypeOK, Places, Inside, busVars
  <2>4. /\ active' \in BOOLEAN /\ intr' \in 0..MaxTurns
        /\ tail' \in {"quiet", "prompt", "calls"}
        /\ told' \in {"closed", "open", "paused", "left"}
    BY DEF ToolsEnd, Interrupts, Returns, TurnThrows, TypeOK, LoopType, Leaves, ToldOfRejection, busVars, storyVars
  <2>5. UNCHANGED <<scene, marks, life, gate, waited, wake, interrupted, chain>>
    BY DEF ToolsEnd, Interrupts, Returns, TurnThrows, facadeVars
  <2> QED
    BY <1>4, <2>1, <2>2, <2>3, <2>4, <2>5, TypesOfStep
<1>6. Keeps(r)
  BY <1>1, <1>3 DEF ToolsEnd, Interrupts, Returns, TurnThrows, facadeVars, storyVars, Inside, Keeps, MovedTo
<1>7. LoopOf(r)'
  BY <1>1, <1>2, <1>4, GoMoves, EndsMoves, TakeMoves, StopSet
     DEF ToolsEnd, Interrupts, Returns, TurnThrows, Places, Inside, Results, Stops, LoopOf, Turning, MovedTo
<1>8. TailOf(r)'
  BY <1>1, <1>2, <1>4, GoMoves, EndsMoves, TakeMoves, StopSet
     DEF ToolsEnd, Interrupts, Returns, TurnThrows, Places, Inside, Results, Stops, TailOf, EndingOf, LoopOf, MovedTo, storyVars, marks
<1>9. InputOf(r)'
  BY <1>1, <1>3 DEF ToolsEnd, Interrupts, Returns, TurnThrows, Inside, InputOf, Turning, MovedTo
<1> QED
  BY <1>5, <1>6, <1>7, <1>8, <1>9 DEF Does

LEMMA ToolsClaimedDoes ==
    ASSUME TypeOK, Inv, NEW r \in Runs, ToolsClaimed(r)
    PROVE  Does(r)
<1>1. runs[r].pc = "tools" /\ LoopOf(r) /\ TailOf(r) /\ InputOf(r)
  BY DEF ToolsClaimed, At, Inv, Inside
<1>2. loop \in LoopType /\ loop.steps # 0 /\ loop.recoveries < MAX_STEP_RECOVERIES_PER_TURN
  BY <1>1 DEF TypeOK, LoopType, LoopOf, ToolsClaimed
<1>3. MovedTo(r, "top")
  BY GoMoves DEF ToolsClaimed, Places, Inside
<1>4. loop' \in LoopType /\ loop'.turns = loop.turns /\ loop'.first = loop.first
  BY <1>2, StepGivenBack DEF ToolsClaimed
<1>5. TypeOK'
  <2>1. runs' \in [Runs -> RunType]
    BY <1>3 DEF MovedTo
  <2>2. spent' \in [Doings -> Nat]
    BY SpendTyped DEF ToolsClaimed, Fault, Doings
  <2>3. claimed' = TRUE /\ UNCHANGED <<scene, slipped, parted, facadeVars, chain, busVars,
                                        storyVars>>
    BY DEF ToolsClaimed
  <2> QED
    BY <1>4, <2>1, <2>2, <2>3 DEF TypeOK, RunType, LoopType, facadeVars, busVars, storyVars
<1>6. Keeps(r)
  BY <1>1, <1>3 DEF ToolsClaimed, storyVars, Inside, Keeps, MovedTo
<1>7. LoopOf(r)'
  BY <1>1, <1>3, <1>4 DEF Inside, LoopOf, Turning, MovedTo
<1>8. TailOf(r)'
  BY <1>1, <1>3 DEF ToolsClaimed, TailOf, MovedTo, storyVars
<1>9. InputOf(r)'
  BY <1>1, <1>3 DEF Inside, InputOf, Turning, MovedTo
<1> QED
  BY <1>5, <1>6, <1>7, <1>8, <1>9 DEF Does

LEMMA AfterStopDoes ==
    ASSUME TypeOK, Inv, NEW r \in Runs, AfterStop(r)
    PROVE  Does(r)
<1>1. runs[r].pc = "hook" /\ LoopOf(r) /\ TailOf(r) /\ InputOf(r)
  BY DEF AfterStop, At, Inv, Inside
<1>2. loop \in LoopType
  BY DEF TypeOK, LoopType
<1>3. \E pc \in {"top", "returned"} : MovedTo(r, pc)
  BY GoMoves, EndsMoves, TakeMoves DEF AfterStop, Returns, Places, Inside, Results
<1>4. loop' \in LoopType /\ loop'.turns = loop.turns /\ loop'.first = loop.first
  BY <1>1, <1>2, StopSet DEF AfterStop, Returns, Stops, LoopOf
<1>5. TypeOK'
  <2>1. runs' \in [Runs -> RunType]
    BY <1>3 DEF MovedTo
  <2>2. spent' \in [Doings -> Nat]
    BY SpendTyped DEF AfterStop, Returns, TypeOK, Free, Fault, Doings
  <2>3. place' \in [Messages -> {"out", "steering", "followUp", "taken"}]
    BY TakeMoves DEF AfterStop, Returns, TypeOK, Places, Inside, busVars
  <2>4. /\ active' \in BOOLEAN /\ intr' \in 0..MaxTurns
        /\ tail' \in {"quiet", "prompt", "calls"}
        /\ told' \in {"closed", "open", "paused", "left"}
    BY DEF AfterStop, Returns, TypeOK, LoopType, Leaves, ToldOfRejection, busVars, storyVars
  <2>5. UNCHANGED <<scene, marks, life, gate, waited, wake, interrupted, chain>>
    BY DEF AfterStop, Returns, facadeVars
  <2> QED
    BY <1>4, <2>1, <2>2, <2>3, <2>4, <2>5, TypesOfStep
<1>6. Keeps(r)
  BY <1>1, <1>3 DEF AfterStop, Returns, facadeVars, storyVars, Inside, Keeps, MovedTo
<1>7. LoopOf(r)'
  BY <1>1, <1>2, <1>4, GoMoves, EndsMoves, TakeMoves, StopSet
     DEF AfterStop, Returns, Places, Inside, Results, Stops, LoopOf, Turning, MovedTo
<1>8. TailOf(r)'
  BY <1>1, <1>2, <1>4, GoMoves, EndsMoves, TakeMoves, StopSet
     DEF AfterStop, Returns, Places, Inside, Results, Stops, TailOf, EndingOf, LoopOf, MovedTo, storyVars, marks
<1>9. InputOf(r)'
  BY <1>1, <1>3 DEF AfterStop, Returns, Inside, InputOf, Turning, MovedTo
<1> QED
  BY <1>5, <1>6, <1>7, <1>8, <1>9 DEF Does

LEMMA TurnRejectedDoes ==
    ASSUME TypeOK, Inv, NEW r \in Runs, TurnRejected(r)
    PROVE  Does(r)
<1>1. runs[r].pc = "rejected" /\ LoopOf(r) /\ TailOf(r) /\ InputOf(r)
  BY DEF TurnRejected, At, Inv, Inside
<1>2. loop \in LoopType
  BY DEF TypeOK, LoopType
<1>3. \E pc \in {"settling"} : MovedTo(r, pc)
  BY <1>1, GoMoves, EndsMoves, TakeMoves DEF TurnRejected, LoopOf, Places, Inside, Results
<1>4. loop' \in LoopType /\ loop'.turns = loop.turns /\ loop'.first = loop.first
  BY <1>1, <1>2 DEF TurnRejected, LoopOf, Stops, LoopOf
<1>5. TypeOK'
  <2>1. runs' \in [Runs -> RunType]
    BY <1>3 DEF MovedTo
  <2>2. spent' \in [Doings -> Nat]
    BY SpendTyped DEF TurnRejected, LoopOf, TypeOK, Free, Fault, Doings
  <2>3. place' \in [Messages -> {"out", "steering", "followUp", "taken"}]
    BY TakeMoves DEF TurnRejected, LoopOf, TypeOK, Places, Inside, busVars
  <2>4. /\ active' \in BOOLEAN /\ intr' \in 0..MaxTurns
        /\ tail' \in {"quiet", "prompt", "calls"}
        /\ told' \in {"closed", "open", "paused", "left"}
    BY DEF TurnRejected, LoopOf, TypeOK, LoopType, Leaves, ToldOfRejection, busVars, storyVars
  <2>5. UNCHANGED <<scene, marks, life, gate, waited, wake, interrupted, chain>>
    BY DEF TurnRejected, LoopOf, facadeVars
  <2> QED
    BY <1>4, <2>1, <2>2, <2>3, <2>4, <2>5, TypesOfStep
<1>6. Keeps(r)
  BY <1>1, <1>3 DEF TurnRejected, LoopOf, facadeVars, storyVars, Inside, Keeps, MovedTo
<1>7. LoopOf(r)'
  BY <1>1, <1>2, <1>4, GoMoves, EndsMoves, TakeMoves
     DEF TurnRejected, LoopOf, Places, Inside, Results, Stops, LoopOf, Turning, MovedTo
<1>8. TailOf(r)'
  BY <1>1, <1>2, <1>4, GoMoves, EndsMoves, TakeMoves
     DEF TurnRejected, LoopOf, Places, Inside, Results, Stops, TailOf, EndingOf, LoopOf, MovedTo, storyVars, marks
<1>9. InputOf(r)'
  BY <1>1, <1>3 DEF TurnRejected, LoopOf, Inside, InputOf, Turning, MovedTo
<1> QED
  BY <1>5, <1>6, <1>7, <1>8, <1>9 DEF Does

LEMMA TurnReturnedDoes ==
    ASSUME TypeOK, Inv, NEW r \in Runs, TurnReturned(r)
    PROVE  Does(r)
<1>1. runs[r].pc = "returned" /\ LoopOf(r) /\ TailOf(r) /\ InputOf(r)
  BY DEF TurnReturned, At, Inv, Inside
<1>2. loop \in LoopType
  BY DEF TypeOK, LoopType
<1>3. \E pc \in {"asking", "pausing", "handing", "boundary", "gates", "settling"} : MovedTo(r, pc)
  BY GoMoves, EndsMoves, TakeMoves DEF TurnReturned, Places, Inside, Results
<1>4. loop' \in LoopType /\ loop'.turns = loop.turns /\ loop'.first = loop.first /\ ~loop'.resuming
  BY <1>1, <1>2, TurnLeft DEF TurnReturned, Stops, LoopOf
<1>5. TypeOK'
  <2>1. runs' \in [Runs -> RunType]
    BY <1>3 DEF MovedTo
  <2>2. spent' \in [Doings -> Nat]
    BY SpendTyped DEF TurnReturned, TypeOK, Free, Fault, Doings
  <2>3. place' \in [Messages -> {"out", "steering", "followUp", "taken"}]
    BY TakeMoves DEF TurnReturned, TypeOK, Places, Inside, busVars
  <2>4. /\ active' \in BOOLEAN /\ intr' \in 0..MaxTurns
        /\ tail' \in {"quiet", "prompt", "calls"}
        /\ told' \in {"closed", "open", "paused", "left"}
    BY DEF TurnReturned, TypeOK, LoopType, Leaves, ToldOfRejection, busVars, storyVars
  <2>5. UNCHANGED <<scene, marks, life, gate, waited, wake, interrupted, chain>>
    BY DEF TurnReturned, facadeVars
  <2> QED
    BY <1>4, <2>1, <2>2, <2>3, <2>4, <2>5, TypesOfStep
<1>6. Keeps(r)
  BY <1>1, <1>3 DEF TurnReturned, facadeVars, storyVars, Inside, Keeps, MovedTo
<1>7. LoopOf(r)'
  BY <1>1, <1>2, <1>4, GoMoves, EndsMoves, TakeMoves
     DEF TurnReturned, Places, Inside, Results, Stops, LoopOf, Turning, MovedTo
<1>8. TailOf(r)'
  BY <1>1, <1>2, <1>4, GoMoves, EndsMoves, TakeMoves
     DEF TurnReturned, Places, Inside, Results, Stops, TailOf, EndingOf, LoopOf, MovedTo, storyVars, marks
<1>9. InputOf(r)'
  BY <1>1, <1>3 DEF TurnReturned, Inside, InputOf, Turning, MovedTo
<1> QED
  BY <1>5, <1>6, <1>7, <1>8, <1>9 DEF Does

LEMMA BoundaryGatesDoes ==
    ASSUME TypeOK, Inv, NEW r \in Runs, BoundaryGates(r)
    PROVE  Does(r)
<1>1. runs[r].pc = "gates" /\ LoopOf(r) /\ TailOf(r) /\ InputOf(r)
  BY DEF BoundaryGates, At, Inv, Inside
<1>2. loop \in LoopType
  BY DEF TypeOK, LoopType
<1>3. \E pc \in {"boundary", "settling"} : MovedTo(r, pc)
  BY GoMoves, EndsMoves, TakeMoves DEF BoundaryGates, Places, Inside, Results
<1>4. loop' \in LoopType /\ loop'.turns = loop.turns /\ loop'.first = loop.first /\ ~loop'.resuming
  BY <1>1, <1>2 DEF BoundaryGates, Stops, LoopOf
<1>5. TypeOK'
  <2>1. runs' \in [Runs -> RunType]
    BY <1>3 DEF MovedTo
  <2>2. spent' \in [Doings -> Nat]
    BY SpendTyped DEF BoundaryGates, TypeOK, Free, Fault, Doings
  <2>3. place' \in [Messages -> {"out", "steering", "followUp", "taken"}]
    BY TakeMoves DEF BoundaryGates, TypeOK, Places, Inside, busVars
  <2>4. /\ active' \in BOOLEAN /\ intr' \in 0..MaxTurns
        /\ tail' \in {"quiet", "prompt", "calls"}
        /\ told' \in {"closed", "open", "paused", "left"}
    BY DEF BoundaryGates, TypeOK, LoopType, Leaves, ToldOfRejection, busVars, storyVars
  <2>5. UNCHANGED <<scene, marks, life, gate, waited, wake, interrupted, chain>>
    BY DEF BoundaryGates, facadeVars
  <2> QED
    BY <1>4, <2>1, <2>2, <2>3, <2>4, <2>5, TypesOfStep
<1>6. Keeps(r)
  BY <1>1, <1>3 DEF BoundaryGates, facadeVars, storyVars, Inside, Keeps, MovedTo
<1>7. LoopOf(r)'
  BY <1>1, <1>2, <1>4, GoMoves, EndsMoves, TakeMoves
     DEF BoundaryGates, Places, Inside, Results, Stops, LoopOf, Turning, MovedTo
<1>8. TailOf(r)'
  BY <1>1, <1>2, <1>4, GoMoves, EndsMoves, TakeMoves
     DEF BoundaryGates, Places, Inside, Results, Stops, TailOf, EndingOf, LoopOf, MovedTo, storyVars, marks
<1>9. InputOf(r)'
  BY <1>1, <1>3 DEF BoundaryGates, Inside, InputOf, Turning, MovedTo
<1> QED
  BY <1>5, <1>6, <1>7, <1>8, <1>9 DEF Does

LEMMA LiveAnswersDoes ==
    ASSUME TypeOK, Inv, NEW r \in Runs, LiveAnswers(r)
    PROVE  Does(r)
<1>1. runs[r].pc = "asking" /\ LoopOf(r) /\ TailOf(r) /\ InputOf(r)
  BY DEF LiveAnswers, At, Inv, Inside
<1>2. loop \in LoopType
  BY DEF TypeOK, LoopType
<1>3. \E pc \in {"preparing", "settling"} : MovedTo(r, pc)
  BY GoMoves, EndsMoves, TakeMoves DEF LiveAnswers, Places, Inside, Results
<1>4. loop' \in LoopType /\ loop'.turns = loop.turns /\ loop'.first = loop.first
  BY <1>1, <1>2, TurnAgain DEF LiveAnswers, Stops, LoopOf
<1>5. TypeOK'
  <2>1. runs' \in [Runs -> RunType]
    BY <1>3 DEF MovedTo
  <2>2. spent' \in [Doings -> Nat]
    BY SpendTyped DEF LiveAnswers, TypeOK, Free, Fault, Doings
  <2>3. place' \in [Messages -> {"out", "steering", "followUp", "taken"}]
    BY TakeMoves DEF LiveAnswers, TypeOK, Places, Inside, busVars
  <2>4. /\ active' \in BOOLEAN /\ intr' \in 0..MaxTurns
        /\ tail' \in {"quiet", "prompt", "calls"}
        /\ told' \in {"closed", "open", "paused", "left"}
    BY DEF LiveAnswers, TypeOK, LoopType, Leaves, ToldOfRejection, busVars, storyVars
  <2>5. UNCHANGED <<scene, marks, life, gate, waited, wake, interrupted, chain>>
    BY DEF LiveAnswers, facadeVars
  <2> QED
    BY <1>4, <2>1, <2>2, <2>3, <2>4, <2>5, TypesOfStep
<1>6. Keeps(r)
  BY <1>1, <1>3 DEF LiveAnswers, facadeVars, storyVars, Inside, Keeps, MovedTo
<1>7. LoopOf(r)'
  BY <1>1, <1>2, <1>4, GoMoves, EndsMoves, TakeMoves
     DEF LiveAnswers, Places, Inside, Results, Stops, LoopOf, Turning, MovedTo
<1>8. TailOf(r)'
  BY <1>1, <1>2, <1>4, GoMoves, EndsMoves, TakeMoves, TurnAgain
     DEF LiveAnswers, Places, Inside, Results, Stops, TailOf, EndingOf, LoopOf, MovedTo, storyVars, marks
<1>9. InputOf(r)'
  BY <1>1, <1>3 DEF LiveAnswers, Inside, InputOf, Turning, MovedTo
<1> QED
  BY <1>5, <1>6, <1>7, <1>8, <1>9 DEF Does

LEMMA pauseRunDoes ==
    ASSUME TypeOK, Inv, NEW r \in Runs, pauseRun(r)
    PROVE  Does(r)
<1>1. runs[r].pc = "pausing" /\ LoopOf(r) /\ TailOf(r) /\ InputOf(r)
  BY DEF pauseRun, At, Inv, Inside
<1>2. loop \in LoopType
  BY DEF TypeOK, LoopType
<1>3. \E pc \in {"settling"} : MovedTo(r, pc)
  BY GoMoves, EndsMoves, TakeMoves DEF pauseRun, Places, Inside, Results
<1>4. loop' \in LoopType /\ loop'.turns = loop.turns /\ loop'.first = loop.first
  BY <1>1, <1>2 DEF pauseRun, Stops, LoopOf
<1>5. TypeOK'
  <2>1. runs' \in [Runs -> RunType]
    BY <1>3 DEF MovedTo
  <2>2. spent' \in [Doings -> Nat]
    BY SpendTyped DEF pauseRun, TypeOK, Free, Fault, Doings
  <2>3. place' \in [Messages -> {"out", "steering", "followUp", "taken"}]
    BY TakeMoves DEF pauseRun, TypeOK, Places, Inside, busVars
  <2>4. /\ active' \in BOOLEAN /\ intr' \in 0..MaxTurns
        /\ tail' \in {"quiet", "prompt", "calls"}
        /\ told' \in {"closed", "open", "paused", "left"}
    BY DEF pauseRun, TypeOK, LoopType, Leaves, ToldOfRejection, busVars, storyVars
  <2>5. UNCHANGED <<scene, marks, life, gate, waited, wake, interrupted, chain>>
    BY DEF pauseRun, facadeVars
  <2> QED
    BY <1>4, <2>1, <2>2, <2>3, <2>4, <2>5, TypesOfStep
<1>6. Keeps(r)
  BY <1>1, <1>3  DEF pauseRun, facadeVars, storyVars, Inside, Keeps, MovedTo, LoopOf, Turning
<1>7. LoopOf(r)'
  BY <1>1, <1>2, <1>4, GoMoves, EndsMoves, TakeMoves
     DEF pauseRun, Places, Inside, Results, Stops, LoopOf, Turning, MovedTo
<1>8. TailOf(r)'
  BY <1>1, <1>2, <1>4, GoMoves, EndsMoves, TakeMoves
     DEF pauseRun, Places, Inside, Results, Stops, TailOf, EndingOf, LoopOf, MovedTo, storyVars, marks
<1>9. InputOf(r)'
  BY <1>1, <1>3 DEF pauseRun, Inside, InputOf, Turning, MovedTo
<1> QED
  BY <1>5, <1>6, <1>7, <1>8, <1>9 DEF Does

LEMMA performHandoffDoes ==
    ASSUME TypeOK, Inv, NEW r \in Runs, performHandoff(r)
    PROVE  Does(r)
<1>1. runs[r].pc = "handing" /\ LoopOf(r) /\ TailOf(r) /\ InputOf(r)
  BY DEF performHandoff, At, Inv, Inside
<1>2. loop \in LoopType
  BY DEF TypeOK, LoopType
<1>3. \E pc \in {"boundary", "settling"} : MovedTo(r, pc)
  BY GoMoves, EndsMoves, TakeMoves DEF performHandoff, Places, Inside, Results
<1>4. loop' \in LoopType /\ loop'.turns = loop.turns /\ loop'.first = loop.first /\ ~loop'.resuming
  BY <1>1, <1>2 DEF performHandoff, Stops, LoopOf
<1>5. TypeOK'
  <2>1. runs' \in [Runs -> RunType]
    BY <1>3 DEF MovedTo
  <2>2. spent' \in [Doings -> Nat]
    BY SpendTyped DEF performHandoff, TypeOK, Free, Fault, Doings
  <2>3. place' \in [Messages -> {"out", "steering", "followUp", "taken"}]
    BY TakeMoves DEF performHandoff, TypeOK, Places, Inside, busVars
  <2>4. /\ active' \in BOOLEAN /\ intr' \in 0..MaxTurns
        /\ tail' \in {"quiet", "prompt", "calls"}
        /\ told' \in {"closed", "open", "paused", "left"}
    BY DEF performHandoff, TypeOK, LoopType, Leaves, ToldOfRejection, busVars, storyVars
  <2>5. UNCHANGED <<scene, marks, life, gate, waited, wake, interrupted, chain>>
    BY DEF performHandoff, facadeVars
  <2> QED
    BY <1>4, <2>1, <2>2, <2>3, <2>4, <2>5, TypesOfStep
<1>6. Keeps(r)
  BY <1>1, <1>3 DEF performHandoff, facadeVars, storyVars, Inside, Keeps, MovedTo
<1>7. LoopOf(r)'
  BY <1>1, <1>2, <1>4, GoMoves, EndsMoves, TakeMoves
     DEF performHandoff, Places, Inside, Results, Stops, LoopOf, Turning, MovedTo
<1>8. TailOf(r)'
  BY <1>1, <1>2, <1>4, GoMoves, EndsMoves, TakeMoves
     DEF performHandoff, Places, Inside, Results, Stops, TailOf, EndingOf, LoopOf, MovedTo, storyVars, marks
<1>9. InputOf(r)'
  BY <1>1, <1>3 DEF performHandoff, Inside, InputOf, Turning, MovedTo
<1> QED
  BY <1>5, <1>6, <1>7, <1>8, <1>9 DEF Does

LEMMA TurnBoundaryDoes ==
    ASSUME TypeOK, Inv, NEW r \in Runs, TurnBoundary(r)
    PROVE  Does(r)
<1>1. runs[r].pc = "boundary" /\ LoopOf(r) /\ TailOf(r) /\ InputOf(r)
  BY DEF TurnBoundary, At, Inv, Inside
<1>2. loop \in LoopType
  BY DEF TypeOK, LoopType
<1>3. \E pc \in {"preparing", "settling"} : MovedTo(r, pc)
  BY GoMoves, EndsMoves, TakeMoves DEF TurnBoundary, Places, Inside, Results
<1>4. loop' \in LoopType /\ loop'.resuming = loop.resuming
  BY <1>1, <1>2, TurnCounted DEF TurnBoundary, Stops, LoopOf
<1>5. TypeOK'
  <2>1. runs' \in [Runs -> RunType]
    BY <1>3 DEF MovedTo
  <2>2. spent' \in [Doings -> Nat]
    BY SpendTyped DEF TurnBoundary, TypeOK, Free, Fault, Doings
  <2>3. place' \in [Messages -> {"out", "steering", "followUp", "taken"}]
    BY TakeMoves DEF TurnBoundary, TypeOK, Places, Inside, busVars
  <2>4. /\ active' \in BOOLEAN /\ intr' \in 0..MaxTurns
        /\ tail' \in {"quiet", "prompt", "calls"}
        /\ told' \in {"closed", "open", "paused", "left"}
    BY DEF TurnBoundary, TypeOK, LoopType, Leaves, ToldOfRejection, busVars, storyVars
  <2>5. UNCHANGED <<scene, marks, life, gate, waited, wake, interrupted, chain>>
    BY DEF TurnBoundary, facadeVars
  <2> QED
    BY <1>4, <2>1, <2>2, <2>3, <2>4, <2>5, TypesOfStep
<1>6. Keeps(r)
  BY <1>1, <1>3 DEF TurnBoundary, facadeVars, storyVars, Inside, Keeps, MovedTo
<1>7. LoopOf(r)'
  BY <1>1, <1>2, <1>4, GoMoves, EndsMoves, TakeMoves, TurnCounted
     DEF TurnBoundary, Places, Inside, Results, Stops, LoopOf, Turning, MovedTo, LoopType
<1>8. TailOf(r)'
  BY <1>1, <1>2, <1>4, GoMoves, EndsMoves, TakeMoves, TurnCounted
     DEF TurnBoundary, Places, Inside, Results, Stops, TailOf, EndingOf, LoopOf, MovedTo, storyVars, marks
<1>9. InputOf(r)'
  BY <1>1, <1>3, TakeMoves, EndsMoves DEF TurnBoundary, Inside, InputOf, Turning, MovedTo, BoundaryDrain, hasItems, Places, Results
<1> QED
  BY <1>5, <1>6, <1>7, <1>8, <1>9 DEF Does

LEMMA executeDoes ==
    ASSUME TypeOK, Inv, NEW r \in Runs, execute(r)
    PROVE  Does(r)
<1> DEFINE kind == runs[r].kind
<1>1. runs[r].pc = "assembling" /\ LoopOf(r) /\ TailOf(r) /\ InputOf(r)
  BY DEF execute, At, Inv, Inside
<1>2. kind \in {"prompt", "wake", "resume"} /\ 0 \in 0..MaxTurns
  BY CapsAssumption DEF TypeOK
<1>3. loop \in LoopType
  BY DEF TypeOK, LoopType
<1>4. \/ MovedTo(r, "settling") /\ UNCHANGED <<loop, tail>>
      \/ /\ MovedTo(r, "boundary") /\ loop' = FirstTurn(kind, 0)
         /\ intr = 0 /\ tail' = IF kind = "prompt" THEN "prompt" ELSE tail
  BY GoMoves, EndsMoves DEF execute, Places, Inside, Results
<1>5. \/ MovedTo(r, "settling") /\ UNCHANGED <<loop, tail>> /\ loop' \in LoopType
      \/ /\ MovedTo(r, "boundary")
         /\ loop' \in LoopType /\ loop'.drain = (kind = "wake")
         /\ loop'.first = (kind = "wake") /\ loop'.resuming = (kind = "resume")
         /\ kind # "resume" /\ intr = 0
         /\ tail' = IF kind = "prompt" THEN "prompt" ELSE tail
  BY <1>2, <1>3, <1>4, LoopBegins DEF execute
<1>6. TypeOK'
  <2>1. runs' \in [Runs -> RunType] /\ loop' \in LoopType
    BY <1>5 DEF MovedTo
  <2>2. spent' \in [Doings -> Nat]
    BY SpendTyped DEF execute, TypeOK, Free, Fault, Doings
  <2>3. tail' \in {"quiet", "prompt", "calls"}
    BY DEF execute, TypeOK, storyVars
  <2>4. UNCHANGED <<scene, marks, facadeVars, chain, place, active, intr, told>>
    BY DEF execute, busVars, storyVars
  <2> QED
    BY <2>1, <2>2, <2>3, <2>4, TypesOfStep DEF TypeOK, facadeVars
<1>7. Keeps(r)
  BY <1>1, <1>5 DEF execute, facadeVars, storyVars, Inside, Keeps, MovedTo
<1>8. LoopOf(r)'
  BY <1>5 DEF LoopOf, Turning, MovedTo
<1>9. TailOf(r)'
  BY <1>1, <1>2, <1>5 DEF execute, TailOf, EndingOf, MovedTo, storyVars, marks
<1>10. InputOf(r)'
  BY <1>1, <1>2, <1>5 DEF execute, InputOf, Turning, MovedTo, hasItems, Queued, busVars
<1> QED
  BY <1>6, <1>7, <1>8, <1>9, <1>10 DEF Does

LEMMA ContinuesDoes ==
    ASSUME TypeOK, Inv, NEW r \in Runs, Continues(r)
    PROVE  Does(r)
<1>1. runs[r].pc = "assembling" /\ LoopOf(r) /\ TailOf(r) /\ InputOf(r)
  BY DEF Continues, At, Inv, Inside
<1>2. intr \in 0..MaxTurns /\ intr # 0
  BY <1>1 DEF Continues, TypeOK, Inv, Resumes, Chained, Inside
<1>3. loop \in LoopType
  BY DEF TypeOK, LoopType
<1>4. \/ MovedTo(r, "settling") /\ UNCHANGED loop
      \/ MovedTo(r, "boundary") /\ loop' = FirstTurn("resume", intr)
  BY GoMoves, EndsMoves DEF Continues, Places, Inside, Results
<1>5. \/ MovedTo(r, "settling") /\ UNCHANGED loop /\ loop' \in LoopType
      \/ /\ MovedTo(r, "boundary")
         /\ loop' \in LoopType /\ ~loop'.drain /\ ~loop'.first /\ loop'.resuming
         /\ loop'.turns # 0
  BY <1>2, <1>3, <1>4, LoopBegins
<1>6. TypeOK'
  <2>1. runs' \in [Runs -> RunType] /\ loop' \in LoopType
    BY <1>5 DEF MovedTo
  <2>2. spent' \in [Doings -> Nat]
    BY SpendTyped DEF Continues, TypeOK, Free, Fault, Doings
  <2>3. tail' \in {"quiet", "prompt", "calls"}
    BY DEF Continues, TypeOK, storyVars
  <2>4. UNCHANGED <<scene, marks, facadeVars, chain, place, active, intr, told>>
    BY DEF Continues, busVars, storyVars
  <2> QED
    BY <2>1, <2>2, <2>3, <2>4, TypesOfStep DEF TypeOK, facadeVars
<1>7. Keeps(r)
  BY <1>1, <1>5 DEF Continues, facadeVars, storyVars, Inside, Keeps, MovedTo
<1>8. LoopOf(r)'
  BY <1>5 DEF LoopOf, Turning, MovedTo
<1>9. TailOf(r)'
  BY <1>1, <1>2, <1>5 DEF Continues, TailOf, EndingOf, MovedTo, storyVars, marks
<1>10. InputOf(r)'
  BY <1>1, <1>2, <1>5 DEF Continues, InputOf, Turning, MovedTo, hasItems, Queued, busVars
<1> QED
  BY <1>6, <1>7, <1>8, <1>9, <1>10 DEF Does
---------------------------------------------------------------------------
(* Steps beside the run that has the lock.                                 *)

(* Nothing happens to those who wait for the lock or have it.              *)
Aside ==
    /\ \A q \in Runs : runs[q].pc \in Chained \/ runs'[q].pc \in Chained =>
          runs'[q].pc = runs[q].pc /\ runs'[q].kind = runs[q].kind /\ runs'[q].fed = runs[q].fed
    /\ UNCHANGED <<chain, loop, tail, intr, claimed>>
    /\ hasItems => hasItems'
    /\ OneResume'

LEMMA AsideKeepsInv ==
    ASSUME TypeOK, Inv, Aside
    PROVE  Inv'
<1>1. \A q \in Runs : runs'[q].pc \in Chained <=> runs[q].pc \in Chained
  BY DEF Aside
<1>2. \A q \in Runs : runs'[q].pc \in Inside <=> runs[q].pc \in Inside
  BY DEF Aside, Chained
<1>3. Lock'
  <2>1. \A i \in 1..Len(chain) : chain[i] \in Runs
    BY DEF TypeOK
  <2>2. chain' = chain
    BY DEF Aside
  <2>3. \A q \in Runs : runs'[q].pc \in Chained => runs'[q].kind = runs[q].kind
    BY DEF Aside
  <2> QED
    BY <1>1, <1>2, <2>1, <2>2, <2>3 DEF Inv, Lock
<1>4. Resumes'
  BY <1>1 DEF Aside, Inv, Resumes, OneResume
<1>5. \A q \in Runs : runs'[q].pc \in Inside => LoopOf(q)' /\ TailOf(q)'
  <2> SUFFICES ASSUME NEW q \in Runs, runs'[q].pc \in Inside
               PROVE  LoopOf(q)' /\ TailOf(q)'
    OBVIOUS
  <2>1. runs'[q].pc = runs[q].pc /\ runs'[q].kind = runs[q].kind
    BY DEF Aside, Chained
  <2>2. LoopOf(q) /\ TailOf(q) /\ UNCHANGED <<loop, tail, intr, claimed>>
    BY <2>1 DEF Inv, Aside
  <2>3. LoopOf(q)'
    BY <2>1, <2>2 DEF LoopOf
  <2>4. TailOf(q)'
    BY <2>1, <2>2 DEF TailOf, EndingOf
  <2> QED
    BY <2>3, <2>4
<1>6. \A q \in Runs : InputOf(q)'
  <2> SUFFICES ASSUME NEW q \in Runs, runs'[q].pc \in Chained PROVE InputOf(q)'
    BY DEF InputOf, Chained, Turning, Inside
  <2> QED
    BY DEF Aside, Inv, InputOf
<1>7. Between'
  BY <1>2 DEF Aside, Inv, Between
<1> QED
  BY <1>3, <1>4, <1>5, <1>6, <1>7 DEF Inv

(* A run that queues for the lock.                                         *)
LEMMA QueueKeepsInv ==
    ASSUME TypeOK, Inv, NEW r \in Runs, runs[r].pc \notin Chained,
           runs'[r].pc = "queued", \A q \in Runs \ {r} : runs'[q] = runs[q],
           chain' = Append(chain, r), UNCHANGED <<loop, tail, intr, place, claimed>>,
           runs'[r].kind = "wake" => InFlight = {} /\ hasItems,
           runs'[r].kind = "resume" => intr # 0,
           OneResume'
    PROVE  Inv'
<1>1. /\ Len(chain) \in Nat /\ Len(chain') = Len(chain) + 1
      /\ \A i \in 1..Len(chain) : chain'[i] = chain[i] /\ chain[i] \in Runs
      /\ chain'[Len(chain) + 1] = r
  BY DEF TypeOK
<1>2. \A q \in Runs : runs'[q].pc \in Chained <=> runs[q].pc \in Chained \/ q = r
  BY DEF Chained
<1>3. \A q \in Runs : runs'[q].pc \in Inside <=> runs[q].pc \in Inside
  BY DEF Chained, Inside
<1>4. Lock'
  <2>1. \A i \in 1..Len(chain) : chain[i] # r
    BY DEF Inv, Lock
  <2>2. (\A i \in 1..Len(chain) : runs[chain[i]].pc \in Chained)'
    BY <1>1, <1>2 DEF Inv, Lock
  <2>3. (\A i, j \in 1..Len(chain) : chain[i] = chain[j] => i = j)'
    BY <1>1, <2>1 DEF Inv, Lock
  <2>4. (\A q \in Runs : runs[q].pc \in Chained => \E i \in 1..Len(chain) : chain[i] = q)'
    BY <1>1, <1>2 DEF Inv, Lock
  <2>5. (\A q \in Runs : \/ runs[q].pc \in Inside
                         \/ runs[q].pc \in Chained /\ runs[q].kind = "wake"
                         => chain[1] = q)'
    <3> SUFFICES ASSUME NEW q \in Runs,
                        \/ runs'[q].pc \in Inside
                        \/ runs'[q].pc \in Chained /\ runs'[q].kind = "wake"
                 PROVE  chain'[1] = q
      OBVIOUS
    <3>1. CASE q # r
      <4>1. runs[q].pc \in Chained
        BY <3>1, <1>2 DEF Chained
      <4>2. Len(chain) # 0
        BY <4>1, <1>1 DEF Inv, Lock
      <4> QED
        BY <1>1, <3>1, <4>2 DEF Inv, Lock
    <3>2. CASE q = r
      <4>1. InFlight = {}
        BY <3>2, <1>3 DEF Chained
      <4>2. Len(chain) = 0
        BY <4>1, <1>1 DEF Inv, Lock, InFlight, Chained, Inside
      <4> QED
        BY <1>1, <3>2, <4>2
    <3> QED
      BY <3>1, <3>2
  <2> QED
    BY <2>2, <2>3, <2>4, <2>5 DEF Lock
<1>5. Resumes'
  BY <1>2 DEF Inv, Resumes, OneResume
<1>6. \A q \in Runs : runs'[q].pc \in Inside => LoopOf(q)' /\ TailOf(q)'
  <2> SUFFICES ASSUME NEW q \in Runs, runs'[q].pc \in Inside
               PROVE  LoopOf(q)' /\ TailOf(q)'
    OBVIOUS
  <2>1. runs'[q] = runs[q] /\ LoopOf(q) /\ TailOf(q)
    BY <1>3 DEF Inside, Inv
  <2>2. LoopOf(q)'
    BY <2>1 DEF LoopOf
  <2>3. TailOf(q)'
    BY <2>1 DEF TailOf, EndingOf
  <2> QED
    BY <2>2, <2>3
<1>7. \A q \in Runs : InputOf(q)'
  <2> SUFFICES ASSUME NEW q \in Runs PROVE InputOf(q)'
    OBVIOUS
  <2>1. hasItems' = hasItems
    BY DEF hasItems, Queued
  <2>2. CASE q = r
    BY <2>1, <2>2 DEF InputOf, Turning, Inside
  <2>3. CASE q # r
    <3>1. runs'[q] = runs[q] /\ InputOf(q)
      BY <2>3 DEF Inv
    <3> QED
      BY <2>1, <3>1 DEF InputOf
  <2> QED
    BY <2>2, <2>3
<1>8. Between'
  BY <1>3 DEF Inv, Between
<1> QED
  BY <1>4, <1>5, <1>6, <1>7, <1>8 DEF Inv

(* A run that settles lets the next one have the lock.                     *)
LEMMA LockAfterSettles ==
    ASSUME TypeOK, Inv, NEW r \in Runs, Settles(r)
    PROVE  /\ Lock' /\ chain' \in Seq(Runs)
           /\ runs' \in [Runs -> RunType] /\ runs'[r].pc = "none"
           /\ \A q \in Runs \ {r} : runs'[q] = runs[q]
           /\ \A q \in Runs : runs'[q].pc \notin Inside
           /\ \A q \in Runs : runs'[q].pc \in Chained => runs'[q].kind # "wake"
<1>1. runs[r].pc = "settling" /\ chain' = Tail(chain)
  BY DEF Settles, LetGo, At
<1>2. chain[1] = r /\ Len(chain) \in Nat \ {0} /\ chain \in Seq(Runs)
  BY <1>1 DEF TypeOK, Inv, Lock, Inside, Chained
<1>3. /\ chain' \in Seq(Runs) /\ Len(chain') = Len(chain) - 1
      /\ \A i \in 1..Len(chain') : chain'[i] = chain[i + 1]
  BY <1>1, <1>2
<1>4. /\ runs' \in [Runs -> RunType] /\ runs'[r].pc = "none"
      /\ \A q \in Runs \ {r} : runs'[q] = runs[q]
  BY DEF Settles, Gone, TypeOK, RunType, NoRun, Places, Results
<1>5. \A q \in Runs : runs'[q].pc \notin Inside
  BY <1>2, <1>4 DEF Inv, Lock, Inside
<1>6. \A q \in Runs : runs'[q].pc \in Chained => runs'[q].kind # "wake"
  BY <1>2, <1>4 DEF Inv, Lock, Chained, Inside
<1>7. \A i \in 1..Len(chain') : i + 1 \in 1..Len(chain) /\ chain[i + 1] # r
  BY <1>2, <1>3 DEF Inv, Lock
<1>8. (\A i \in 1..Len(chain) : runs[chain[i]].pc \in Chained)'
  <2> SUFFICES ASSUME NEW i \in 1..Len(chain') PROVE runs'[chain'[i]].pc \in Chained
    OBVIOUS
  <2>1. chain[i + 1] \in Runs \ {r} /\ runs[chain[i + 1]].pc \in Chained
    BY <1>2, <1>7 DEF Inv, Lock
  <2> QED
    BY <1>3, <1>4, <2>1
<1>9. (\A i, j \in 1..Len(chain) : chain[i] = chain[j] => i = j)'
  <2> SUFFICES ASSUME NEW i \in 1..Len(chain'), NEW j \in 1..Len(chain'),
                      chain'[i] = chain'[j]
               PROVE  i = j
    OBVIOUS
  <2>1. i + 1 = j + 1
    BY <1>3, <1>7 DEF Inv, Lock
  <2> QED
    BY <2>1, <1>2, <1>3
<1>10. (\A q \in Runs : runs[q].pc \in Chained => \E i \in 1..Len(chain) : chain[i] = q)'
  <2> SUFFICES ASSUME NEW q \in Runs, runs'[q].pc \in Chained
               PROVE  \E i \in 1..Len(chain') : chain'[i] = q
    OBVIOUS
  <2>1. q # r /\ runs[q].pc \in Chained
    BY <1>4 DEF Chained, Inside
  <2>2. PICK i \in 1..Len(chain) : chain[i] = q
    BY <2>1 DEF Inv, Lock
  <2>3. i # 1
    BY <2>1, <2>2, <1>2
  <2>4. i - 1 \in 1..Len(chain') /\ chain'[i - 1] = q
    BY <2>2, <2>3, <1>2, <1>3
  <2> QED
    BY <2>4
<1> QED
  BY <1>3, <1>4, <1>5, <1>6, <1>8, <1>9, <1>10 DEF Lock

LEMMA SettlesKeepsInv ==
    ASSUME TypeOK, Inv, NEW r \in Runs, Settles(r)
    PROVE  TypeOK' /\ Inv'
<1>1. runs[r].pc = "settling" /\ TailOf(r)
  BY DEF Settles, At, Inv, Inside
<1>2. /\ Lock' /\ chain' \in Seq(Runs)
      /\ runs' \in [Runs -> RunType] /\ runs'[r].pc = "none"
      /\ \A q \in Runs \ {r} : runs'[q] = runs[q]
      /\ \A q \in Runs : runs'[q].pc \notin Inside
      /\ \A q \in Runs : runs'[q].pc \in Chained => runs'[q].kind # "wake"
  BY LockAfterSettles
<1>3. TypeOK'
  <2>1. loop' \in LoopType
    BY CapsAssumption DEF Settles, NoLoop, LoopType, Stops, MAX_STEP_RECOVERIES_PER_TURN
  <2>2. spent' \in [Doings -> Nat]
    BY SpendTyped DEF Settles, SettleResult, TypeOK, Free, Fault, Doings
  <2>3. interrupted' \in BOOLEAN
    BY DEF Settles, FlagAfter, TypeOK
  <2>4. intr' \in 0..MaxTurns /\ tail' \in {"quiet", "prompt", "calls"}
    BY CapsAssumption DEF Settles, TypeOK
  <2>5. waited' \in SUBSET Runs /\ wake' \in BOOLEAN
    BY DEF Settles, endRun, scheduleIdleWake, TypeOK
  <2>6. UNCHANGED <<scene, life, gate, place, active, told, slipped>>
    BY DEF Settles, busVars
  <2>7. parted' \in {"no", "blocked", "flush"} /\ claimed' \in BOOLEAN
    BY DEF Settles, Parting, TypeOK
  <2> QED
    BY <1>2, <2>1, <2>2, <2>3, <2>4, <2>5, <2>6, <2>7 DEF TypeOK, RunType, LoopType
<1>4. Resumes'
  <2>1. \A q \in InFlight' : q \in InFlight /\ runs'[q] = runs[q] /\ q # r
    BY <1>2 DEF InFlight
  <2>2. \A q \in Runs : runs'[q].kind = "resume" /\ runs'[q].pc \in Chained => intr' # 0
    <3> SUFFICES ASSUME NEW q \in Runs, runs'[q].kind = "resume", runs'[q].pc \in Chained
                 PROVE  intr' # 0
      OBVIOUS
    <3>1. q # r /\ runs'[q] = runs[q]
      BY <1>2 DEF Chained, Inside
    <3>2. q \in InFlight /\ r \in InFlight
      BY <1>1, <3>1 DEF InFlight, Chained, Inside
    <3>3. runs[r].kind # "resume"
      BY <3>1, <3>2 DEF Inv, Resumes, OneResume
    <3>4. intr # 0
      BY <3>1 DEF Inv, Resumes
    <3> QED
      BY <3>3, <3>4 DEF Settles
  <2>3. \A q \in Runs : runs'[q].pc = "reading" => runs'[q].kind = "resume"
    BY <1>2 DEF Inv, Resumes, OneResume
  <2> QED
    BY <2>1, <2>2, <2>3 DEF Inv, Resumes, OneResume
<1>5. \A q \in Runs : InputOf(q)'
  BY <1>2 DEF InputOf, Chained, Turning, Inside
<1>6. Between'
  <2>1. intr' \in {0, intr}
    BY DEF Settles
  <2>2. tail' = IF intr' # 0 THEN tail ELSE "quiet"
    BY DEF Settles
  <2>3. claimed' = (claimed /\ intr' # 0)
    BY DEF Settles
  <2> QED
    BY <1>1, <2>1, <2>2, <2>3 DEF TailOf, EndingOf, Between
<1> QED
  BY <1>2, <1>3, <1>4, <1>5, <1>6 DEF Inv
---------------------------------------------------------------------------
(* The facade and the producers.                                           *)

LEMMA EnteredTyped ==
    ASSUME TypeOK, NEW r \in Runs, NEW kind \in {"prompt", "wake", "resume"},
           NEW pc \in Places, Entered(r, kind, pc)
    PROVE  /\ runs' \in [Runs -> RunType]
           /\ runs'[r].pc = pc /\ runs'[r].kind = kind
           /\ \A q \in Runs \ {r} : runs'[q] = runs[q]
<1> DEFINE placed == [NoRun EXCEPT !.pc = pc]
           run == [placed EXCEPT !.kind = kind]
<1>1. NoRun \in RunType
  BY DEF NoRun, RunType, Places, Results
<1>2. placed \in RunType /\ placed.pc = pc
  BY <1>1 DEF RunType
<1>3. run \in RunType /\ run.pc = placed.pc /\ run.kind = kind
  <2> HIDE DEF placed
  <2> QED BY <1>2 DEF RunType
<1>4. runs' = [runs EXCEPT ![r] = run]
  BY DEF Entered
<1> HIDE DEF run
<1> QED
  BY <1>2, <1>3, <1>4 DEF TypeOK, RunType

LEMMA GoneTyped ==
    ASSUME TypeOK, NEW r \in Runs, Gone(r)
    PROVE  /\ runs' \in [Runs -> RunType] /\ runs'[r].pc = "none"
           /\ \A q \in Runs \ {r} : runs'[q] = runs[q]
BY DEF TypeOK, Gone, NoRun, RunType, Places, Results

(* Where a run enters or goes without the lock nothing else is touched.    *)
LEMMA BesideTyped ==
    ASSUME TypeOK, runs' \in [Runs -> RunType], chain' \in Seq(Runs),
           spent' \in [Doings -> Nat], waited' \in SUBSET Runs, wake' \in BOOLEAN,
           UNCHANGED <<scene, marks, life, gate, interrupted, loop, busVars, storyVars>>
    PROVE  TypeOK'
BY DEF TypeOK, RunType, busVars, storyVars, marks

LEMMA NoneIsChained ==
    \A r \in Runs : runs[r].pc \in {"none", "parked", "passed", "reading"} => runs[r].pc \notin Chained
BY DEF Chained, Inside

(* A call that is parked, refused or reads the interruption is not queued. *)
LEMMA BesideKeepsInv ==
    ASSUME TypeOK, Inv, NEW r \in Runs,
           runs[r].pc \in {"none", "parked", "passed", "reading"},
           runs'[r].pc \in {"none", "parked", "passed", "reading"},
           \A q \in Runs \ {r} : runs'[q] = runs[q],
           UNCHANGED <<chain, loop, busVars, storyVars, marks>>, OneResume'
    PROVE  Inv'
<1>1. runs[r].pc \notin Chained /\ runs'[r].pc \notin Chained
  BY DEF Chained, Inside
<1>2. hasItems' = hasItems
  BY DEF hasItems, Queued, busVars
<1> QED
  BY <1>1, <1>2, AsideKeepsInv DEF Aside, storyVars, marks

(* Fewer in flight, or the only one in flight: one resume at most.         *)
LEMMA OneResumeStays ==
    ASSUME Inv, NEW r \in Runs, \A q \in Runs \ {r} : runs'[q] = runs[q],
           \/ runs'[r].pc \in {"none", "parked", "passed"}
           \/ runs'[r].kind # "resume"
           \/ InFlight \subseteq {r}
           \/ r \in InFlight /\ runs'[r].kind = runs[r].kind,
           runs'[r].pc = "reading" => runs'[r].kind = "resume"
    PROVE  OneResume'
<1>1. (\A q \in Runs : runs[q].pc = "reading" => runs[q].kind = "resume")'
  BY DEF Inv, Resumes, OneResume
<1>2. \A q \in Runs \ {r} : q \in InFlight' => q \in InFlight
  BY DEF InFlight
<1>3. \A p, q \in InFlight \ {r} :
         runs'[p].kind = "resume" /\ runs'[q].kind = "resume" => p = q
  BY DEF Inv, Resumes, OneResume, InFlight
<1>4. CASE runs'[r].pc \in {"none", "parked", "passed"}
  <2>1. r \notin InFlight'
    BY <1>4 DEF InFlight
  <2> QED
    BY <2>1, <1>2, <1>3, <1>1 DEF OneResume, InFlight
<1>5. CASE runs'[r].kind # "resume"
  BY <1>5, <1>2, <1>3, <1>1 DEF OneResume, InFlight
<1>6. CASE InFlight \subseteq {r}
  <2>1. \A q \in InFlight' : q = r
    BY <1>2, <1>6 DEF InFlight
  <2> QED
    BY <2>1, <1>1 DEF OneResume
<1>7. CASE r \in InFlight /\ runs'[r].kind = runs[r].kind
  <2>1. \A q \in InFlight' : q \in InFlight /\ runs'[q].kind = runs[q].kind
    BY <1>2, <1>7 DEF InFlight
  <2> QED
    BY <2>1, <1>1 DEF OneResume, Inv, Resumes
<1> QED
  BY <1>4, <1>5, <1>6, <1>7

LEMMA promptKeepsInv ==
    ASSUME TypeOK, Inv, NEW r \in Runs, prompt(r)
    PROVE  TypeOK' /\ Inv'
<1>1. /\ runs[r].pc = "none" /\ spent' \in [Doings -> Nat]
      /\ UNCHANGED <<scene, marks, facadeVars, loop, busVars, storyVars>>
  BY SpendTyped DEF prompt, At, Doings
<1>2. CASE Begins(r, "prompt")
  <2>1. /\ runs' \in [Runs -> RunType] /\ runs'[r].pc = "queued" /\ runs'[r].kind = "prompt"
        /\ \A q \in Runs \ {r} : runs'[q] = runs[q]
    BY <1>2, EnteredTyped DEF Begins, Places
  <2>2. chain' = Append(chain, r) /\ chain' \in Seq(Runs)
    BY <1>2 DEF Begins, TypeOK
  <2>3. TypeOK'
    BY <1>1, <2>1, <2>2, BesideTyped DEF TypeOK, facadeVars
  <2>4. OneResume'
    BY <2>1, OneResumeStays
  <2>5. runs[r].pc \notin Chained
    BY <1>1, NoneIsChained
  <2>6. Inv'
    BY <1>1, <2>1, <2>2, <2>4, <2>5, QueueKeepsInv DEF busVars, storyVars, marks
  <2> QED
    BY <2>3, <2>6
<1>3. CASE Entered(r, "prompt", "parked") /\ UNCHANGED chain
  <2>1. /\ runs' \in [Runs -> RunType] /\ runs'[r].pc = "parked"
        /\ \A q \in Runs \ {r} : runs'[q] = runs[q]
    BY <1>3, EnteredTyped DEF Places
  <2>2. TypeOK'
    BY <1>1, <1>3, <2>1, BesideTyped DEF TypeOK, facadeVars
  <2>3. OneResume'
    BY <2>1, OneResumeStays
  <2>4. Inv'
    BY <1>1, <1>3, <2>1, <2>3, BesideKeepsInv
  <2> QED
    BY <2>2, <2>4
<1> QED
  BY <1>2, <1>3 DEF prompt

LEMMA resumeKeepsInv ==
    ASSUME TypeOK, Inv, NEW r \in Runs, resume(r)
    PROVE  TypeOK' /\ Inv'
<1>1. /\ runs[r].pc = "none" /\ spent' \in [Doings -> Nat]
      /\ UNCHANGED <<scene, marks, facadeVars, chain, loop, busVars, storyVars>>
  BY SpendTyped DEF resume, At, Doings
<1>2. PICK pc \in {"parked", "reading"} :
         Entered(r, "resume", pc) /\ (pc = "reading" => InFlight = {})
  BY DEF resume
<1>3. /\ runs' \in [Runs -> RunType] /\ runs'[r].pc = pc /\ runs'[r].kind = "resume"
      /\ \A q \in Runs \ {r} : runs'[q] = runs[q]
  BY <1>2, EnteredTyped DEF Places
<1>4. TypeOK'
  BY <1>1, <1>3, BesideTyped DEF TypeOK, facadeVars
<1>5. OneResume'
  BY <1>2, <1>3, OneResumeStays
<1>6. Inv'
  BY <1>1, <1>3, <1>5, BesideKeepsInv
<1> QED
  BY <1>4, <1>6

LEMMA IdleWakeStartsKeepsInv ==
    ASSUME TypeOK, Inv, NEW r \in Runs, IdleWakeStarts(r)
    PROVE  TypeOK' /\ Inv'
<1>1. /\ runs[r].pc = "none" /\ InFlight = {} /\ hasItems /\ wake' \in BOOLEAN
      /\ UNCHANGED <<scene, marks, spent, life, gate, waited, interrupted, loop, busVars, storyVars>>
  BY DEF IdleWakeStarts, At, wakeWanted
<1>2. /\ runs' \in [Runs -> RunType] /\ runs'[r].pc = "queued" /\ runs'[r].kind = "wake"
      /\ \A q \in Runs \ {r} : runs'[q] = runs[q]
  BY EnteredTyped DEF IdleWakeStarts, Begins, Places
<1>3. chain' = Append(chain, r) /\ chain' \in Seq(Runs)
  BY DEF IdleWakeStarts, Begins, TypeOK
<1>4. TypeOK'
  BY <1>1, <1>2, <1>3, BesideTyped DEF TypeOK
<1>5. OneResume'
  BY <1>2, OneResumeStays
<1>6. runs[r].pc \notin Chained
  BY <1>1, NoneIsChained
<1>7. Inv'
  BY <1>1, <1>2, <1>3, <1>5, <1>6, QueueKeepsInv DEF busVars, storyVars, marks
<1> QED
  BY <1>4, <1>7

LEMMA UnparksKeepsInv ==
    ASSUME TypeOK, Inv, NEW r \in Runs, Unparks(r)
    PROVE  TypeOK' /\ Inv'
<1>1. /\ runs[r].pc = "parked"
      /\ UNCHANGED <<scene, marks, spent, facadeVars, chain, loop, busVars, storyVars>>
  BY DEF Unparks, At
<1>2. /\ runs' \in [Runs -> RunType] /\ runs'[r].pc \in {"none", "passed"}
      /\ \A q \in Runs \ {r} : runs'[q] = runs[q]
  BY GoneTyped, GoMoves DEF Unparks, parkAtGate, Places, MovedTo
<1>3. TypeOK'
  BY <1>1, <1>2, BesideTyped DEF TypeOK, facadeVars
<1>4. OneResume'
  BY <1>2, OneResumeStays
<1>5. Inv'
  BY <1>1, <1>2, <1>4, BesideKeepsInv
<1> QED
  BY <1>3, <1>5

LEMMA LeavesGateKeepsInv ==
    ASSUME TypeOK, Inv, NEW r \in Runs, LeavesGate(r)
    PROVE  TypeOK' /\ Inv'
<1>1. /\ runs[r].pc = "passed"
      /\ UNCHANGED <<scene, marks, spent, facadeVars, loop, busVars, storyVars>>
  BY DEF LeavesGate, At
<1>2. CASE Begins(r, "prompt")
  <2>1. /\ runs' \in [Runs -> RunType] /\ runs'[r].pc = "queued" /\ runs'[r].kind = "prompt"
        /\ \A q \in Runs \ {r} : runs'[q] = runs[q]
    BY <1>2, EnteredTyped DEF Begins, Places
  <2>2. chain' = Append(chain, r) /\ chain' \in Seq(Runs)
    BY <1>2 DEF Begins, TypeOK
  <2>3. TypeOK'
    BY <1>1, <2>1, <2>2, BesideTyped DEF TypeOK, facadeVars
  <2>4. OneResume'
    BY <2>1, OneResumeStays
  <2>5. runs[r].pc \notin Chained
    BY <1>1, NoneIsChained
  <2>6. Inv'
    BY <1>1, <2>1, <2>2, <2>4, <2>5, QueueKeepsInv DEF busVars, storyVars, marks
  <2> QED
    BY <2>3, <2>6
<1>3. CASE UNCHANGED chain /\ (Gone(r) \/ (Go(r, "reading") /\ InFlight = {} /\ runs[r].kind = "resume"))
  <2>1. /\ runs' \in [Runs -> RunType] /\ runs'[r].pc \in {"none", "reading"}
        /\ \A q \in Runs \ {r} : runs'[q] = runs[q]
        /\ runs'[r].pc = "reading" => InFlight = {} /\ runs'[r].kind = "resume"
    BY <1>3, GoneTyped, GoMoves DEF Places, MovedTo
  <2>2. TypeOK'
    BY <1>1, <1>3, <2>1, BesideTyped DEF TypeOK, facadeVars
  <2>3. OneResume'
    BY <2>1, OneResumeStays
  <2>4. Inv'
    BY <1>1, <1>3, <2>1, <2>3, BesideKeepsInv
  <2> QED
    BY <2>2, <2>4
<1> QED
  BY <1>2, <1>3 DEF LeavesGate

LEMMA ReadsInterruptionKeepsInv ==
    ASSUME TypeOK, Inv, NEW r \in Runs, ReadsInterruption(r)
    PROVE  TypeOK' /\ Inv'
<1>1. /\ runs[r].pc = "reading" /\ r \in InFlight
      /\ waited' \in SUBSET Runs /\ wake' \in BOOLEAN
      /\ UNCHANGED <<scene, marks, spent, life, gate, interrupted, loop, busVars, storyVars>>
  BY DEF ReadsInterruption, At, InFlight, TypeOK, scheduleIdleWake
<1>2. CASE intr # 0 /\ Go(r, "queued") /\ chain' = Append(chain, r)
  <2>1. MovedTo(r, "queued")
    BY <1>2, GoMoves DEF Places
  <2>2. chain' \in Seq(Runs)
    BY <1>2 DEF TypeOK
  <2>3. TypeOK'
    BY <1>1, <2>1, <2>2, BesideTyped DEF TypeOK, MovedTo
  <2>4. OneResume'
    BY <1>1, <2>1, OneResumeStays DEF MovedTo
  <2>5. runs[r].pc \notin Chained
    BY <1>1, NoneIsChained
  <2>6. Inv'
    <3>1. runs'[r].kind # "wake"
      BY <1>1, <2>1 DEF MovedTo, Inv, Resumes, OneResume
    <3> QED
      BY <1>1, <1>2, <2>1, <2>4, <2>5, <3>1, QueueKeepsInv DEF busVars, storyVars, marks, MovedTo
  <2> QED
    BY <2>3, <2>6
<1>3. CASE Gone(r) /\ UNCHANGED chain
  <2>1. /\ runs' \in [Runs -> RunType] /\ runs'[r].pc = "none"
        /\ \A q \in Runs \ {r} : runs'[q] = runs[q]
    BY <1>3, GoneTyped
  <2>2. TypeOK'
    BY <1>1, <1>3, <2>1, BesideTyped DEF TypeOK
  <2>3. OneResume'
    BY <2>1, OneResumeStays
  <2>4. Inv'
    BY <1>1, <1>3, <2>1, <2>3, BesideKeepsInv
  <2> QED
    BY <2>2, <2>4
<1> QED
  BY <1>2, <1>3 DEF ReadsInterruption

(* Who sends, holds, lets go or closes does not touch the run with the     *)
(* lock; an abort is a mark on it.                                         *)
Bystander ==
    \/ \E m \in Messages : steer(m) \/ followUp(m)
    \/ IdleWakeStandsDown \/ holdAtBoundary \/ release
    \/ cancel \/ close \/ runClose \/ UNCHANGED vars

LEMMA AbortedTyped ==
    ASSUME TypeOK, runs' = Aborted
    PROVE  /\ runs' \in [Runs -> RunType]
           /\ \A q \in Runs : /\ runs'[q].pc = runs[q].pc /\ runs'[q].kind = runs[q].kind
                              /\ runs'[q].fed = runs[q].fed
BY DEF TypeOK, Aborted, RunType

LEMMA BystanderKeepsRuns ==
    ASSUME TypeOK, Bystander
    PROVE  /\ runs' \in [Runs -> RunType]
           /\ \A q \in Runs : /\ runs'[q].pc = runs[q].pc /\ runs'[q].kind = runs[q].kind
                              /\ runs'[q].fed = runs[q].fed
           /\ UNCHANGED <<scene, parted, claimed, interrupted, chain, loop, storyVars>>
<1>1. UNCHANGED <<scene, parted, claimed, interrupted, chain, loop, storyVars>>
  BY DEF Bystander, steer, followUp, enqueue, IdleWakeStandsDown, holdAtBoundary,
         release, cancel, close, runClose, vars, facadeVars, marks
<1>2. UNCHANGED runs \/ runs' = Aborted
  BY DEF Bystander, steer, followUp, enqueue, IdleWakeStandsDown, holdAtBoundary,
         release, cancel, close, runClose, vars
<1>3. CASE UNCHANGED runs
  BY <1>1, <1>3 DEF TypeOK, RunType
<1>4. CASE runs' = Aborted
  BY <1>1, <1>4, AbortedTyped
<1> QED
  BY <1>2, <1>3, <1>4

LEMMA BystanderPlaces ==
    ASSUME TypeOK, Bystander
    PROVE  /\ place' \in [Messages -> {"out", "steering", "followUp", "taken"}]
           /\ \A m \in Messages :
                 \/ place'[m] = place[m]
                 \/ place[m] = "out" /\ place'[m] \in {"steering", "followUp"}
           /\ active' = active
<1>1. CASE \E m \in Messages : steer(m) \/ followUp(m)
  BY <1>1 DEF steer, followUp, enqueue, TypeOK
<1>2. CASE ~ \E m \in Messages : steer(m) \/ followUp(m)
  <2>1. UNCHANGED <<place, active>>
    BY <1>2 DEF Bystander, IdleWakeStandsDown, holdAtBoundary,
           release, cancel, close, runClose, vars, busVars
  <2> QED
    BY <2>1 DEF TypeOK
<1> QED
  BY <1>1, <1>2

LEMMA BystanderTyped ==
    ASSUME TypeOK, Bystander
    PROVE  TypeOK'
<1>1. spent' \in [Doings -> Nat]
  <2>1. UNCHANGED spent \/ \E doing \in {"message", "hold", "cancel", "close"} : Spend(doing)
    BY DEF Bystander, steer, followUp, enqueue, IdleWakeStandsDown, holdAtBoundary,
           release, cancel, close, runClose, vars
  <2> QED
    BY <2>1, SpendTyped DEF TypeOK, Doings
<1>2. life' \in {"open", "closing", "closed"} /\ gate' \in {"open", "held"}
      /\ waited' \in SUBSET Runs /\ slipped' \in SUBSET Runs
  BY DEF Bystander, steer, followUp, enqueue, IdleWakeStandsDown, holdAtBoundary, AtTheDoor,
         release, Released, cancel, close, runClose, vars, facadeVars, marks, TypeOK, InFlight
<1>3. wake' \in BOOLEAN
  BY DEF Bystander, steer, followUp, enqueue, IdleWakeStandsDown, holdAtBoundary,
         release, scheduleIdleWake, cancel, close, runClose, vars, facadeVars, TypeOK
<1> QED
  BY <1>1, <1>2, <1>3, BystanderKeepsRuns, BystanderPlaces DEF TypeOK, RunType, storyVars

LEMMA BystanderKeepsInv ==
    ASSUME TypeOK, Inv, Bystander
    PROVE  TypeOK' /\ Inv'
<1>1. hasItems => hasItems'
  BY BystanderPlaces DEF hasItems, Queued
<1>2. OneResume'
  BY BystanderKeepsRuns DEF Inv, Resumes, OneResume, InFlight
<1>3. Aside
  BY <1>1, <1>2, BystanderKeepsRuns DEF Aside, storyVars
<1> QED
  BY <1>3, AsideKeepsInv, BystanderTyped

---------------------------------------------------------------------------
Middle(r) ==
    \/ withRunLock(r) \/ execute(r) \/ Continues(r) \/ TurnBoundary(r)
    \/ BeginTurn(r) \/ BatchAgain(r) \/ StepTop(r) \/ ModelAnswers(r)
    \/ ToolsEnd(r) \/ ToolsClaimed(r) \/ AfterStop(r)
    \/ TurnRejected(r) \/ TurnReturned(r)
    \/ BoundaryGates(r) \/ LiveAnswers(r) \/ pauseRun(r) \/ performHandoff(r)

LEMMA MiddleDoes ==
    ASSUME TypeOK, Inv, NEW r \in Runs, Middle(r)
    PROVE  Does(r)
BY withRunLockDoes, executeDoes, ContinuesDoes, TurnBoundaryDoes, BeginTurnDoes,
   BatchAgainDoes, StepTopDoes, ModelAnswersDoes, ToolsEndDoes, ToolsClaimedDoes, AfterStopDoes,
   TurnRejectedDoes, TurnReturnedDoes, BoundaryGatesDoes, LiveAnswersDoes,
   pauseRunDoes, performHandoffDoes DEF Middle

LEMMA InitEstablishesInv == Init => TypeOK /\ Inv
<1> SUFFICES ASSUME Init PROVE TypeOK /\ Inv
  OBVIOUS
<1>1. \A r \in Runs : runs[r].pc = "none"
  BY DEF Init, NoRun
<1>2. TypeOK
  <2>1. loop \in LoopType
    BY CapsAssumption DEF Init, NoLoop, LoopType, Stops, MAX_STEP_RECOVERIES_PER_TURN
  <2>2. runs \in [Runs -> RunType]
    BY DEF Init, NoRun, RunType, Places, Results
  <2>3. intr \in 0..MaxTurns /\ chain \in Seq(Runs)
    BY CapsAssumption DEF Init
  <2>4. /\ spent \in [Doings -> Nat] /\ waited \in SUBSET Runs
        /\ place \in [Messages -> {"out", "steering", "followUp", "taken"}]
    BY DEF Init
  <2> QED
    BY <2>1, <2>2, <2>3, <2>4 DEF Init, TypeOK, LoopType, RunType
<1>3. Lock
  BY <1>1 DEF Init, Lock, Chained, Inside
<1>4. Resumes
  BY <1>1 DEF Resumes, OneResume, InFlight, Chained, Inside
<1>5. \A r \in Runs : runs[r].pc \notin Inside /\ InputOf(r)
  BY <1>1 DEF Inside, InputOf, Turning
<1>6. Between
  BY DEF Init, Between
<1> QED
  BY <1>2, <1>3, <1>4, <1>5, <1>6 DEF Inv

(* The alternatives of a step, by what they do to the lock.                *)
LEMMA NextIsOneOf ==
    ASSUME [Next]_vars
    PROVE  \/ Bystander
           \/ \E r \in Runs : \/ prompt(r) \/ resume(r) \/ IdleWakeStarts(r)
                              \/ Unparks(r) \/ LeavesGate(r) \/ ReadsInterruption(r)
                              \/ Middle(r) \/ Settles(r)
BY DEF Next, RunStep, Middle, Bystander

LEMMA NextKeepsInv == TypeOK /\ Inv /\ [Next]_vars => TypeOK' /\ Inv'
<1> SUFFICES ASSUME TypeOK, Inv, [Next]_vars PROVE TypeOK' /\ Inv'
  OBVIOUS
<1>1. CASE Bystander
  BY <1>1, BystanderKeepsInv
<1>2. CASE \E r \in Runs : Middle(r)
  BY <1>2, MiddleDoes, DoesKeepsInv
<1>3. CASE \E r \in Runs : Settles(r)
  BY <1>3, SettlesKeepsInv
<1>4. CASE \E r \in Runs : prompt(r) \/ resume(r) \/ IdleWakeStarts(r)
                           \/ Unparks(r) \/ LeavesGate(r) \/ ReadsInterruption(r)
  BY <1>4, promptKeepsInv, resumeKeepsInv, IdleWakeStartsKeepsInv, UnparksKeepsInv,
     LeavesGateKeepsInv, ReadsInterruptionKeepsInv
<1> QED
  BY <1>1, <1>2, <1>3, <1>4, NextIsOneOf

LEMMA InvHolds == Spec => [](TypeOK /\ Inv)
BY InitEstablishesInv, NextKeepsInv, PTL DEF Spec

(* Every variable of a session keeps its type; no turn passes its caps on  *)
(* steps and recoveries, no run its cap on turns (runner.ts:848-850,       *)
(* run-turn.ts:55-75, 186-197).                                            *)
THEOREM SessionTypeCorrect == Spec => []TypeOK
BY InvHolds, PTL

(* One run at a time is between the run lock and its end, however prompts, *)
(* wakes, resumes, failures and aborts come (session.ts:1104-1114).        *)
AloneInside == \A q, r \in Runs :
                  runs[q].pc \in Inside /\ runs[r].pc \in Inside => q = r

THEOREM RunsTakeTurns == Spec => []AloneInside
<1>1. Inv => AloneInside
  BY DEF Inv, Lock, AloneInside
<1> QED
  BY <1>1, InvHolds, PTL

(* A run that an idle wake started has taken what it was started for when  *)
(* it asks the model: nobody can have come before it (harness.ts:841-858,  *)
(* runner.ts:652-655).                                                     *)
THEOREM WakesBringInput == Spec => []WakeBringsInput
<1>1. Inv => WakeBringsInput
  BY DEF Inv, InputOf, Turning, Inside, WakeBringsInput, At
<1> QED
  BY <1>1, InvHolds, PTL

---------------------------------------------------------------------------
(* What is said of one step by DrainsKeepTheConversation.                  *)
CallsStay ==
    tail = "calls" /\ ~claimed =>
        /\ \A m \in Messages : place'[m] = "taken" => place[m] = "taken"
        /\ tail' # "prompt"
FollowUpsWait ==
    \A m \in Messages :
        place[m] = "followUp" /\ place'[m] = "taken" => tail # "prompt" \/ claimed

LEMMA NothingTakenKeeps ==
    ASSUME UNCHANGED place, claimed \/ (tail = "calls" => tail' # "prompt")
    PROVE  CallsStay /\ FollowUpsWait
BY DEF CallsStay, FollowUpsWait

LEMMA SteeringTakenKeeps ==
    ASSUME TypeOK, NEW r, NEW pc, Take(r, Queued("steering"), pc), claimed \/ tail # "calls"
    PROVE  CallsStay /\ FollowUpsWait
BY DEF CallsStay, FollowUpsWait, Take, Queued

LEMMA TurnBoundaryKeepsCalls ==
    ASSUME TypeOK, Inv, NEW r \in Runs, TurnBoundary(r)
    PROVE  CallsStay /\ FollowUpsWait
<1>1. LoopOf(r) /\ TailOf(r) /\ runs[r].pc = "boundary" /\ tail' = tail
  BY DEF TurnBoundary, At, Inv, Inside, storyVars
<1>2. CASE UNCHANGED place
  BY <1>1, <1>2, NothingTakenKeeps
<1>3. CASE Take(r, BoundaryDrain(loop), "preparing")
  <2>1. tail = "calls" => BoundaryDrain(loop) = {} \/ claimed
    BY <1>1 DEF LoopOf, TailOf, EndingOf, BoundaryDrain
  <2>2. tail = "prompt" => BoundaryDrain(loop) \subseteq Queued("steering") \/ claimed
    BY <1>1 DEF TailOf, EndingOf, BoundaryDrain
  <2>3. \A m \in Messages :
           place'[m] = "taken" => place[m] = "taken" \/ m \in BoundaryDrain(loop)
    BY <1>3 DEF Take, TypeOK
  <2>4. \A m \in Messages : place[m] = "followUp" => m \notin Queued("steering")
    BY DEF Queued
  <2> QED
    BY <1>1, <2>1, <2>2, <2>3, <2>4 DEF CallsStay, FollowUpsWait
<1> QED
  BY <1>2, <1>3 DEF TurnBoundary

LEMMA LiveAnswersKeepsCalls ==
    ASSUME TypeOK, Inv, NEW r \in Runs, LiveAnswers(r)
    PROVE  CallsStay /\ FollowUpsWait
<1>1. ~loop.first /\ loop \in LoopType /\ tail' = tail
  BY DEF LiveAnswers, At, Inv, Inside, LoopOf, Turning, TypeOK, LoopType
<1>2. BoundaryDrain(SameTurn) = {}
  BY <1>1, TurnAgain DEF BoundaryDrain
<1>3. UNCHANGED place
  BY <1>2 DEF LiveAnswers, Take, TypeOK
<1> QED
  BY <1>1, <1>3, NothingTakenKeeps

LEMMA MiddleKeepsCalls ==
    ASSUME TypeOK, Inv, NEW r \in Runs, Middle(r)
    PROVE  CallsStay /\ FollowUpsWait
<1>1. CASE execute(r)
  <2>1. TailOf(r) /\ runs[r].pc = "assembling" /\ UNCHANGED place
    BY <1>1 DEF execute, At, Inv, Inside, busVars
  <2>2. claimed \/ (tail = "calls" => tail' # "prompt")
    BY <1>1, <2>1 DEF execute, TailOf, EndingOf
  <2> QED
    BY <2>1, <2>2, NothingTakenKeeps
<1>2. CASE StepTop(r)
  <2>1. (claimed \/ tail # "calls") /\ tail' = tail
    BY <1>2 DEF StepTop, At, Inv, Inside, TailOf, EndingOf, storyVars
  <2> QED
    BY <1>2, <2>1, SteeringTakenKeeps, NothingTakenKeeps DEF StepTop
<1>3. CASE AfterStop(r)
  <2>1. (claimed \/ tail # "calls") /\ tail' = tail
    BY <1>3 DEF AfterStop, At, Inv, Inside, TailOf, EndingOf, storyVars
  <2> QED
    BY <1>3, <2>1, SteeringTakenKeeps, NothingTakenKeeps DEF AfterStop
<1>4. CASE withRunLock(r) \/ Continues(r) \/ BeginTurn(r) \/ TurnRejected(r)
           \/ TurnReturned(r) \/ BoundaryGates(r) \/ pauseRun(r) \/ performHandoff(r)
  <2>1. UNCHANGED <<place, tail>>
    BY <1>4 DEF withRunLock, Continues, BeginTurn, TurnRejected, TurnReturned,
                BoundaryGates, pauseRun, performHandoff, busVars, storyVars
  <2> QED
    BY <2>1, NothingTakenKeeps
<1>5. CASE BatchAgain(r) \/ ModelAnswers(r) \/ ToolsEnd(r) \/ ToolsClaimed(r)
  <2>1. UNCHANGED place /\ (tail' = tail \/ tail' # "prompt")
    BY <1>5 DEF BatchAgain, ModelAnswers, ToolsEnd, ToolsClaimed, Interrupts, busVars, storyVars
  <2> QED
    BY <2>1, NothingTakenKeeps
<1> QED
  BY <1>1, <1>2, <1>3, <1>4, <1>5, TurnBoundaryKeepsCalls, LiveAnswersKeepsCalls DEF Middle

LEMMA StepsKeepCalls ==
    TypeOK /\ Inv /\ [Next]_vars => CallsStay /\ FollowUpsWait
<1> SUFFICES ASSUME TypeOK, Inv, [Next]_vars PROVE CallsStay /\ FollowUpsWait
  OBVIOUS
<1>1. CASE Bystander
  <2>1. \A m \in Messages : place'[m] = "taken" => place[m] = "taken"
    BY <1>1, BystanderPlaces
  <2>2. tail' = tail
    BY <1>1, BystanderKeepsRuns DEF storyVars
  <2> QED
    BY <2>1, <2>2 DEF CallsStay, FollowUpsWait
<1>2. CASE \E r \in Runs : Middle(r)
  BY <1>2, MiddleKeepsCalls
<1>3. CASE \E r \in Runs : Settles(r)
  <2>1. UNCHANGED place /\ (tail' = tail \/ tail' # "prompt")
    BY <1>3 DEF Settles, busVars
  <2> QED
    BY <2>1, NothingTakenKeeps
<1>4. CASE \E r \in Runs : prompt(r) \/ resume(r) \/ IdleWakeStarts(r)
                           \/ Unparks(r) \/ LeavesGate(r) \/ ReadsInterruption(r)
  <2>1. UNCHANGED <<place, tail>>
    BY <1>4 DEF prompt, resume, IdleWakeStarts, Unparks, LeavesGate, ReadsInterruption,
                busVars, storyVars
  <2> QED
    BY <2>1, NothingTakenKeeps
<1> QED
  BY <1>1, <1>2, <1>3, <1>4, NextIsOneOf

(* While tool calls wait for their results nothing is put between, and a   *)
(* follow-up does not join a prompt that is not answered, whichever of the *)
(* drains runs (runner.ts:882-887, 1054-1058, steer.ts:119-122); save in a *)
(* run where a hook claimed a failure of the calls (run-turn.ts:191-223).  *)
THEOREM ConversationStaysWhole == Spec => DrainsKeepTheConversation
<1>1. TypeOK /\ Inv /\ [Next]_vars =>
         [tail = "calls" /\ ~claimed =>
            /\ \A m \in Messages : place'[m] = "taken" => place[m] = "taken"
            /\ tail' # "prompt"]_vars
  BY StepsKeepCalls DEF CallsStay
<1>2. TypeOK /\ Inv /\ [Next]_vars =>
         [\A m \in Messages :
            place[m] = "followUp" /\ place'[m] = "taken" => tail # "prompt" \/ claimed]_vars
  BY StepsKeepCalls DEF FollowUpsWait
<1>3. Spec => HeldCallsStayWhole
  BY <1>1, InvHolds, PTL DEF Spec, HeldCallsStayWhole
<1>4. Spec => FollowUpsAreOwnPrompts
  BY <1>2, InvHolds, PTL DEF Spec, FollowUpsAreOwnPrompts
<1> QED
  BY <1>3, <1>4 DEF DrainsKeepTheConversation
---------------------------------------------------------------------------
(* Between runs turns are told to their end and the flag agrees with the   *)
(* store, save where a guardrail blocked a resumed run or a flush failed.  *)

(* What a run that is about to settle leaves behind.                       *)
EndOf(r) ==
    /\ runs[r].result # "none"
    /\ runs[r].result = "interrupted" => intr # 0
    /\ runs[r].result = "thrown" => (interrupted <=> intr # 0) \/ parted # "no"
    /\ runs[r].result = "done" => told # "paused"
    /\ runs[r].result \in {"done", "blocked"} /\ runs[r].kind # "resume" => intr = 0
    /\ told = "open" => /\ intr # 0
                        /\ \/ runs[r].result = "thrown" /\ parted = "blocked"
                           \/ runs[r].result = "blocked" /\ runs[r].kind = "resume"

StoryOf(r) ==
    /\ told = "paused" => intr # 0
    /\ runs[r].pc \in {"assembling", "boundary"} /\ told = "open" =>
          intr # 0 /\ parted = "blocked"
    /\ runs[r].pc = "boundary" /\ ~loop.resuming => told \notin {"open", "paused"}
    /\ runs[r].pc \in {"handing", "gates"} => told = "closed"
    /\ runs[r].pc # "settling" => (interrupted <=> intr # 0) \/ parted # "no"
    /\ runs[r].pc = "settling" => EndOf(r)

Told ==
    (\A r \in Runs : runs[r].pc \notin Inside) =>
        /\ told = "open" => intr # 0 /\ parted = "blocked"
        /\ told = "paused" => intr # 0
        /\ (interrupted <=> intr # 0) \/ parted # "no"

Story ==
    /\ \A r \in Runs : runs[r].pc \in Inside => StoryOf(r)
    /\ Told

LEMMA ResumesFindTheirs ==
    ASSUME Inv, NEW r \in Runs, runs[r].pc \in Chained, runs[r].kind = "resume"
    PROVE  intr # 0
BY DEF Inv, Resumes

LEMMA withRunLockTells ==
    ASSUME TypeOK, Inv, Story, NEW r \in Runs, withRunLock(r)
    PROVE  StoryOf(r)'
<1>1. \A q \in Runs : runs[q].pc \notin Inside
  BY DEF withRunLock, At, Inv, Lock, Inside
<1>2. \/ MovedTo(r, "assembling")
      \/ MovedTo(r, "settling") /\ runs'[r].result = "thrown"
  BY GoMoves, EndsMoves DEF withRunLock, Places, Inside, Results
<1>3. UNCHANGED <<parted, told, intr, interrupted, loop>>
  BY DEF withRunLock, facadeVars, storyVars, marks
<1> QED
  BY <1>1, <1>2, <1>3 DEF Story, Told, StoryOf, EndOf, MovedTo

LEMMA executeTells ==
    ASSUME TypeOK, Inv, Story, NEW r \in Runs, execute(r)
    PROVE  StoryOf(r)'
<1>1. /\ runs[r].pc = "assembling" /\ LoopOf(r) /\ TailOf(r) /\ StoryOf(r)
      /\ runs[r].kind = "resume" => intr # 0
  BY ResumesFindTheirs DEF execute, At, Inv, Story, Inside, Chained
<1>2. UNCHANGED <<parted, interrupted>>
  BY DEF execute, facadeVars, marks
<1>4. /\ UNCHANGED <<intr, told>> /\ runs[r].kind # "resume"
      /\ \/ MovedTo(r, "boundary") /\ intr = 0
         \/ MovedTo(r, "settling") /\ runs'[r].result = "thrown"
         \/ MovedTo(r, "settling") /\ runs'[r].result \in {"done", "blocked"} /\ intr = 0
  BY <1>1, GoMoves, EndsMoves, TakeMoves
     DEF execute, Places, Inside, Results, Stops, LoopOf
<1> QED
  BY <1>1, <1>2, <1>4 DEF StoryOf, EndOf, MovedTo, LoopOf, TailOf, EndingOf

LEMMA ContinuesTells ==
    ASSUME TypeOK, Inv, Story, NEW r \in Runs, Continues(r)
    PROVE  StoryOf(r)'
<1>1. /\ runs[r].pc = "assembling" /\ LoopOf(r) /\ TailOf(r) /\ StoryOf(r)
      /\ runs[r].kind = "resume" => intr # 0
  BY ResumesFindTheirs DEF Continues, At, Inv, Story, Inside, Chained
<1>2. UNCHANGED <<parted, interrupted>>
  BY DEF Continues, facadeVars, marks
<1>3. FirstTurn("resume", intr).resuming
  <2>1. intr \in 0..MaxTurns
    BY DEF TypeOK
  <2> QED
    BY <2>1, LoopBegins
<1>4. /\ UNCHANGED <<intr, told>>
      /\ \/ MovedTo(r, "boundary") /\ loop'.resuming
         \/ MovedTo(r, "settling") /\ runs'[r].result = "thrown"
  BY <1>1, <1>3, GoMoves, EndsMoves, TakeMoves
     DEF Continues, storyVars, Places, Inside, Results, Stops, LoopOf
<1> QED
  BY <1>1, <1>2, <1>4 DEF StoryOf, EndOf, MovedTo, LoopOf, TailOf, EndingOf

LEMMA TurnBoundaryTells ==
    ASSUME TypeOK, Inv, Story, NEW r \in Runs, TurnBoundary(r)
    PROVE  StoryOf(r)'
<1>1. /\ runs[r].pc = "boundary" /\ LoopOf(r) /\ TailOf(r) /\ StoryOf(r)
      /\ runs[r].kind = "resume" => intr # 0
  BY ResumesFindTheirs DEF TurnBoundary, At, Inv, Story, Inside, Chained
<1>2. UNCHANGED <<parted, interrupted>>
  BY DEF TurnBoundary, facadeVars, marks
<1>4. /\ UNCHANGED <<intr, told>>
      /\ \/ MovedTo(r, "preparing")
         \/ MovedTo(r, "settling") /\ runs'[r].result = "thrown"
         \/ MovedTo(r, "settling") /\ runs'[r].result = "done" /\ ~loop.resuming
  BY <1>1, GoMoves, EndsMoves, TakeMoves
     DEF TurnBoundary, storyVars, Places, Inside, Results, Stops, LoopOf
<1> QED
  BY <1>1, <1>2, <1>4 DEF StoryOf, EndOf, MovedTo, LoopOf, TailOf, EndingOf

LEMMA BeginTurnTells ==
    ASSUME TypeOK, Inv, Story, NEW r \in Runs, BeginTurn(r)
    PROVE  StoryOf(r)'
<1>1. /\ runs[r].pc = "preparing" /\ LoopOf(r) /\ TailOf(r) /\ StoryOf(r)
      /\ runs[r].kind = "resume" => intr # 0
  BY ResumesFindTheirs DEF BeginTurn, At, Inv, Story, Inside, Chained
<1>2. UNCHANGED <<parted, interrupted>>
  BY DEF BeginTurn, facadeVars, marks
<1>4. /\ UNCHANGED intr
      /\ \/ /\ MovedTo(r, "batch") \/ MovedTo(r, "top")
            /\ told' = "open" \/ told' = told
         \/ /\ MovedTo(r, "settling") /\ runs'[r].result = "thrown"
            /\ told' \in {"closed", "left"}
  BY <1>1, GoMoves, EndsMoves, TakeMoves
     DEF BeginTurn, Leaves, Places, Inside, Results, Stops, LoopOf
<1> QED
  BY <1>1, <1>2, <1>4 DEF StoryOf, EndOf, MovedTo, LoopOf, TailOf, EndingOf

LEMMA BatchAgainTells ==
    ASSUME TypeOK, Inv, Story, NEW r \in Runs, BatchAgain(r)
    PROVE  StoryOf(r)'
<1>1. /\ runs[r].pc = "batch" /\ LoopOf(r) /\ TailOf(r) /\ StoryOf(r)
      /\ runs[r].kind = "resume" => intr # 0
  BY ResumesFindTheirs DEF BatchAgain, At, Inv, Story, Inside, Chained
<1>2. UNCHANGED <<parted, interrupted>>
  BY DEF BatchAgain, facadeVars, marks
<1>3. loop \in LoopType
  BY DEF TypeOK, LoopType
<1>4. /\ UNCHANGED <<intr, told>>
      /\ \/ MovedTo(r, "returned")
         \/ MovedTo(r, "top")
         \/ MovedTo(r, "rejected")
  BY <1>1, <1>3, GoMoves, EndsMoves, TakeMoves, StopSet
     DEF BatchAgain, Interrupts, Returns, TurnThrows, Places, Inside, Results, Stops, LoopOf
<1> QED
  BY <1>1, <1>2, <1>4 DEF StoryOf, EndOf, MovedTo, LoopOf, TailOf, EndingOf

LEMMA StepTopTells ==
    ASSUME TypeOK, Inv, Story, NEW r \in Runs, StepTop(r)
    PROVE  StoryOf(r)'
<1>1. /\ runs[r].pc = "top" /\ LoopOf(r) /\ TailOf(r) /\ StoryOf(r)
      /\ runs[r].kind = "resume" => intr # 0
  BY ResumesFindTheirs DEF StepTop, At, Inv, Story, Inside, Chained
<1>2. UNCHANGED <<parted, interrupted>>
  BY DEF StepTop, facadeVars, marks
<1>3. loop \in LoopType
  BY DEF TypeOK, LoopType
<1>4. /\ UNCHANGED <<intr, told>>
      /\ \/ MovedTo(r, "returned")
         \/ MovedTo(r, "model")
         \/ MovedTo(r, "rejected")
  BY <1>1, <1>3, GoMoves, EndsMoves, TakeMoves, StopSet
     DEF StepTop, Returns, storyVars, Places, Inside, Results, Stops, LoopOf
<1> QED
  BY <1>1, <1>2, <1>4 DEF StoryOf, EndOf, MovedTo, LoopOf, TailOf, EndingOf

LEMMA ModelAnswersTells ==
    ASSUME TypeOK, Inv, Story, NEW r \in Runs, ModelAnswers(r)
    PROVE  StoryOf(r)'
<1>1. /\ runs[r].pc = "model" /\ LoopOf(r) /\ TailOf(r) /\ StoryOf(r)
      /\ runs[r].kind = "resume" => intr # 0
  BY ResumesFindTheirs DEF ModelAnswers, At, Inv, Story, Inside, Chained
<1>2. UNCHANGED <<parted, interrupted>>
  BY DEF ModelAnswers, facadeVars, marks
<1>3. loop \in LoopType
  BY DEF TypeOK, LoopType
<1>4. /\ UNCHANGED <<intr, told>>
      /\ \/ MovedTo(r, "returned")
         \/ \E pc \in {"tools", "hook", "top"} : MovedTo(r, pc)
         \/ MovedTo(r, "rejected")
  BY <1>1, <1>3, GoMoves, EndsMoves, TakeMoves, StopSet
     DEF ModelAnswers, Returns, TurnThrows, Places, Inside, Results, Stops, LoopOf
<1> QED
  BY <1>1, <1>2, <1>4 DEF StoryOf, EndOf, MovedTo, LoopOf, TailOf, EndingOf

LEMMA ToolsEndTells ==
    ASSUME TypeOK, Inv, Story, NEW r \in Runs, ToolsEnd(r)
    PROVE  StoryOf(r)'
<1>1. /\ runs[r].pc = "tools" /\ LoopOf(r) /\ TailOf(r) /\ StoryOf(r)
      /\ runs[r].kind = "resume" => intr # 0
  BY ResumesFindTheirs DEF ToolsEnd, At, Inv, Story, Inside, Chained
<1>2. UNCHANGED <<parted, interrupted>>
  BY DEF ToolsEnd, facadeVars, marks
<1>3. loop \in LoopType
  BY DEF TypeOK, LoopType
<1>4. /\ UNCHANGED <<intr, told>>
      /\ \/ MovedTo(r, "returned")
         \/ \E pc \in {"hook", "top"} : MovedTo(r, pc)
         \/ MovedTo(r, "rejected")
  BY <1>1, <1>3, GoMoves, EndsMoves, TakeMoves, StopSet
     DEF ToolsEnd, Interrupts, Returns, TurnThrows, Places, Inside, Results, Stops, LoopOf
<1> QED
  BY <1>1, <1>2, <1>4 DEF StoryOf, EndOf, MovedTo, LoopOf, TailOf, EndingOf

LEMMA ToolsClaimedTells ==
    ASSUME TypeOK, Inv, Story, NEW r \in Runs, ToolsClaimed(r)
    PROVE  StoryOf(r)'
<1>1. runs[r].pc = "tools" /\ StoryOf(r)
  BY DEF ToolsClaimed, At, Story, Inside
<1>2. UNCHANGED <<parted, interrupted, intr, told>>
  BY DEF ToolsClaimed, facadeVars, storyVars
<1>3. MovedTo(r, "top")
  BY GoMoves DEF ToolsClaimed, Places, Inside
<1> QED
  BY <1>1, <1>2, <1>3 DEF StoryOf, EndOf, MovedTo

LEMMA AfterStopTells ==
    ASSUME TypeOK, Inv, Story, NEW r \in Runs, AfterStop(r)
    PROVE  StoryOf(r)'
<1>1. /\ runs[r].pc = "hook" /\ LoopOf(r) /\ TailOf(r) /\ StoryOf(r)
      /\ runs[r].kind = "resume" => intr # 0
  BY ResumesFindTheirs DEF AfterStop, At, Inv, Story, Inside, Chained
<1>2. UNCHANGED <<parted, interrupted>>
  BY DEF AfterStop, facadeVars, marks
<1>3. loop \in LoopType
  BY DEF TypeOK, LoopType
<1>4. /\ UNCHANGED <<intr, told>>
      /\ \/ MovedTo(r, "returned")
         \/ MovedTo(r, "top")
  BY <1>1, <1>3, GoMoves, EndsMoves, TakeMoves, StopSet
     DEF AfterStop, Returns, storyVars, Places, Inside, Results, Stops, LoopOf
<1> QED
  BY <1>1, <1>2, <1>4 DEF StoryOf, EndOf, MovedTo, LoopOf, TailOf, EndingOf

LEMMA TurnRejectedTells ==
    ASSUME TypeOK, Inv, Story, NEW r \in Runs, TurnRejected(r)
    PROVE  StoryOf(r)'
<1>1. /\ runs[r].pc = "rejected" /\ LoopOf(r) /\ TailOf(r) /\ StoryOf(r)
      /\ runs[r].kind = "resume" => intr # 0
  BY ResumesFindTheirs DEF TurnRejected, At, Inv, Story, Inside, Chained
<1>2. UNCHANGED <<parted, interrupted>>
  BY DEF TurnRejected, facadeVars, marks
<1>4. /\ UNCHANGED intr /\ MovedTo(r, "settling")
      /\ \/ runs'[r].result \in {"thrown", "blocked"} /\ told' = "closed"
         \/ runs'[r].result = "blocked" /\ runs[r].kind = "resume" /\ told' = told
  BY <1>1, GoMoves, EndsMoves, TakeMoves
     DEF TurnRejected, ToldOfRejection, StoryOf, Places, Inside, Results, Stops, LoopOf
<1> QED
  BY <1>1, <1>2, <1>4 DEF StoryOf, EndOf, MovedTo, LoopOf, TailOf, EndingOf

LEMMA TurnReturnedTells ==
    ASSUME TypeOK, Inv, Story, NEW r \in Runs, TurnReturned(r)
    PROVE  StoryOf(r)'
<1>1. /\ runs[r].pc = "returned" /\ LoopOf(r) /\ TailOf(r) /\ StoryOf(r)
      /\ runs[r].kind = "resume" => intr # 0
  BY ResumesFindTheirs DEF TurnReturned, At, Inv, Story, Inside, Chained
<1>2. UNCHANGED <<parted, interrupted>>
  BY DEF TurnReturned, facadeVars, marks
<1>4. /\ UNCHANGED intr
      /\ \/ told' = told /\ (MovedTo(r, "asking") \/ MovedTo(r, "pausing"))
         \/ told' = "closed" /\ \E pc \in {"handing", "boundary", "gates"} : MovedTo(r, pc)
         \/ told' = "closed" /\ MovedTo(r, "settling") /\ runs'[r].result = "done"
  BY <1>1, GoMoves, EndsMoves, TakeMoves
     DEF TurnReturned, StoryOf, Places, Inside, Results, Stops, LoopOf
<1> QED
  BY <1>1, <1>2, <1>4 DEF StoryOf, EndOf, MovedTo, LoopOf, TailOf, EndingOf

LEMMA BoundaryGatesTells ==
    ASSUME TypeOK, Inv, Story, NEW r \in Runs, BoundaryGates(r)
    PROVE  StoryOf(r)'
<1>1. /\ runs[r].pc = "gates" /\ LoopOf(r) /\ TailOf(r) /\ StoryOf(r)
      /\ runs[r].kind = "resume" => intr # 0
  BY ResumesFindTheirs DEF BoundaryGates, At, Inv, Story, Inside, Chained
<1>2. UNCHANGED <<parted, interrupted>>
  BY DEF BoundaryGates, facadeVars, marks
<1>4. /\ UNCHANGED <<intr, told>>
      /\ \/ MovedTo(r, "boundary")
         \/ MovedTo(r, "settling") /\ runs'[r].result = "done"
  BY <1>1, GoMoves, EndsMoves, TakeMoves
     DEF BoundaryGates, storyVars, Places, Inside, Results, Stops, LoopOf
<1> QED
  BY <1>1, <1>2, <1>4 DEF StoryOf, EndOf, MovedTo, LoopOf, TailOf, EndingOf

LEMMA LiveAnswersTells ==
    ASSUME TypeOK, Inv, Story, NEW r \in Runs, LiveAnswers(r)
    PROVE  StoryOf(r)'
<1>1. /\ runs[r].pc = "asking" /\ LoopOf(r) /\ TailOf(r) /\ StoryOf(r)
      /\ runs[r].kind = "resume" => intr # 0
  BY ResumesFindTheirs DEF LiveAnswers, At, Inv, Story, Inside, Chained
<1>2. UNCHANGED <<parted, interrupted>>
  BY DEF LiveAnswers, facadeVars, marks
<1>4. /\ UNCHANGED intr
      /\ \/ MovedTo(r, "preparing") /\ told' = told
         \/ /\ MovedTo(r, "settling") /\ runs'[r].result \in {"done", "thrown"}
            /\ told' \in {"closed", "left"}
  BY <1>1, GoMoves, EndsMoves, TakeMoves
     DEF LiveAnswers, Leaves, Places, Inside, Results, Stops, LoopOf
<1> QED
  BY <1>1, <1>2, <1>4 DEF StoryOf, EndOf, MovedTo, LoopOf, TailOf, EndingOf

LEMMA pauseRunTells ==
    ASSUME TypeOK, Inv, Story, NEW r \in Runs, pauseRun(r)
    PROVE  StoryOf(r)'
<1>1. /\ runs[r].pc = "pausing" /\ LoopOf(r) /\ TailOf(r) /\ StoryOf(r)
      /\ runs[r].kind = "resume" => intr # 0
  BY ResumesFindTheirs DEF pauseRun, At, Inv, Story, Inside, Chained
<1>2. UNCHANGED <<parted, interrupted>>
  BY DEF pauseRun, facadeVars, marks
<1>4. /\ MovedTo(r, "settling")
      /\ \/ /\ runs'[r].result = "interrupted" /\ told' = "paused"
            /\ intr' # 0
         \/ /\ runs'[r].result = "thrown" /\ told' \in {"closed", "left"}
            /\ intr' = intr
  BY <1>1, GoMoves, EndsMoves, TakeMoves
     DEF pauseRun, Leaves, StoryOf, Turning, Places, Inside, Results, Stops, LoopOf
<1> QED
  BY <1>1, <1>2, <1>4 DEF StoryOf, EndOf, MovedTo, LoopOf, TailOf, EndingOf

LEMMA performHandoffTells ==
    ASSUME TypeOK, Inv, Story, NEW r \in Runs, performHandoff(r)
    PROVE  StoryOf(r)'
<1>1. /\ runs[r].pc = "handing" /\ LoopOf(r) /\ TailOf(r) /\ StoryOf(r)
      /\ runs[r].kind = "resume" => intr # 0
  BY ResumesFindTheirs DEF performHandoff, At, Inv, Story, Inside, Chained
<1>2. UNCHANGED <<parted, interrupted>>
  BY DEF performHandoff, facadeVars, marks
<1>4. /\ UNCHANGED <<intr, told>>
      /\ \/ MovedTo(r, "boundary")
         \/ MovedTo(r, "settling") /\ runs'[r].result \in {"done", "thrown", "blocked"}
  BY <1>1, GoMoves, EndsMoves, TakeMoves
     DEF performHandoff, storyVars, Places, Inside, Results, Stops, LoopOf
<1> QED
  BY <1>1, <1>2, <1>4 DEF StoryOf, EndOf, MovedTo, LoopOf, TailOf, EndingOf
LEMMA MiddleTells ==
    ASSUME TypeOK, Inv, Story, NEW r \in Runs, Middle(r)
    PROVE  Story'
<1>1. StoryOf(r)'
  BY withRunLockTells, executeTells, ContinuesTells, TurnBoundaryTells, BeginTurnTells,
     BatchAgainTells, StepTopTells, ModelAnswersTells, ToolsEndTells, ToolsClaimedTells, AfterStopTells,
     TurnRejectedTells, TurnReturnedTells, BoundaryGatesTells, LiveAnswersTells,
     pauseRunTells, performHandoffTells DEF Middle
<1>2. Does(r) /\ Inv'
  BY MiddleDoes, DoesKeepsInv
<1>3. runs'[r].pc \in Inside
  BY <1>2 DEF Does, Keeps
<1>4. \A q \in Runs : runs'[q].pc \in Inside => q = r
  BY <1>2, <1>3 DEF Inv, Lock
<1> QED
  BY <1>1, <1>3, <1>4 DEF Story, Told

LEMMA SettlesTells ==
    ASSUME TypeOK, Inv, Story, NEW r \in Runs, Settles(r)
    PROVE  Story'
<1>1. /\ runs[r].pc = "settling" /\ (told = "paused" => intr # 0)
      /\ EndOf(r)
      /\ runs[r].kind = "resume" => intr # 0
  BY ResumesFindTheirs DEF Settles, At, Inside, Chained, Story, StoryOf
<1>2. PICK result \in Results :
         /\ SettleResult(r, result) /\ interrupted' = FlagAfter(result)
         /\ parted' = Parting(r, result)
  BY DEF Settles
<1>3. /\ intr' = IF runs[r].kind = "resume" /\ runs[r].result = "done" THEN 0 ELSE intr
      /\ UNCHANGED told
  BY DEF Settles
<1>4. \A q \in Runs : runs'[q].pc \notin Inside
  BY LockAfterSettles
<1>5. told' = "paused" => intr' # 0
  BY <1>1, <1>3 DEF EndOf
<1>6. told' = "open" => intr' # 0 /\ parted' = "blocked"
  BY <1>1, <1>2, <1>3 DEF EndOf, SettleResult, Parting
<1>7. (interrupted' <=> intr' # 0) \/ parted' # "no"
  <2>1. CASE result # runs[r].result
    BY <1>2, <2>1 DEF Parting
  <2>2. CASE result = runs[r].result
    <3>1. CASE result \in {"interrupted", "thrown"}
      BY <1>1, <1>2, <1>3, <2>2, <3>1 DEF EndOf, FlagAfter, Parting
    <3>2. CASE result \in {"done", "blocked"}
      BY <1>1, <1>2, <1>3, <2>2, <3>2 DEF EndOf, FlagAfter, Parting
    <3> QED
      BY <1>1, <2>2, <3>1, <3>2 DEF EndOf, Results
  <2> QED
    BY <2>1, <2>2
<1> QED
  BY <1>4, <1>5, <1>6, <1>7 DEF Story, Told

(* All other steps leave the story and whoever has the lock.               *)
LEMMA StoryStays ==
    ASSUME Story, UNCHANGED <<parted, interrupted, loop, storyVars>>,
           \A q \in Runs : runs[q].pc \in Inside \/ runs'[q].pc \in Inside =>
              /\ runs'[q].pc = runs[q].pc /\ runs'[q].kind = runs[q].kind
              /\ runs'[q].result = runs[q].result
    PROVE  Story'
<1>1. UNCHANGED <<intr, told, tail>>
  BY DEF storyVars
<1>2. \A q \in Runs : runs'[q].pc \in Inside => StoryOf(q)'
  <2> SUFFICES ASSUME NEW q \in Runs, runs'[q].pc \in Inside PROVE StoryOf(q)'
    OBVIOUS
  <2>1. /\ runs'[q].pc = runs[q].pc /\ runs'[q].kind = runs[q].kind
        /\ runs'[q].result = runs[q].result /\ StoryOf(q)
    BY DEF Story
  <2> QED
    BY <1>1, <2>1 DEF StoryOf, EndOf
<1>3. Told'
  BY <1>1 DEF Story, Told
<1> QED
  BY <1>1, <1>2, <1>3 DEF Story

LEMMA BesideTells ==
    ASSUME TypeOK, Story, NEW r \in Runs,
           prompt(r) \/ resume(r) \/ IdleWakeStarts(r) \/ Unparks(r) \/ LeavesGate(r) \/ ReadsInterruption(r)
    PROVE  Story'
<1>1. UNCHANGED <<parted, interrupted, loop, storyVars>>
  BY DEF prompt, resume, IdleWakeStarts, Unparks, LeavesGate, ReadsInterruption, facadeVars, marks
<1>2. runs[r].pc \in {"none", "parked", "passed", "reading"}
  BY DEF prompt, resume, IdleWakeStarts, Unparks, LeavesGate, ReadsInterruption, At
<1>3. /\ runs'[r].pc \in {"none", "parked", "passed", "reading", "queued"}
      /\ \A q \in Runs \ {r} : runs'[q] = runs[q]
  <2>1. CASE \E kind \in {"prompt", "wake", "resume"}, pc \in {"parked", "reading", "queued"} :
                Entered(r, kind, pc)
    BY <2>1, EnteredTyped DEF Places
  <2>2. CASE \E pc \in {"passed", "reading", "queued"} : Go(r, pc)
    BY <2>2, GoMoves DEF Places, MovedTo
  <2>3. CASE Gone(r)
    BY <2>3, GoneTyped
  <2> QED
    BY <2>1, <2>2, <2>3 DEF prompt, resume, IdleWakeStarts, Unparks, parkAtGate, LeavesGate,
                            ReadsInterruption, Begins
<1>4. runs[r].pc \notin Inside /\ runs'[r].pc \notin Inside
  BY <1>2, <1>3 DEF Inside
<1> QED
  BY <1>1, <1>3, <1>4, StoryStays

LEMMA BystanderTells ==
    ASSUME TypeOK, Story, Bystander
    PROVE  Story'
<1>1. \A q \in Runs : runs'[q].result = runs[q].result
  <2>1. UNCHANGED runs \/ runs' = Aborted
    BY DEF Bystander, steer, followUp, enqueue, IdleWakeStandsDown, holdAtBoundary,
           release, cancel, close, runClose, vars
  <2> QED
    BY <2>1 DEF TypeOK, Aborted
<1> QED
  BY <1>1, BystanderKeepsRuns, StoryStays

LEMMA NextKeepsStory == TypeOK /\ Inv /\ Story /\ [Next]_vars => Story'
<1> SUFFICES ASSUME TypeOK, Inv, Story, [Next]_vars PROVE Story'
  OBVIOUS
<1> QED
  BY NextIsOneOf, BystanderTells, BesideTells, MiddleTells, SettlesTells

LEMMA StoryHolds == Spec => []Story
<1>1. Init => Story
  BY DEF Init, NoRun, Story, Told, Inside
<1>2. TypeOK /\ Inv /\ Story /\ [Next]_vars => Story'
  BY NextKeepsStory
<1> QED
  BY <1>1, <1>2, InvHolds, PTL DEF Spec

LEMMA QuietIsBetween ==
    ASSUME Story, InFlight = {}
    PROVE  /\ told = "open" => parted = "blocked"
           /\ told = "paused" => intr # 0
           /\ (interrupted <=> intr # 0) \/ parted # "no"
<1>1. \A r \in Runs : runs[r].pc \notin Inside
  BY DEF InFlight, Inside
<1> QED
  BY <1>1 DEF Story, Told

(* Between runs no turn is open in the event stream: whoever started it    *)
(* has told its end, paused it or is known to say nothing, and only a      *)
(* resumed run that a guardrail blocks leaves it open (runner.ts:992-998). *)
THEOREM TurnsAreTold == Spec => []TurnsEnd
<1>1. Story => TurnsEnd
  BY QuietIsBetween DEF TurnsEnd
<1> QED
  BY <1>1, StoryHolds, PTL

(* Between runs a session takes itself for interrupted exactly when an     *)
(* interruption is stored, so that a message wakes it when its run would   *)
(* be accepted, or its last run was a resume that a guardrail blocked, or  *)
(* one whose flush failed (harness.ts:1084-1086, runner.ts:579-581).       *)
THEOREM FlagTellsTheStore == Spec => []FlagAgreesWithStore
<1>1. Story => FlagAgreesWithStore
  BY QuietIsBetween DEF FlagAgreesWithStore
<1> QED
  BY <1>1, StoryHolds, PTL

-----------------------------------------------------------------------------
(* The gate.  Once what a coordinator or a close waits for has settled, the *)
(* session stays without a run.                                            *)
(* A run is a record with these fields; their values do not matter here.   *)
Shape(run) == [pc |-> run.pc, kind |-> run.kind, aborted |-> run.aborted,
               result |-> run.result, fed |-> run.fed]
RunsShape == runs = [r \in Runs |-> Shape(runs[r])]

(* Who is waited for: every run in flight, while none may begin but those  *)
(* that were at the door when the gate fell.                               *)
RunsAreWaitedFor ==
    gate = "held" \/ life # "open" =>
        InFlight \subseteq waited \union slipped /\ AtTheDoor \subseteq slipped

IInv == RunsShape /\ RunsAreWaitedFor

Others(r) == \A q \in Runs \ {r} : runs'[q].pc = runs[q].pc

(* What the steps of a run that goes on do with the runs.                  *)
Moves(r) == \/ \E pc : pc # "passed" /\ Go(r, pc)
            \/ \E result : Ends(r, result)
            \/ \E pc, drained : pc # "passed" /\ Take(r, drained, pc)

(* A record with one field changed has the same fields.                    *)
LEMMA ShapeExcept ==
    ASSUME NEW run, run = Shape(run), NEW value
    PROVE  /\ [run EXCEPT !.pc = value] = Shape([run EXCEPT !.pc = value])
           /\ [run EXCEPT !.pc = value].pc = value
           /\ [run EXCEPT !.kind = value] = Shape([run EXCEPT !.kind = value])
           /\ [run EXCEPT !.result = value] = Shape([run EXCEPT !.result = value])
           /\ [run EXCEPT !.result = value].pc = run.pc
           /\ [run EXCEPT !.fed = value] = Shape([run EXCEPT !.fed = value])
           /\ [run EXCEPT !.fed = value].pc = run.pc
           /\ [run EXCEPT !.aborted = value] = Shape([run EXCEPT !.aborted = value])
           /\ [run EXCEPT !.aborted = value].pc = run.pc
BY DEF Shape

(* A step that puts a record in place of one of the runs.                  *)
LEMMA ReplacedShape ==
    ASSUME RunsShape, NEW r \in Runs, NEW run, run = Shape(run),
           runs' = [runs EXCEPT ![r] = run]
    PROVE  RunsShape' /\ Others(r) /\ runs'[r] = run
BY DEF RunsShape, Others

LEMMA GoKeepsShape ==
    ASSUME RunsShape, NEW r \in Runs, NEW pc, Go(r, pc)
    PROVE  RunsShape' /\ Others(r) /\ runs'[r].pc = pc
BY DEF RunsShape, Shape, Go, Others

LEMMA EndsKeepsShape ==
    ASSUME RunsShape, NEW r \in Runs, NEW result, Ends(r, result)
    PROVE  RunsShape' /\ Others(r) /\ runs'[r].pc = "settling"
<1> DEFINE placed == [runs[r] EXCEPT !.pc = "settling"]
           run == [placed EXCEPT !.result = result]
<1>1. runs[r] = Shape(runs[r]) /\ DOMAIN runs = Runs
  BY DEF RunsShape
<1>2. placed = Shape(placed) /\ placed.pc = "settling"
  <2> DEFINE was == runs[r]
  <2>1. was = Shape(was) BY <1>1
  <2> HIDE DEF was
  <2>2. /\ [was EXCEPT !.pc = "settling"] = Shape([was EXCEPT !.pc = "settling"])
        /\ [was EXCEPT !.pc = "settling"].pc = "settling"
    BY <2>1, ShapeExcept
  <2> QED BY <2>2 DEF was
<1>3. run = Shape(run) /\ run.pc = placed.pc
  <2> HIDE DEF placed
  <2> QED BY <1>2, ShapeExcept
<1>4. runs' = [runs EXCEPT ![r] = run]
  BY <1>1 DEF Ends, Shape
<1>5. RunsShape' /\ Others(r) /\ runs'[r] = run
  BY <1>3, <1>4, ReplacedShape
<1> QED
  BY <1>2, <1>3, <1>5

LEMMA TakeKeepsShape ==
    ASSUME RunsShape, NEW r \in Runs, NEW pc, NEW drained, Take(r, drained, pc)
    PROVE  RunsShape' /\ Others(r) /\ runs'[r].pc = pc
<1> DEFINE placed == [runs[r] EXCEPT !.pc = pc]
           fed == runs[r].fed \/ drained # {}
           run == [placed EXCEPT !.fed = fed]
<1>1. runs[r] = Shape(runs[r]) /\ DOMAIN runs = Runs
  BY DEF RunsShape
<1>2. placed = Shape(placed) /\ placed.pc = pc
  <2> DEFINE was == runs[r]
  <2>1. was = Shape(was) BY <1>1
  <2> HIDE DEF was
  <2>2. /\ [was EXCEPT !.pc = pc] = Shape([was EXCEPT !.pc = pc])
        /\ [was EXCEPT !.pc = pc].pc = pc
    BY <2>1, ShapeExcept
  <2> QED BY <2>2 DEF was
<1>3. run = Shape(run) /\ run.pc = placed.pc
  <2> HIDE DEF placed, fed
  <2> QED BY <1>2, ShapeExcept
<1>4. runs' = [runs EXCEPT ![r] = run]
  BY <1>1 DEF Take, Shape
<1>5. RunsShape' /\ Others(r) /\ runs'[r] = run
  BY <1>3, <1>4, ReplacedShape
<1> QED
  BY <1>2, <1>3, <1>5

LEMMA EnteredKeepsShape ==
    ASSUME RunsShape, NEW r \in Runs, NEW kind, NEW pc, Entered(r, kind, pc)
    PROVE  RunsShape' /\ Others(r) /\ runs'[r].pc = pc
<1> DEFINE placed == [NoRun EXCEPT !.pc = pc]
           run == [placed EXCEPT !.kind = kind]
<1>1. NoRun = Shape(NoRun) /\ DOMAIN runs = Runs
  BY DEF RunsShape, Shape, NoRun
<1>2. placed = Shape(placed)
  BY <1>1, ShapeExcept
<1>3. run = Shape(run)
  BY <1>2, ShapeExcept
<1>4. runs' = [runs EXCEPT ![r] = run]
  BY <1>1 DEF Entered, Shape
<1>5. RunsShape' /\ Others(r) /\ runs'[r] = run
  BY <1>3, <1>4, ReplacedShape
<1> QED
  BY <1>5, <1>1 DEF NoRun

LEMMA GoneKeepsShape ==
    ASSUME RunsShape, NEW r \in Runs, Gone(r)
    PROVE  RunsShape' /\ Others(r) /\ runs'[r].pc = "none"
BY DEF RunsShape, Shape, Gone, NoRun, Others

LEMMA AbortedKeepsShape ==
    ASSUME RunsShape, runs' = Aborted
    PROVE  RunsShape' /\ \A q \in Runs : runs'[q].pc = runs[q].pc
BY DEF RunsShape, Shape, Aborted

(* The steps between the run lock and the end of the run.                  *)
Within(r) ==
    \/ withRunLock(r) \/ execute(r) \/ Continues(r) \/ TurnBoundary(r)
    \/ BeginTurn(r) \/ BatchAgain(r) \/ StepTop(r) \/ ModelAnswers(r)
    \/ ToolsEnd(r) \/ ToolsClaimed(r) \/ AfterStop(r)
    \/ TurnRejected(r) \/ TurnReturned(r)
    \/ BoundaryGates(r) \/ LiveAnswers(r) \/ pauseRun(r) \/ performHandoff(r)

LEMMA WithinMoves ==
    ASSUME NEW r \in Runs, Within(r)
    PROVE  r \in InFlight /\ Moves(r) /\ UNCHANGED <<life, gate, waited, slipped>>
<1>1. CASE withRunLock(r)
  BY <1>1 DEF withRunLock,
     At, InFlight, Moves, Go, Ends, Take, facadeVars, busVars, storyVars, marks
<1>2. CASE execute(r)
  BY <1>2 DEF execute,
     At, InFlight, Moves, Go, Ends, Take, facadeVars, busVars, storyVars, marks
<1>3. CASE Continues(r)
  BY <1>3 DEF Continues,
     At, InFlight, Moves, Go, Ends, Take, facadeVars, busVars, storyVars, marks
<1>4. CASE TurnBoundary(r)
  BY <1>4 DEF TurnBoundary,
     At, InFlight, Moves, Go, Ends, Take, facadeVars, busVars, storyVars, marks
<1>5. CASE BeginTurn(r)
  BY <1>5 DEF BeginTurn,
     At, InFlight, Moves, Go, Ends, Take, facadeVars, busVars, storyVars, marks
<1>6. CASE BatchAgain(r)
  BY <1>6 DEF BatchAgain, Interrupts, Returns, TurnThrows,
     At, InFlight, Moves, Go, Ends, Take, facadeVars, busVars, storyVars, marks
<1>7. CASE StepTop(r)
  BY <1>7 DEF StepTop, Returns,
     At, InFlight, Moves, Go, Ends, Take, facadeVars, busVars, storyVars, marks
<1>8. CASE ModelAnswers(r)
  BY <1>8 DEF ModelAnswers, Returns, TurnThrows,
     At, InFlight, Moves, Go, Ends, Take, facadeVars, busVars, storyVars, marks
<1>9. CASE ToolsEnd(r)
  BY <1>9 DEF ToolsEnd, Interrupts, Returns, TurnThrows,
     At, InFlight, Moves, Go, Ends, Take, facadeVars, busVars, storyVars, marks
<1>10. CASE AfterStop(r)
  BY <1>10 DEF AfterStop, Returns,
     At, InFlight, Moves, Go, Ends, Take, facadeVars, busVars, storyVars, marks
<1>11. CASE TurnRejected(r)
  BY <1>11 DEF TurnRejected,
     At, InFlight, Moves, Go, Ends, Take, facadeVars, busVars, storyVars, marks
<1>12. CASE TurnReturned(r)
  BY <1>12 DEF TurnReturned,
     At, InFlight, Moves, Go, Ends, Take, facadeVars, busVars, storyVars, marks
<1>13. CASE BoundaryGates(r)
  BY <1>13 DEF BoundaryGates,
     At, InFlight, Moves, Go, Ends, Take, facadeVars, busVars, storyVars, marks
<1>14. CASE LiveAnswers(r)
  BY <1>14 DEF LiveAnswers,
     At, InFlight, Moves, Go, Ends, Take, facadeVars, busVars, storyVars, marks
<1>15. CASE pauseRun(r)
  BY <1>15 DEF pauseRun,
     At, InFlight, Moves, Go, Ends, Take, facadeVars, busVars, storyVars, marks
<1>16. CASE performHandoff(r)
  BY <1>16 DEF performHandoff,
     At, InFlight, Moves, Go, Ends, Take, facadeVars, busVars, storyVars, marks
<1>17. CASE ToolsClaimed(r)
  BY <1>17 DEF ToolsClaimed,
     At, InFlight, Moves, Go, Ends, Take, facadeVars, busVars, storyVars
<1> QED
  BY <1>1, <1>2, <1>3, <1>4, <1>5, <1>6, <1>7, <1>8, <1>9,
     <1>10, <1>11, <1>12, <1>13, <1>14, <1>15, <1>16, <1>17 DEF Within

LEMMA WithinKeepsInv ==
    ASSUME IInv, NEW r \in Runs, Within(r)
    PROVE  IInv'
<1>1. r \in InFlight /\ Moves(r) /\ UNCHANGED <<life, gate, waited, slipped>>
  BY WithinMoves
<1>2. RunsShape' /\ Others(r) /\ runs'[r].pc # "passed"
  BY <1>1, GoKeepsShape, EndsKeepsShape, TakeKeepsShape DEF Moves, IInv
<1>3. InFlight' \subseteq InFlight /\ AtTheDoor' \subseteq AtTheDoor
  BY <1>1, <1>2 DEF InFlight, AtTheDoor, At, Others
<1> QED
  BY <1>1, <1>2, <1>3 DEF IInv, RunsAreWaitedFor

(* A run may begin only while the session is open and nobody holds it, or  *)
(* when it was past the gate before.                                       *)
LEMMA BeginningsKeepInv ==
    ASSUME IInv, NEW r \in Runs, prompt(r) \/ resume(r) \/ IdleWakeStarts(r)
    PROVE  IInv'
<1>1. CASE prompt(r) \/ resume(r)
  <2>1. PICK kind, pc : /\ Entered(r, kind, pc)
                        /\ pc = "parked" \/ (gate = "open" /\ pc # "passed")
    BY <1>1 DEF prompt, resume, Begins
  <2>2. RunsShape' /\ Others(r) /\ runs'[r].pc = pc
    BY <2>1, EnteredKeepsShape DEF IInv
  <2>3. pc = "parked" => InFlight' \subseteq InFlight /\ AtTheDoor' \subseteq AtTheDoor
    BY <2>2 DEF InFlight, AtTheDoor, At, Others
  <2> QED
    BY <1>1, <2>1, <2>2, <2>3 DEF IInv, RunsAreWaitedFor, prompt, resume, facadeVars, marks
<1>2. CASE IdleWakeStarts(r)
  <2>1. RunsShape'
    BY <1>2, EnteredKeepsShape DEF IInv, IdleWakeStarts, Begins
  <2> QED
    BY <1>2, <2>1 DEF IInv, RunsAreWaitedFor, IdleWakeStarts, wakeWanted
<1> QED
  BY <1>1, <1>2

LEMMA UnparkingsKeepInv ==
    ASSUME IInv, NEW r \in Runs, Unparks(r)
    PROVE  IInv'
<1>1. UNCHANGED <<life, gate, waited, slipped>>
  BY DEF Unparks, facadeVars, marks
<1>2. CASE Gone(r)
  <2>1. RunsShape' /\ Others(r) /\ runs'[r].pc = "none"
    BY <1>2, GoneKeepsShape DEF IInv
  <2>2. InFlight' \subseteq InFlight /\ AtTheDoor' \subseteq AtTheDoor
    BY <2>1 DEF InFlight, AtTheDoor, At, Others
  <2> QED
    BY <1>1, <2>1, <2>2 DEF IInv, RunsAreWaitedFor
<1>3. CASE life = "open" /\ gate = "open" /\ Go(r, "passed")
  <2>1. RunsShape'
    BY <1>3, GoKeepsShape DEF IInv
  <2> QED
    BY <1>1, <1>3, <2>1 DEF IInv, RunsAreWaitedFor
<1> QED
  BY <1>2, <1>3 DEF Unparks, parkAtGate

LEMMA LeavingsKeepInv ==
    ASSUME IInv, NEW r \in Runs, LeavesGate(r)
    PROVE  IInv'
<1>1. UNCHANGED <<life, gate, waited, slipped>> /\ r \in AtTheDoor
  BY DEF LeavesGate, facadeVars, marks, AtTheDoor
<1>2. PICK pc \in {"queued", "reading", "none"} :
         RunsShape' /\ Others(r) /\ runs'[r].pc = pc
  BY EnteredKeepsShape, GoKeepsShape, GoneKeepsShape DEF LeavesGate, Begins, IInv
<1>3. InFlight' \subseteq InFlight \union {r} /\ AtTheDoor' \subseteq AtTheDoor
  BY <1>2 DEF InFlight, AtTheDoor, At, Others
<1> QED
  BY <1>1, <1>2, <1>3 DEF IInv, RunsAreWaitedFor

(* A run that ends is waited for no longer.                                *)
LEMMA EndingsKeepInv ==
    ASSUME IInv, NEW r \in Runs, ReadsInterruption(r) \/ Settles(r)
    PROVE  IInv'
<1>1. /\ UNCHANGED <<life, gate, slipped>>
      /\ \/ At(r, "reading") /\ Go(r, "queued") /\ UNCHANGED waited
         \/ Gone(r) /\ waited' = waited \ {r}
  BY DEF ReadsInterruption, Settles, endRun, marks
<1>2. CASE At(r, "reading") /\ Go(r, "queued") /\ UNCHANGED waited
  <2>1. RunsShape' /\ Others(r) /\ runs'[r].pc = "queued"
    BY <1>2, GoKeepsShape DEF IInv
  <2>2. InFlight' \subseteq InFlight /\ AtTheDoor' \subseteq AtTheDoor
    BY <1>2, <2>1 DEF InFlight, AtTheDoor, Others, At
  <2> QED
    BY <1>1, <1>2, <2>1, <2>2 DEF IInv, RunsAreWaitedFor
<1>3. CASE Gone(r) /\ waited' = waited \ {r}
  <2>1. RunsShape' /\ Others(r) /\ runs'[r].pc = "none"
    BY <1>3, GoneKeepsShape DEF IInv
  <2>2. InFlight' \subseteq InFlight \ {r} /\ AtTheDoor' \subseteq AtTheDoor
    BY <2>1 DEF InFlight, AtTheDoor, At, Others
  <2> QED
    BY <1>1, <1>3, <2>1, <2>2 DEF IInv, RunsAreWaitedFor
<1> QED
  BY <1>1, <1>2, <1>3

(* Whoever holds or closes takes the runs in flight as they are.           *)
LEMMA FacadeKeepsInv ==
    ASSUME IInv, holdAtBoundary \/ release \/ cancel \/ close \/ runClose
    PROVE  IInv'
<1>1. CASE holdAtBoundary \/ release \/ runClose
  <2>1. /\ UNCHANGED runs /\ RunsShape' /\ InFlight' = InFlight
        /\ AtTheDoor' = AtTheDoor
    BY <1>1 DEF holdAtBoundary, release, runClose, IInv, RunsShape, Shape, InFlight,
                AtTheDoor, At
  <2> QED
    BY <1>1, <2>1 DEF holdAtBoundary, release, Released, runClose, IInv,
                      RunsAreWaitedFor, marks
<1>2. CASE cancel \/ close
  <2>1. RunsShape' /\ \A q \in Runs : runs'[q].pc = runs[q].pc
    BY <1>2, AbortedKeepsShape DEF cancel, close, IInv
  <2>2. InFlight' = InFlight /\ AtTheDoor' = AtTheDoor
    BY <2>1 DEF InFlight, AtTheDoor, At
  <2> QED
    BY <1>2, <2>1, <2>2 DEF cancel, close, IInv, RunsAreWaitedFor, facadeVars, marks
<1> QED
  BY <1>1, <1>2

LEMMA OthersKeepInv ==
    ASSUME IInv,
           \/ \E m \in Messages : steer(m) \/ followUp(m)
           \/ IdleWakeStandsDown
           \/ UNCHANGED vars
    PROVE  IInv'
<1>1. UNCHANGED <<life, gate, waited, runs, slipped>>
  BY DEF steer, followUp, enqueue, IdleWakeStandsDown, vars, facadeVars, marks
<1> QED
  BY <1>1 DEF IInv, RunsShape, Shape, RunsAreWaitedFor, InFlight, AtTheDoor, At

LEMMA HeldInit == Init => IInv
BY DEF Init, IInv, RunsShape, Shape, NoRun, RunsAreWaitedFor, InFlight, AtTheDoor, At

LEMMA HeldNext == IInv /\ [Next]_vars => IInv'
<1> SUFFICES ASSUME IInv, [Next]_vars PROVE IInv'
  OBVIOUS
<1>1. CASE \E r \in Runs : \/ prompt(r) \/ resume(r) \/ IdleWakeStarts(r)
                           \/ Unparks(r) \/ LeavesGate(r)
  BY <1>1, BeginningsKeepInv, UnparkingsKeepInv, LeavingsKeepInv
<1>2. CASE \E r \in Runs : ReadsInterruption(r) \/ Settles(r)
  BY <1>2, EndingsKeepInv
<1>3. CASE \E r \in Runs : Within(r)
  BY <1>3, WithinKeepsInv
<1>4. CASE holdAtBoundary \/ release \/ cancel \/ close \/ runClose
  BY <1>4, FacadeKeepsInv
<1>5. CASE \/ \E m \in Messages : steer(m) \/ followUp(m)
           \/ IdleWakeStandsDown
           \/ UNCHANGED vars
  BY <1>5, OthersKeepInv
<1> QED
  BY <1>1, <1>2, <1>3, <1>4, <1>5 DEF Next, RunStep, Within

(* What a coordinator replaces, or close takes down, no run is using: once *)
(* the runs that were in flight have settled, none is until the gate opens *)
(* but one that was past the gate when it fell (harness.ts:777-792,        *)
(* 859-884, 896-898, 1309-1342).                                           *)
THEOREM HeldSessionsAreQuiet == Spec => []QuietMeansQuiet
<1>1. IInv => QuietMeansQuiet
  BY DEF IInv, RunsAreWaitedFor, QuietMeansQuiet
<1> QED
  BY <1>1, HeldInit, HeldNext, PTL DEF Spec
=============================================================================
