---------------------------- MODULE TunerProofs ----------------------------
(* Proofs about opentuner_run.py: whatever the calls, the configurations,   *)
(* the scores and the number of threads, the best result is one call's and  *)
(* the best of all.                                                         *)
EXTENDS Tuner, TLAPS

Critical == {"compare", "accuracy", "make_cmd", "bin_cmd", "release"}
BestTypeOK == best = [accuracy |-> best.accuracy, make_cmd |-> best.make_cmd,
                      bin_cmd |-> best.bin_cmd]
LockIsHeld == \A r \in Runs : lock = r <=> pc[r] \in Critical
ScoresAreNew == \A r \in Runs : pc[r] \in {"idle", "clean", "build", "run"} => accuracy[r] = 0

(* The calls that have compared their score, the one that still holds the   *)
(* lock included.                                                           *)
Scored == {r \in Runs : pc[r] \in {"release", "returned"} /\ accuracy[r] > 0}
ResultOf(r) == [accuracy |-> accuracy[r], make_cmd |-> CommandOf(config[r]),
                bin_cmd |-> BinCommand]
OneCall == best = NothingYet \/ \E r \in Scored : best = ResultOf(r)
Half == {"accuracy", "make_cmd", "bin_cmd"}
HalfWritten ==
  \A r \in Runs :
    /\ pc[r] = "accuracy" => accuracy[r] > best.accuracy
    /\ pc[r] \in {"make_cmd", "bin_cmd"} => best.accuracy = accuracy[r] /\ accuracy[r] > 0
    /\ pc[r] = "bin_cmd" => best.make_cmd = CommandOf(config[r])
WholeWritten == (\A r \in Runs : pc[r] \notin {"make_cmd", "bin_cmd"}) => OneCall
MaximumOfScored == \A r \in Scored : accuracy[r] <= best.accuracy

(* The inductive invariant.                                                *)
Inv == /\ TypeOK /\ BestTypeOK /\ LockIsHeld /\ ScoresAreNew
       /\ HalfWritten /\ WholeWritten /\ MaximumOfScored

(* A score that is read from mdriver's output is a number.                 *)
LEMMA OutcomeType == \A o \in PossibleOutcomes : perfidx(o) \in Nat
BY TunerAssumption DEF PossibleOutcomes, Outcomes, perfidx

(* Nothing has been measured when tuning starts.                           *)
LEMMA InitInv == Init => Inv
<1> SUFFICES ASSUME Init PROVE Inv
    OBVIOUS
<1>1. best.accuracy = 0 /\ BestTypeOK
  BY DEF Init, NothingYet, BestTypeOK
<1>2. TypeOK
  <2>1. pc \in [Runs -> Locations] /\ accuracy \in [Runs -> Nat] /\ best.accuracy \in Nat
    BY <1>1 DEF Init, Locations
  <2>2. config \in [Runs -> Configs \cup {None}] /\ measured \in [Runs -> Configs \cup {None}]
    BY DEF Init
  <2>3. mdriver \in Configs \cup {None} /\ lock \in Runs \cup {None}
        /\ awsrun \in BOOLEAN /\ overlapped \in BOOLEAN
    BY DEF Init
  <2> QED BY <2>1, <2>2, <2>3 DEF TypeOK
<1>3. LockIsHeld /\ ScoresAreNew /\ HalfWritten
  BY TunerAssumption DEF Init, LockIsHeld, ScoresAreNew, HalfWritten, Critical
<1>4. WholeWritten /\ MaximumOfScored
  BY DEF Init, WholeWritten, MaximumOfScored, OneCall, Scored
<1> QED BY <1>1, <1>2, <1>3, <1>4 DEF Inv

(* At most one call is between acquire and release.                        *)
LEMMA OneHolder ==
  ASSUME LockIsHeld, NEW r \in Runs, NEW q \in Runs, pc[r] \in Critical, pc[q] \in Critical
  PROVE  r = q
BY DEF LockIsHeld

(* A step that changes neither the scores nor the best result, and moves    *)
(* one call outside the lock, keeps what is known of them.                  *)
LEMMA OutsideTheLock ==
  ASSUME Inv, NEW r \in Runs, NEW l \in Locations \ Critical, pc[r] \notin Critical,
         pc' = [pc EXCEPT ![r] = l], UNCHANGED <<awsrun, lock, best>>, overlapped' \in BOOLEAN,
         config' \in [Runs -> Configs \cup {None}],
         measured' \in [Runs -> Configs \cup {None}], mdriver' \in Configs \cup {None},
         accuracy' \in [Runs -> Nat], ScoresAreNew',
         \A q \in Runs \ {r} : accuracy'[q] = accuracy[q] /\ config'[q] = config[q],
         pc[r] # "returned", l = "returned" => accuracy'[r] = 0
  PROVE  Inv'
<1> USE DEF Critical, Locations
<1>1. TypeOK'
  BY DEF Inv, TypeOK
<1>2. BestTypeOK'
  BY DEF Inv, BestTypeOK
<1>3. \A q \in Runs \ {r} : pc'[q] = pc[q]
  BY DEF Inv, TypeOK
<1>4. pc'[r] = l
  BY DEF Inv, TypeOK
<1>5. LockIsHeld'
  BY <1>3, <1>4 DEF Inv, LockIsHeld
<1>6. HalfWritten'
  <2> SUFFICES ASSUME NEW q \in Runs PROVE HalfWritten!(q)'
      BY DEF HalfWritten
  <2>1. CASE q = r
    BY <1>4, <2>1
  <2>2. CASE q # r
    BY <1>3, <2>2 DEF Inv, HalfWritten
  <2> QED BY <2>1, <2>2
<1>7. Scored' = Scored
  BY <1>3, <1>4 DEF Scored
<1>8. \A q \in Scored : q # r
  BY DEF Scored
<1>9. WholeWritten'
  <2>1. \A q \in Scored : (ResultOf(q))' = ResultOf(q)
    BY <1>8 DEF ResultOf, Scored, CommandOf, BinCommand
  <2>2. OneCall => OneCall'
    BY <1>7, <2>1 DEF OneCall, NothingYet
  <2>3. (\A q \in Runs : pc'[q] \notin {"make_cmd", "bin_cmd"})
          => \A q \in Runs : pc[q] \notin {"make_cmd", "bin_cmd"}
    BY <1>3
  <2> QED BY <2>2, <2>3 DEF Inv, WholeWritten
<1>10. MaximumOfScored'
  BY <1>7, <1>8 DEF Inv, MaximumOfScored, Scored
<1> QED BY <1>1, <1>2, <1>5, <1>6, <1>9, <1>10, ScoresAreNew' DEF Inv

(* A step of the call that holds the lock, or takes it, gives it up or      *)
(* writes one of the fields; nothing else changes.                          *)
LEMMA InsideTheLock ==
  ASSUME Inv, NEW r \in Runs, NEW l \in Locations \ {"idle", "clean", "build", "run"},
         pc[r] \notin {"idle", "clean", "build", "run", "returned"},
         pc' = [pc EXCEPT ![r] = l], UNCHANGED <<awsrun, config, accuracy, measured, overlapped, mdriver>>,
         lock' \in Runs \cup {None}, best'.accuracy \in Nat
  PROVE  TypeOK' /\ ScoresAreNew' /\ pc'[r] = l /\ \A q \in Runs \ {r} : pc'[q] = pc[q]
BY DEF Inv, TypeOK, ScoresAreNew, Locations

(* acquire, compare and release leave the best result as it is.            *)
LEMMA BestUnchanged ==
  ASSUME Inv, NEW r \in Runs, NEW l \in {"compare", "accuracy", "release", "returned"},
         pc[r] \in {"lock", "compare", "release"},
         pc' = [pc EXCEPT ![r] = l], UNCHANGED <<awsrun, config, accuracy, measured, overlapped, mdriver, best>>,
         lock' \in Runs \cup {None}, LockIsHeld', pc[r] = "release" => l = "returned",
         l = "accuracy" => accuracy[r] > best.accuracy,
         l \in {"release", "returned"} => accuracy[r] <= best.accuracy
  PROVE  Inv'
<1>1. TypeOK' /\ ScoresAreNew' /\ pc'[r] = l /\ \A q \in Runs \ {r} : pc'[q] = pc[q]
  <2>1. best'.accuracy \in Nat
    BY DEF Inv, TypeOK
  <2> QED BY <2>1, InsideTheLock DEF Locations
<1>2. BestTypeOK'
  BY DEF Inv, BestTypeOK
<1>3. HalfWritten'
  <2> SUFFICES ASSUME NEW q \in Runs PROVE HalfWritten!(q)'
      BY DEF HalfWritten
  <2>1. CASE q = r
    BY <1>1, <2>1
  <2>2. CASE q # r
    BY <1>1, <2>2 DEF Inv, HalfWritten
  <2> QED BY <2>1, <2>2
<1>4. \A q \in Scored : q \in Scored' /\ (ResultOf(q))' = ResultOf(q)
  <2> SUFFICES ASSUME NEW q \in Scored PROVE q \in Scored' /\ (ResultOf(q))' = ResultOf(q)
      OBVIOUS
  <2>1. (ResultOf(q))' = ResultOf(q)
    BY DEF ResultOf, CommandOf, BinCommand
  <2>2. CASE q # r
    BY <1>1, <2>1, <2>2 DEF Scored
  <2>3. CASE q = r
    <3>1. pc[r] = "release"
      BY <2>3 DEF Scored
    <3> QED BY <1>1, <2>1, <2>3, <3>1 DEF Scored
  <2> QED BY <2>2, <2>3
<1>5. WholeWritten'
  <2>1. (\A q \in Runs : pc'[q] \notin {"make_cmd", "bin_cmd"})
          => \A q \in Runs : pc[q] \notin {"make_cmd", "bin_cmd"}
    BY <1>1
  <2>2. OneCall => OneCall'
    BY <1>4 DEF OneCall, NothingYet
  <2> QED BY <2>1, <2>2 DEF Inv, WholeWritten
<1>6. MaximumOfScored'
  <2> SUFFICES ASSUME NEW q \in Scored' PROVE accuracy[q] <= best.accuracy
      BY DEF MaximumOfScored
  <2>1. CASE q = r
    BY <1>1, <2>1 DEF Scored
  <2>2. CASE q # r
    <3>1. q \in Scored
      BY <1>1, <2>2 DEF Scored
    <3> QED BY <3>1 DEF Inv, MaximumOfScored
  <2> QED BY <2>1, <2>2
<1> QED BY <1>1, <1>2, <1>3, <1>5, <1>6, LockIsHeld' DEF Inv

(* Writing one field of the result under the lock: the other calls are not  *)
(* between its fields, and their scores are not above the new one.          *)
LEMMA FieldWritten ==
  ASSUME Inv, NEW r \in Runs, NEW l \in {"make_cmd", "bin_cmd", "release"},
         pc[r] \in Half, pc' = [pc EXCEPT ![r] = l],
         UNCHANGED <<awsrun, config, accuracy, measured, overlapped, mdriver, lock>>,
         best'.accuracy = accuracy[r], BestTypeOK', accuracy[r] > 0,
         accuracy[r] >= best.accuracy,
         l = "bin_cmd" => best'.make_cmd = CommandOf(config[r]),
         l = "release" => best' = ResultOf(r)
  PROVE  Inv'
<1>1. TypeOK' /\ ScoresAreNew' /\ pc'[r] = l /\ \A q \in Runs \ {r} : pc'[q] = pc[q]
  <2>1. best'.accuracy \in Nat /\ lock' \in Runs \cup {None}
    BY DEF Inv, TypeOK
  <2> QED BY <2>1, InsideTheLock DEF Locations, Half
<1>2. \A q \in Runs \ {r} : pc[q] \notin Critical
  BY OneHolder DEF Inv, Critical, Half
<1>3. LockIsHeld'
  BY <1>1 DEF Inv, LockIsHeld, Critical, Half
<1>4. HalfWritten'
  <2> SUFFICES ASSUME NEW q \in Runs PROVE HalfWritten!(q)'
      BY DEF HalfWritten
  <2>1. CASE q = r
    BY <1>1, <2>1 DEF CommandOf
  <2>2. CASE q # r
    BY <1>1, <1>2, <2>2 DEF Critical
  <2> QED BY <2>1, <2>2
<1>5. WholeWritten'
  <2>1. CASE l = "release"
    <3>1. r \in Scored' /\ best' = (ResultOf(r))'
      BY <1>1, <2>1 DEF Scored, ResultOf, CommandOf, BinCommand
    <3> QED BY <3>1 DEF WholeWritten, OneCall
  <2>2. CASE l # "release"
    BY <1>1, <2>2 DEF WholeWritten
  <2> QED BY <2>1, <2>2
<1>6. MaximumOfScored'
  <2> SUFFICES ASSUME NEW q \in Scored' PROVE accuracy[q] <= accuracy[r]
      BY DEF MaximumOfScored
  <2>1. CASE q = r
    BY <2>1 DEF Inv, TypeOK
  <2>2. CASE q # r
    <3>1. q \in Scored
      BY <1>1, <2>2 DEF Scored
    <3>2. accuracy[q] <= best.accuracy /\ q \in Runs
      BY <3>1 DEF Inv, MaximumOfScored, Scored
    <3> QED BY <3>2 DEF Inv, TypeOK
  <2> QED BY <2>1, <2>2
<1> QED BY <1>1, <1>3, <1>4, <1>5, <1>6 DEF Inv

(* Every step keeps the invariant.                                         *)
LEMMA NextInv == Inv /\ [Next]_vars => Inv'
<1> SUFFICES ASSUME Inv, [Next]_vars PROVE Inv'
    OBVIOUS
<1> USE DEF Goto
<1>1. ASSUME NEW r \in Runs, Begin(r) PROVE Inv'
  <2>1. PICK cfg \in Configs : config' = [config EXCEPT ![r] = cfg]
    BY <1>1 DEF Begin, manipulator
  <2>2. config' \in [Runs -> Configs \cup {None}]
        /\ \A q \in Runs \ {r} : config'[q] = config[q]
    BY <2>1 DEF Inv, TypeOK
  <2>3. pc[r] = "idle" /\ pc' = [pc EXCEPT ![r] = "clean"]
        /\ UNCHANGED <<awsrun, accuracy, measured, mdriver, lock, best>> /\ overlapped' \in BOOLEAN
    BY <1>1 DEF Begin, Running, Inv, TypeOK
  <2>4. ScoresAreNew'
    BY <2>3 DEF Inv, TypeOK, ScoresAreNew
  <2> QED BY <2>2, <2>3, <2>4, OutsideTheLock DEF Inv, TypeOK, Locations, Critical
<1>2. ASSUME NEW r \in Runs, partial_clean(r) PROVE Inv'
  <2>1. ScoresAreNew'
    BY <1>2 DEF partial_clean, Inv, TypeOK, ScoresAreNew
  <2> QED BY <1>2, <2>1, OutsideTheLock
         DEF partial_clean, Inv, TypeOK, Locations, Critical
<1>3. ASSUME NEW r \in Runs, make_mdriver(r) PROVE Inv'
  <2>1. ScoresAreNew'
    BY <1>3 DEF make_mdriver, Inv, TypeOK, ScoresAreNew
  <2> QED BY <1>3, <2>1, OutsideTheLock
         DEF make_mdriver, Inv, TypeOK, Locations, Critical
<1>4. ASSUME NEW r \in Runs, make_fails(r) PROVE Inv'
  <2>1. ScoresAreNew' /\ accuracy'[r] = 0
    BY <1>4 DEF make_fails, Inv, TypeOK, ScoresAreNew
  <2> QED BY <1>4, <2>1, OutsideTheLock
         DEF make_fails, Inv, TypeOK, Locations, Critical
<1>5. ASSUME NEW r \in Runs, run_command(r) PROVE Inv'
  <2>1. pc[r] = "run" /\ UNCHANGED <<awsrun, config, overlapped, mdriver, lock, best>>
        /\ measured' = [measured EXCEPT ![r] = mdriver]
    BY <1>5 DEF run_command
  <2>2. accuracy[r] = 0 /\ accuracy \in [Runs -> Nat]
    BY <2>1 DEF Inv, ScoresAreNew, TypeOK
  <2>3. measured' \in [Runs -> Configs \cup {None}]
    BY <2>1 DEF Inv, TypeOK
  <2>4. CASE pc' = [pc EXCEPT ![r] = "returned"] /\ UNCHANGED accuracy
    <3>1. ScoresAreNew'
      BY <2>1, <2>4 DEF Inv, TypeOK, ScoresAreNew
    <3> QED BY <2>1, <2>2, <2>3, <2>4, <3>1, OutsideTheLock
           DEF Inv, TypeOK, Locations, Critical
  <2>5. CASE \E o \in PossibleOutcomes :
               pc' = [pc EXCEPT ![r] = "lock"] /\ accuracy' = [accuracy EXCEPT ![r] = perfidx(o)]
    <3>1. PICK n \in Nat : pc' = [pc EXCEPT ![r] = "lock"] /\ accuracy' = [accuracy EXCEPT ![r] = n]
      BY <2>5, OutcomeType
    <3>2. accuracy' \in [Runs -> Nat] /\ \A q \in Runs \ {r} : accuracy'[q] = accuracy[q]
      BY <2>2, <3>1
    <3>3. ScoresAreNew'
      BY <2>1, <3>1, <3>2 DEF Inv, TypeOK, ScoresAreNew
    <3> QED BY <2>1, <2>3, <3>1, <3>2, <3>3, OutsideTheLock
           DEF Inv, TypeOK, Locations, Critical
  <2> QED BY <1>5, <2>4, <2>5 DEF run_command
<1>6. ASSUME NEW r \in Runs, acquire(r) PROVE Inv'
  <2>1. pc[r] = "lock" /\ lock = None /\ lock' = r /\ pc' = [pc EXCEPT ![r] = "compare"]
    BY <1>6 DEF acquire
  <2>2. LockIsHeld'
    BY <2>1, TunerAssumption DEF Inv, TypeOK, LockIsHeld, Critical
  <2> QED BY <1>6, <2>1, <2>2, BestUnchanged DEF acquire
<1>7. ASSUME NEW r \in Runs, compare(r) PROVE Inv'
  <2>1. pc[r] = "compare" /\ UNCHANGED <<awsrun, config, accuracy, measured, overlapped, mdriver, lock, best>>
    BY <1>7 DEF compare
  <2>2. accuracy[r] \in Nat /\ best.accuracy \in Nat /\ lock \in Runs \cup {None}
    BY DEF Inv, TypeOK
  <2>3. CASE accuracy[r] > best.accuracy
    <3>1. pc' = [pc EXCEPT ![r] = "accuracy"]
      BY <1>7, <2>3 DEF compare
    <3>2. LockIsHeld'
      BY <2>1, <3>1 DEF Inv, TypeOK, LockIsHeld, Critical
    <3> QED BY <2>1, <2>2, <2>3, <3>1, <3>2, BestUnchanged
  <2>4. CASE ~ (accuracy[r] > best.accuracy)
    <3>1. pc' = [pc EXCEPT ![r] = "release"]
      BY <1>7, <2>4 DEF compare
    <3>2. LockIsHeld'
      BY <2>1, <3>1 DEF Inv, TypeOK, LockIsHeld, Critical
    <3>3. accuracy[r] <= best.accuracy
      BY <2>2, <2>4
    <3> QED BY <2>1, <2>2, <3>1, <3>2, <3>3, BestUnchanged
  <2> QED BY <2>3, <2>4
<1>8. ASSUME NEW r \in Runs, release(r) PROVE Inv'
  <2>1. pc[r] = "release" /\ lock' = None /\ pc' = [pc EXCEPT ![r] = "returned"]
        /\ UNCHANGED <<awsrun, config, accuracy, measured, overlapped, mdriver, best>>
    BY <1>8 DEF release
  <2>2. LockIsHeld'
    <3>1. \A q \in Runs \ {r} : pc[q] \notin Critical
      BY <2>1, OneHolder DEF Inv, Critical
    <3> QED BY <2>1, <3>1, TunerAssumption DEF Inv, TypeOK, LockIsHeld, Critical
  <2>3. accuracy[r] <= best.accuracy
    <3>1. accuracy[r] \in Nat /\ best.accuracy \in Nat
      BY DEF Inv, TypeOK
    <3>2. accuracy[r] > 0 => r \in Scored
      BY <2>1 DEF Scored
    <3> QED BY <3>1, <3>2 DEF Inv, MaximumOfScored
  <2> QED BY <2>1, <2>2, <2>3, BestUnchanged
<1>9. ASSUME NEW r \in Runs, set_best_accuracy(r) PROVE Inv'
  <2>1. pc[r] = "accuracy" /\ best' = [best EXCEPT !.accuracy = accuracy[r]]
        /\ pc' = [pc EXCEPT ![r] = "make_cmd"]
        /\ UNCHANGED <<awsrun, config, accuracy, measured, overlapped, mdriver, lock>>
    BY <1>9 DEF set_best_accuracy
  <2>2. best'.accuracy = accuracy[r] /\ BestTypeOK'
    BY <2>1 DEF Inv, BestTypeOK
  <2>3. accuracy[r] > best.accuracy /\ accuracy[r] \in Nat /\ best.accuracy \in Nat
    BY <2>1 DEF Inv, HalfWritten, TypeOK
  <2>4. accuracy[r] > 0 /\ accuracy[r] >= best.accuracy
    BY <2>3
  <2> QED BY <2>1, <2>2, <2>4, FieldWritten DEF Half
<1>10. ASSUME NEW r \in Runs, set_best_make_cmd(r) PROVE Inv'
  <2>1. pc[r] = "make_cmd" /\ best' = [best EXCEPT !.make_cmd = CommandOf(config[r])]
        /\ pc' = [pc EXCEPT ![r] = "bin_cmd"]
        /\ UNCHANGED <<awsrun, config, accuracy, measured, overlapped, mdriver, lock>>
    BY <1>10 DEF set_best_make_cmd
  <2>2. best'.make_cmd = CommandOf(config[r]) /\ best'.accuracy = best.accuracy /\ BestTypeOK'
    BY <2>1 DEF Inv, BestTypeOK
  <2>3. best.accuracy = accuracy[r] /\ accuracy[r] > 0 /\ accuracy[r] \in Nat
    BY <2>1 DEF Inv, HalfWritten, TypeOK
  <2>4. best'.accuracy = accuracy[r] /\ accuracy[r] >= best.accuracy
    BY <2>2, <2>3
  <2> QED BY <2>1, <2>2, <2>3, <2>4, FieldWritten DEF Half
<1>11. ASSUME NEW r \in Runs, set_best_bin_cmd(r) PROVE Inv'
  <2>1. pc[r] = "bin_cmd" /\ best' = [best EXCEPT !.bin_cmd = BinCommand]
        /\ pc' = [pc EXCEPT ![r] = "release"]
        /\ UNCHANGED <<awsrun, config, accuracy, measured, overlapped, mdriver, lock>>
    BY <1>11 DEF set_best_bin_cmd
  <2>2. best.accuracy = accuracy[r] /\ accuracy[r] > 0 /\ accuracy[r] \in Nat
        /\ best.make_cmd = CommandOf(config[r])
    BY <2>1 DEF Inv, HalfWritten, TypeOK
  <2>3. best' = ResultOf(r) /\ best'.accuracy = accuracy[r] /\ BestTypeOK'
    BY <2>1, <2>2 DEF Inv, BestTypeOK, ResultOf
  <2>4. accuracy[r] >= best.accuracy
    BY <2>2
  <2> QED BY <2>1, <2>2, <2>3, <2>4, FieldWritten DEF Half
<1>12. CASE save_final_config \/ UNCHANGED vars
  <2>1. UNCHANGED <<awsrun, pc, config, accuracy, measured, mdriver, lock, best>> /\ overlapped' \in BOOLEAN
    BY <1>12 DEF save_final_config, vars, Inv, TypeOK
  <2>2. TypeOK' /\ UNCHANGED <<BestTypeOK, LockIsHeld, ScoresAreNew, HalfWritten>>
    BY <2>1 DEF Inv, TypeOK, BestTypeOK, LockIsHeld, ScoresAreNew, HalfWritten, CommandOf
  <2>3. Scored' = Scored /\ OneCall' = OneCall
    BY <2>1 DEF Scored, OneCall, ResultOf, CommandOf, NothingYet, BinCommand
  <2> QED BY <2>1, <2>2, <2>3 DEF Inv, WholeWritten, MaximumOfScored
<1> QED BY <1>1, <1>2, <1>3, <1>4, <1>5, <1>6, <1>7, <1>8, <1>9, <1>10, <1>11, <1>12
       DEF Next, run, Ended

(* The invariant in every state: the lock has one holder, and the fields    *)
(* of the best result mix two calls only while the lock is held.            *)
THEOREM TunerInvariant == Spec => []Inv
<1> QED BY InitInv, NextInv, PTL DEF Spec

(* The variables of every run are typed: scores are numbers, not missing    *)
(* statistics.                                                              *)
THEOREM TunerTypes == Spec => []TypeOK
<1>1. Inv => TypeOK
  BY DEF Inv
<1> QED BY <1>1, TunerInvariant, PTL

(* Whoever finds the lock of MdriverTuner free finds the score, the make    *)
(* command and the run command of one call.                                 *)
THEOREM BestResultIsOneCalls == Spec => []BestIsOneCalls
<1>1. Inv => BestIsOneCalls
  <2> SUFFICES ASSUME Inv, lock = None
               PROVE  best = NothingYet \/ \E r \in Compared : best = ResultOf(r)
      BY DEF BestIsOneCalls, ResultOf
  <2>1. \A r \in Runs : pc[r] \notin Critical
    BY TunerAssumption DEF Inv, LockIsHeld
  <2>2. Scored = Compared
    BY <2>1 DEF Scored, Compared, Critical
  <2>3. OneCall
    BY <2>1 DEF Inv, WholeWritten, Critical
  <2> QED BY <2>2, <2>3 DEF OneCall
<1> QED BY <1>1, TunerInvariant, PTL

(* No result of run is lost, however the calls overlap.                    *)
THEOREM BestResultIsMaximum == Spec => []BestIsMaximum
<1>1. Inv => BestIsMaximum
  BY DEF Inv, MaximumOfScored, Scored, Compared, BestIsMaximum
<1> QED BY <1>1, TunerInvariant, PTL

(* The score compared under the lock still is the best one when it is       *)
(* replaced: best_accuracy only grows.                                      *)
THEOREM BestResultGrows == Spec => BestNeverDecreases
<1>1. Inv /\ [Next]_vars => [best'.accuracy >= best.accuracy]_vars
  <2> SUFFICES ASSUME Inv, [Next]_vars PROVE best'.accuracy >= best.accuracy
      OBVIOUS
  <2>1. best.accuracy \in Nat
    BY DEF Inv, TypeOK
  <2>2. CASE UNCHANGED best
    BY <2>1, <2>2
  <2>3. ASSUME NEW r \in Runs, set_best_accuracy(r) PROVE best'.accuracy >= best.accuracy
    <3>1. best'.accuracy = accuracy[r]
      BY <2>3 DEF set_best_accuracy, Inv, BestTypeOK
    <3>2. accuracy[r] > best.accuracy /\ accuracy[r] \in Nat
      BY <2>3 DEF set_best_accuracy, Inv, HalfWritten, TypeOK
    <3> QED BY <2>1, <3>1, <3>2
  <2>4. ASSUME NEW r \in Runs, set_best_make_cmd(r) \/ set_best_bin_cmd(r)
        PROVE  best'.accuracy >= best.accuracy
    <3>1. best'.accuracy = best.accuracy
      BY <2>4 DEF set_best_make_cmd, set_best_bin_cmd, Inv, BestTypeOK
    <3> QED BY <2>1, <3>1
  <2>5. UNCHANGED best
        \/ \E r \in Runs : set_best_accuracy(r) \/ set_best_make_cmd(r) \/ set_best_bin_cmd(r)
    BY DEF Next, run, Begin, partial_clean, make_mdriver, make_fails, run_command, acquire,
           compare, release, save_final_config, Ended, vars
  <2> QED BY <2>2, <2>3, <2>4, <2>5
<1> QED BY <1>1, TunerInvariant, PTL DEF Spec, BestNeverDecreases

-----------------------------------------------------------------------------
(* The calls share one ./mdriver.  As long as they do not overlap each of   *)
(* them runs what it has built.                                            *)

OneAtATime == ~ overlapped => \A q, r \in Runs : q \in Running /\ r \in Running => q = r
RunsItsOwn ==
  ~ overlapped =>
    \A r \in Runs : /\ pc[r] = "run" => mdriver = config[r]
                    /\ accuracy[r] > 0 => measured[r] = config[r]
SavedIsResult ==
  saved # None => /\ \A r \in Runs : pc[r] = "returned"
                  /\ saved = NothingYet \/ \E r \in Runs : saved = ResultOf(r)

(* A call that is running and goes on leaves no more calls running.         *)
LEMMA OneGoesOn ==
  ASSUME Inv, OneAtATime, NEW r \in Runs, NEW l, r \in Running, overlapped' = overlapped,
         pc' = [pc EXCEPT ![r] = l]
  PROVE  OneAtATime' /\ \A q \in Runs \ {r} : pc'[q] = pc[q] /\ (~ overlapped => pc[q] # "run")
<1>1. \A q \in Runs \ {r} : pc'[q] = pc[q]
  BY DEF Inv, TypeOK
<1>2. \A q \in Runs : q \in Running' => q \in Running
  BY <1>1 DEF Running
<1>3. \A q \in Runs \ {r} : ~ overlapped => q \notin Running
  BY DEF OneAtATime
<1> QED BY <1>1, <1>2, <1>3 DEF OneAtATime, Running

(* No step but the last changes what has been saved, and none follows it.  *)
LEMMA SavedStep ==
  ASSUME Inv, SavedIsResult, [Next]_vars
  PROVE  SavedIsResult'
<1>1. CASE UNCHANGED vars
  BY <1>1 DEF vars, SavedIsResult, ResultOf, CommandOf, BinCommand, NothingYet
<1>2. CASE save_final_config
  <2>1. saved' = best /\ \A r \in Runs : pc'[r] = "returned"
    BY <1>2 DEF save_final_config
  <2>2. OneCall /\ UNCHANGED <<accuracy, config, awsrun>>
    BY <1>2 DEF save_final_config, Inv, WholeWritten
  <2>3. \A r \in Runs : (ResultOf(r))' = ResultOf(r)
    BY <2>2 DEF ResultOf, CommandOf, BinCommand
  <2> QED BY <2>1, <2>2, <2>3 DEF SavedIsResult, OneCall, Scored, NothingYet
<1>3. ASSUME NEW r \in Runs, Begin(r) \/ run(r)
      PROVE  SavedIsResult'
  <2>1. pc[r] # "returned" /\ saved' = saved
    BY <1>3 DEF Begin, run, partial_clean, make_mdriver, make_fails, run_command, acquire, compare,
         set_best_accuracy, set_best_make_cmd, set_best_bin_cmd, release
  <2> QED BY <2>1 DEF SavedIsResult
<1> QED BY <1>1, <1>2, <1>3 DEF Next, Ended

(* As long as the calls do not overlap a score is that of its own build.   *)
LEMMA OwnStep ==
  ASSUME Inv, OneAtATime, RunsItsOwn, [Next]_vars
  PROVE  OneAtATime' /\ RunsItsOwn'
<1>1. CASE save_final_config \/ UNCHANGED vars
  BY <1>1 DEF save_final_config, vars, OneAtATime, RunsItsOwn, Running
<1>2. ASSUME NEW r \in Runs, Begin(r)
      PROVE  OneAtATime' /\ RunsItsOwn'
  <2>1. /\ pc[r] = "idle" /\ pc' = [pc EXCEPT ![r] = "clean"]
        /\ overlapped' = (overlapped \/ Running # {})
        /\ UNCHANGED <<accuracy, measured, mdriver>>
    BY <1>2 DEF Begin, Goto
  <2>2. PICK cfg \in manipulator : config' = [config EXCEPT ![r] = cfg]
    BY <1>2 DEF Begin
  <2>3. \A q \in Runs \ {r} : pc'[q] = pc[q] /\ config'[q] = config[q]
    BY <2>1, <2>2 DEF Inv, TypeOK
  <2>4. pc'[r] = "clean" /\ accuracy[r] = 0
    BY <2>1 DEF Inv, TypeOK, ScoresAreNew
  <2>5. OneAtATime'
    BY <2>1, <2>3 DEF OneAtATime, Running
  <2>6. RunsItsOwn'
    <3>1. ~ overlapped' => ~ overlapped
      BY <2>1
    <3>2. /\ pc'[r] # "run" /\ ~ (accuracy'[r] > 0)
          /\ \A q \in Runs \ {r} : pc'[q] = pc[q] /\ config'[q] = config[q]
                                   /\ accuracy'[q] = accuracy[q] /\ measured'[q] = measured[q]
          /\ mdriver' = mdriver
      BY <2>1, <2>3, <2>4
    <3> QED BY <3>1, <3>2 DEF RunsItsOwn
  <2> QED BY <2>5, <2>6
<1>3. ASSUME NEW r \in Runs, NEW l, l # "run", pc' = [pc EXCEPT ![r] = l], r \in Running,
             UNCHANGED <<config, accuracy, measured, overlapped>>
      PROVE  OneAtATime' /\ RunsItsOwn'
  <2>1. OneAtATime' /\ \A q \in Runs \ {r} : pc'[q] = pc[q] /\ (~ overlapped => pc[q] # "run")
    BY <1>3, OneGoesOn
  <2>2. pc'[r] # "run"
    BY <1>3 DEF Inv, TypeOK
  <2> QED BY <1>3, <2>1, <2>2 DEF RunsItsOwn
<1>4. ASSUME NEW r \in Runs,
             \/ partial_clean(r) \/ make_fails(r) \/ acquire(r) \/ compare(r) \/ release(r)
             \/ set_best_accuracy(r) \/ set_best_make_cmd(r) \/ set_best_bin_cmd(r)
      PROVE  OneAtATime' /\ RunsItsOwn'
  <2>1. r \in Running /\ UNCHANGED <<config, accuracy, measured, overlapped>>
    BY <1>4 DEF partial_clean, make_fails, acquire, compare, release, set_best_accuracy,
         set_best_make_cmd, set_best_bin_cmd, Running
  <2>2. \E l \in Locations \ {"run"} : pc' = [pc EXCEPT ![r] = l]
    BY <1>4 DEF partial_clean, make_fails, acquire, compare, release, set_best_accuracy,
         set_best_make_cmd, set_best_bin_cmd, Goto, Locations
  <2> QED BY <1>3, <2>1, <2>2
<1>5. ASSUME NEW r \in Runs, make_mdriver(r)
      PROVE  OneAtATime' /\ RunsItsOwn'
  <2>1. /\ r \in Running /\ pc' = [pc EXCEPT ![r] = "run"] /\ mdriver' = config[r]
        /\ UNCHANGED <<config, accuracy, measured, overlapped>>
    BY <1>5 DEF make_mdriver, Goto, Running
  <2>2. OneAtATime' /\ \A q \in Runs \ {r} : pc'[q] = pc[q] /\ (~ overlapped => pc[q] # "run")
    BY <2>1, OneGoesOn
  <2> QED BY <2>1, <2>2 DEF RunsItsOwn
<1>6. ASSUME NEW r \in Runs, run_command(r)
      PROVE  OneAtATime' /\ RunsItsOwn'
  <2>1. /\ r \in Running /\ pc[r] = "run" /\ measured' = [measured EXCEPT ![r] = mdriver]
        /\ UNCHANGED <<config, overlapped, mdriver>>
    BY <1>6 DEF run_command, Running
  <2>2. PICK l \in {"returned", "lock"} : pc' = [pc EXCEPT ![r] = l]
    BY <1>6 DEF run_command, Goto
  <2>3. OneAtATime' /\ \A q \in Runs \ {r} : pc'[q] = pc[q] /\ (~ overlapped => pc[q] # "run")
    BY <2>1, <2>2, OneGoesOn
  <2>4. pc'[r] # "run" /\ measured'[r] = mdriver
        /\ \A q \in Runs \ {r} : measured'[q] = measured[q]
    BY <2>1, <2>2 DEF Inv, TypeOK
  <2>5. \A q \in Runs \ {r} : accuracy'[q] = accuracy[q]
    BY <1>6 DEF run_command, Inv, TypeOK
  <2>6. ~ overlapped => mdriver = config[r]
    BY <2>1 DEF RunsItsOwn
  <2> QED BY <2>1, <2>3, <2>4, <2>5, <2>6 DEF RunsItsOwn
<1> QED BY <1>1, <1>2, <1>4, <1>5, <1>6 DEF Next, run, Ended

(* The make command that save_final_config prints builds the configuration *)
(* that got the printed score, as long as the calls do not overlap.         *)
THEOREM SavedWasMeasured == Spec => []BestWasMeasured
<1>1. Init => OneAtATime /\ RunsItsOwn /\ SavedIsResult
  BY DEF Init, OneAtATime, RunsItsOwn, SavedIsResult, Running
<1>2. Inv /\ OneAtATime /\ RunsItsOwn /\ SavedIsResult /\ [Next]_vars
        => (OneAtATime /\ RunsItsOwn /\ SavedIsResult)'
  BY OwnStep, SavedStep
<1>3. RunsItsOwn /\ SavedIsResult => BestWasMeasured
  <2> SUFFICES ASSUME RunsItsOwn, SavedIsResult, saved # None, saved.accuracy > 0, ~ overlapped
               PROVE  \E r \in Runs : CommandOf(measured[r]) = saved.make_cmd
                                      /\ accuracy[r] = saved.accuracy
      BY DEF BestWasMeasured
  <2>1. PICK r \in Runs : saved = ResultOf(r)
    BY DEF SavedIsResult, NothingYet
  <2>2. saved.accuracy = accuracy[r] /\ saved.make_cmd = CommandOf(config[r])
    BY <2>1 DEF ResultOf
  <2>3. measured[r] = config[r]
    BY <2>2 DEF RunsItsOwn
  <2> QED BY <2>2, <2>3
<1> QED BY <1>1, <1>2, <1>3, TunerInvariant, PTL DEF Spec
=============================================================================
