------------------------------- MODULE Tuner -------------------------------
(* opentuner_run.py: MdriverTuner.run builds ./mdriver with a configuration, *)
(* runs it and keeps the best configuration seen.  OpenTuner makes the       *)
(* calls; the lock of the class says that it may make several at a time.     *)
(* A command is known by the configuration it was formatted from.            *)
EXTENDS Naturals, FiniteSets

CONSTANTS Runs,      \* the calls of run that OpenTuner makes
          Configs,   \* the configurations its search may ask for
          Scores,    \* the perfidx values mdriver may print
          PARALLEL,  \* how many calls OpenTuner lets overlap
          None       \* the empty string, a missing file, no one

ASSUME TunerAssumption ==
  /\ Scores \subseteq Nat
  /\ PARALLEL \in Nat /\ PARALLEL > 0
  /\ None \notin Configs /\ None \notin Runs

VARIABLES awsrun,    \* args.awsrun: on AWS worker machines, or locally
          pc,        \* where each call is
          config,    \* desired_result.configuration.data of each call
          accuracy,  \* its local variable accuracy
          measured,  \* the configuration of the binary it ran (history)
          overlapped,\* two calls have run at the same time (history)
          mdriver,   \* the configuration ./mdriver was last built with
          lock,      \* the call that holds MdriverTuner.lock
          best,      \* best_accuracy, best_make_cmd and best_bin_cmd
          saved      \* what save_final_config printed

vars == <<awsrun, pc, config, accuracy, measured, overlapped, mdriver, lock, best, saved>>

Locations == {"idle", "clean", "build", "run", "lock", "compare", "accuracy", "make_cmd",
              "bin_cmd", "release", "returned"}
CommandOf(cfg) == [params |-> cfg]
BinCommand == [awsrun |-> awsrun]
NothingYet == [accuracy |-> 0, make_cmd |-> None, bin_cmd |-> None]

Running == {r \in Runs : pc[r] \notin {"idle", "returned"}}
(* The call goes on at l; no call changes the arguments.                   *)
Goto(r, l) == pc' = [pc EXCEPT ![r] = l] /\ UNCHANGED awsrun

Init ==
  /\ awsrun \in BOOLEAN
  /\ pc = [r \in Runs |-> "idle"]
  /\ config = [r \in Runs |-> None]
  /\ accuracy = [r \in Runs |-> 0]
  /\ measured = [r \in Runs |-> None]
  /\ overlapped = FALSE
  /\ mdriver = None
  /\ lock = None
  /\ best = NothingYet
  /\ saved = None

(* OpenTuner picks a point of the manipulator's search space.              *)
manipulator == Configs

Begin(r) ==
  /\ pc[r] = "idle" /\ Cardinality(Running) < PARALLEL
  /\ \E cfg \in manipulator : config' = [config EXCEPT ![r] = cfg]
  /\ overlapped' = (overlapped \/ Running # {})
  /\ Goto(r, "clean")
  /\ UNCHANGED <<accuracy, measured, mdriver, lock, best, saved>>

(* make partial_clean removes the binary, make mdriver builds it anew.  All *)
(* calls work in the same directory.                                        *)
partial_clean(r) ==
  /\ pc[r] = "clean"
  /\ mdriver' = None
  /\ Goto(r, "build")
  /\ UNCHANGED <<config, accuracy, measured, overlapped, lock, best, saved>>

(* As make_mdriver, for make that finds the old binary up to date.         *)
make_without_clean(r) ==
  /\ pc[r] = "build"
  /\ mdriver' \in {config[r]} \cup {measured[s] : s \in Runs}
  /\ Goto(r, "run")
  /\ UNCHANGED <<config, accuracy, measured, overlapped, lock, best, saved>>

make_mdriver(r) ==
  /\ pc[r] = "build"
  /\ mdriver' = config[r]
  /\ Goto(r, "run")
  /\ UNCHANGED <<config, accuracy, measured, overlapped, lock, best, saved>>

(* The compiler fails or make_timeout expires: 0 perfidx.                  *)
make_fails(r) ==
  /\ pc[r] = "build"
  /\ Goto(r, "returned")
  /\ UNCHANGED <<config, accuracy, measured, overlapped, mdriver, lock, best, saved>>

(* What call_program returns: ok without a timeout and with returncode 0,  *)
(* and the statistics found in stdout.                                     *)
Outcomes == [ok : BOOLEAN, statistics : {"none", "no perfidx", "all"}, perfidx : Scores]
PossibleOutcomes ==
  IF mdriver = None THEN {o \in Outcomes : ~ o.ok /\ o.statistics = "none"} ELSE Outcomes

(* Rejected runs return 0 and leave the best results alone.                *)
Rejected(o) == IF awsrun THEN o.statistics = "none" ELSE ~ o.ok
perfidx_without_default(o) == IF o.statistics = "all" THEN o.perfidx ELSE None
perfidx(o) == IF o.statistics = "all" THEN o.perfidx ELSE 0

run_command(r) ==
  /\ pc[r] = "run"
  /\ \E o \in PossibleOutcomes :
       IF Rejected(o)
         THEN Goto(r, "returned") /\ UNCHANGED accuracy
         ELSE Goto(r, "lock") /\ accuracy' = [accuracy EXCEPT ![r] = perfidx(o)]
  /\ measured' = [measured EXCEPT ![r] = mdriver]
  /\ UNCHANGED <<config, overlapped, mdriver, lock, best, saved>>

(* As acquire, by a thread that does not wait for the lock.                *)
acquire_without_waiting(r) ==
  /\ pc[r] = "lock"
  /\ lock' = r
  /\ Goto(r, "compare")
  /\ UNCHANGED <<config, accuracy, measured, overlapped, mdriver, best, saved>>

(* with self.lock                                                          *)
acquire(r) ==
  /\ pc[r] = "lock" /\ lock = None
  /\ lock' = r
  /\ Goto(r, "compare")
  /\ UNCHANGED <<config, accuracy, measured, overlapped, mdriver, best, saved>>

(* As compare, by any other score, and by a return inside the with block.  *)
compare_different(r) ==
  /\ pc[r] = "compare"
  /\ Goto(r, IF accuracy[r] # best.accuracy THEN "accuracy" ELSE "release")
  /\ UNCHANGED <<config, accuracy, measured, overlapped, mdriver, lock, best, saved>>

compare_and_return(r) ==
  /\ pc[r] = "compare"
  /\ Goto(r, IF accuracy[r] > best.accuracy THEN "accuracy" ELSE "returned")
  /\ UNCHANGED <<config, accuracy, measured, overlapped, mdriver, lock, best, saved>>

compare(r) ==
  /\ pc[r] = "compare"
  /\ Goto(r, IF accuracy[r] > best.accuracy THEN "accuracy" ELSE "release")
  /\ UNCHANGED <<config, accuracy, measured, overlapped, mdriver, lock, best, saved>>

set_best_accuracy(r) ==
  /\ pc[r] = "accuracy"
  /\ best' = [best EXCEPT !.accuracy = accuracy[r]]
  /\ Goto(r, "make_cmd")
  /\ UNCHANGED <<config, accuracy, measured, overlapped, mdriver, lock, saved>>

set_best_make_cmd(r) ==
  /\ pc[r] = "make_cmd"
  /\ best' = [best EXCEPT !.make_cmd = CommandOf(config[r])]
  /\ Goto(r, "bin_cmd")
  /\ UNCHANGED <<config, accuracy, measured, overlapped, mdriver, lock, saved>>

set_best_bin_cmd(r) ==
  /\ pc[r] = "bin_cmd"
  /\ best' = [best EXCEPT !.bin_cmd = BinCommand]
  /\ Goto(r, "release")
  /\ UNCHANGED <<config, accuracy, measured, overlapped, mdriver, lock, saved>>

release(r) ==
  /\ pc[r] = "release"
  /\ lock' = None
  /\ Goto(r, "returned")
  /\ UNCHANGED <<config, accuracy, measured, overlapped, mdriver, best, saved>>

(* Called at the end of tuning; it reads the fields without the lock.      *)
save_final_config ==
  /\ saved = None /\ \A r \in Runs : pc[r] = "returned"
  /\ saved' = best
  /\ UNCHANGED <<awsrun, pc, config, accuracy, measured, overlapped, mdriver, lock, best>>

(* The tuner has ended.                                                    *)
Ended == saved # None /\ UNCHANGED vars

run(r) ==
  \/ partial_clean(r) \/ make_mdriver(r) \/ make_fails(r) \/ run_command(r)
  \/ acquire(r) \/ compare(r) \/ release(r)
  \/ set_best_accuracy(r) \/ set_best_make_cmd(r) \/ set_best_bin_cmd(r)

Next == (\E r \in Runs : Begin(r) \/ run(r)) \/ save_final_config \/ Ended

(* Every call of run has a thread that goes on, call_program ends by its    *)
(* limit at the latest, and OpenTuner makes its calls and then the last one. *)
Fairness ==
  /\ \A r \in Runs : WF_vars(Begin(r)) /\ WF_vars(run(r))
  /\ WF_vars(save_final_config)

Spec == Init /\ [][Next]_vars
FairSpec == Spec /\ Fairness

-----------------------------------------------------------------------------
(* Types: every variable holds what run and save_final_config put there.   *)
TypeOK ==
  /\ pc \in [Runs -> Locations]
  /\ config \in [Runs -> Configs \cup {None}]
  /\ accuracy \in [Runs -> Nat]
  /\ measured \in [Runs -> Configs \cup {None}]
  /\ mdriver \in Configs \cup {None}
  /\ lock \in Runs \cup {None}
  /\ best.accuracy \in Nat
  /\ awsrun \in BOOLEAN /\ overlapped \in BOOLEAN

(* The calls whose score run has compared with the best one.               *)
Compared == {r \in Runs : pc[r] = "returned" /\ accuracy[r] > 0}

(* The three best fields are replaced together: whoever finds the lock free *)
(* sees the score, the make command and the run command of one single call. *)
BestIsOneCalls ==
  lock = None =>
    \/ best = NothingYet
    \/ \E r \in Compared : best = [accuracy |-> accuracy[r], make_cmd |-> CommandOf(config[r]),
                                   bin_cmd |-> BinCommand]

(* No result is lost: a call that has returned scored no more than the best *)
(* one, in whatever order the calls ended and took the lock.                *)
BestIsMaximum == lock = None => \A r \in Compared : accuracy[r] <= best.accuracy

(* The best score never gets worse, and no call takes it back.             *)
BestNeverDecreases == [][best'.accuracy >= best.accuracy]_vars

(* The printed make command builds the configuration that got the printed  *)
(* score, as long as the calls, which share one ./mdriver, do not overlap. *)
BestWasMeasured ==
  saved # None /\ saved.accuracy > 0 /\ ~ overlapped =>
    \E r \in Runs : CommandOf(measured[r]) = saved.make_cmd /\ accuracy[r] = saved.accuracy

(* Tuning ends: no call waits for ever for the lock, a build or a run.     *)
TuningEnds == <>(saved # None)
=============================================================================
