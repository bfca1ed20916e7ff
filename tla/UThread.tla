------------------------------- MODULE UThread -------------------------------
(***************************************************************************)
(* The user-level threads of src/uthread and the program of its main.c:    *)
(* main creates threads, calls uthread_schedule and then joins them; the   *)
(* workers call uthread_yield between iterations.  One step is what runs   *)
(* between two context switches.  uthread_create copies the caller's       *)
(* uthread_t into threads[]: completed is the field of the caller's        *)
(* struct, which uthread_wrapper sets, copy_completed the one in threads[], *)
(* which the scheduler reads.                                              *)
(***************************************************************************)
EXTENDS Integers, FiniteSets

CONSTANTS MAX_THREADS,  \* the size of threads[]
          MaxWanted,    \* bound: how many threads main may want to create
          MaxRounds     \* bound: how often a worker may yield

ASSUME UThreadAssumption ==
  MAX_THREADS \in Nat \ {0} /\ MaxWanted \in Nat \ {0} /\ MaxRounds \in Nat

Slots == 0 .. MAX_THREADS - 1

VARIABLES thread_count, current_thread,
          cpu,            \* the slot whose context executes, -1 for main
          copy_completed, \* slots whose threads[].completed is set
          completed,      \* threads whose own completed field is set
          resume,         \* where threads[].context resumes: "worker" or "wrapper"
          iteration,      \* iterations each worker has done
          rounds,         \* iterations of each worker's loop
          wanted,         \* threads main wants to create
          main            \* where main is; "exited" once the process has ended

program == <<rounds, wanted>>
turn == <<current_thread, cpu>>
vars == <<thread_count, turn, copy_completed, completed, resume, iteration,
          program, main>>

Created == 0 .. thread_count - 1

Init ==
  /\ thread_count = 0 /\ current_thread = -1 /\ cpu = -1
  /\ copy_completed = {} /\ completed = {}
  /\ resume = [k \in Slots |-> "worker"]
  /\ iteration = [k \in Slots |-> 0]
  /\ rounds \in [Slots -> 0 .. MaxRounds]
  /\ wanted \in 0 .. MaxWanted
  /\ main = "creating"

(* Mutant: the test for a full table is off by one. *)
CreateOffByOne ==
  /\ main = "creating" /\ thread_count < wanted
  /\ IF thread_count > MAX_THREADS
       THEN main' = "exited" /\ UNCHANGED <<thread_count, copy_completed, completed>>
       ELSE /\ completed' = completed \ {thread_count}
            /\ copy_completed' = copy_completed \ {thread_count}
            /\ thread_count' = thread_count + 1
            /\ UNCHANGED main
  /\ UNCHANGED <<turn, resume, iteration, program>>

(* On failure main returns 1. *)
Create ==
  /\ main = "creating" /\ thread_count < wanted
  /\ IF thread_count >= MAX_THREADS
       THEN main' = "exited" /\ UNCHANGED <<thread_count, copy_completed, completed>>
       ELSE /\ completed' = completed \ {thread_count}
            /\ copy_completed' = copy_completed \ {thread_count}
            /\ thread_count' = thread_count + 1
            /\ UNCHANGED main
  /\ UNCHANGED <<turn, resume, iteration, program>>

Schedule ==
  /\ main = "creating" /\ thread_count = wanted
  /\ main' = "scheduling"
  /\ UNCHANGED <<thread_count, turn, copy_completed, completed, resume, iteration, program>>
-----------------------------------------------------------------------------
(* Mutant: the search always begins at slot 0. *)
FromTheStart(k) == (k - 1) % thread_count

(* uthread_yield: the first slot after the current one that is not completed  *)
(* runs next; if there is none main resumes and current_thread stays.        *)
After(k) == (current_thread + k) % thread_count

(* Mutant: the search stops one slot early. *)
CandidatesOffByOne == {k \in 1 .. thread_count - 1 : After(k) \notin copy_completed}

Candidates == {k \in 1 .. thread_count : After(k) \notin copy_completed}

Yield ==
  IF Candidates = {}
    THEN cpu' = -1 /\ UNCHANGED current_thread
    ELSE /\ current_thread' = After(CHOOSE k \in Candidates : \A j \in Candidates : k <= j)
         /\ cpu' = current_thread'

(* main runs the loop of uthread_schedule. *)
MainStep ==
  /\ main = "scheduling" /\ cpu = -1
  /\ IF Created \subseteq copy_completed
       THEN main' = "joining" /\ UNCHANGED turn
       ELSE Yield /\ UNCHANGED main
  /\ UNCHANGED <<thread_count, copy_completed, completed, resume, iteration, program>>

(* uthread_schedule has returned.  It does so only when there is no thread, so *)
(* there is nothing to join and main returns.                                *)
Finish ==
  /\ main = "joining"
  /\ main' = "exited"
  /\ UNCHANGED <<thread_count, turn, copy_completed, completed, resume, iteration, program>>

Running(k) == main = "scheduling" /\ cpu = k

WorkerIterates(k) ==
  /\ Running(k) /\ resume[k] = "worker" /\ iteration[k] < rounds[k]
  /\ iteration' = [iteration EXCEPT ![k] = @ + 1]
  /\ Yield
  /\ UNCHANGED <<thread_count, copy_completed, completed, resume, program, main>>

(* The worker returns to uthread_wrapper, which marks the caller's struct. *)
WorkerReturns(k) ==
  /\ Running(k) /\ resume[k] = "worker" /\ iteration[k] = rounds[k]
  /\ completed' = completed \cup {k}
  /\ resume' = [resume EXCEPT ![k] = "wrapper"]
  /\ Yield
  /\ UNCHANGED <<thread_count, copy_completed, iteration, program, main>>

(* Mutant: with uc_link set to the thread's own context, its routine runs again. *)
WrapperRestarts(k) ==
  /\ Running(k) /\ resume[k] = "wrapper"
  /\ resume' = [resume EXCEPT ![k] = "worker"]
  /\ iteration' = [iteration EXCEPT ![k] = 0]
  /\ UNCHANGED <<thread_count, turn, copy_completed, completed, program, main>>

(* A wrapper that is resumed returns; with uc_link NULL that ends the process. *)
WrapperReturns(k) ==
  /\ Running(k) /\ resume[k] = "wrapper"
  /\ main' = "exited"
  /\ UNCHANGED <<thread_count, turn, copy_completed, completed, resume, iteration, program>>

Thread(k) == WorkerIterates(k) \/ WorkerReturns(k) \/ WrapperReturns(k)

Next == Create \/ Schedule \/ MainStep \/ Finish \/ \E k \in Slots : Thread(k)

Spec == Init /\ [][Next]_vars

(* One kernel thread executes all of this, and nothing in it blocks for good. *)
FairSpec == Spec /\ WF_vars(Next)
-----------------------------------------------------------------------------
TypeOK ==
  /\ thread_count \in 0 .. MAX_THREADS
  /\ current_thread \in -1 .. thread_count - 1 /\ cpu \in {-1, current_thread}
  /\ copy_completed \subseteq Created /\ completed \subseteq Created
  /\ resume \in [Slots -> {"worker", "wrapper"}]
  /\ iteration \in [Slots -> 0 .. MaxRounds]
  /\ rounds \in [Slots -> 0 .. MaxRounds]
  /\ wanted \in 0 .. MaxWanted
  /\ main \in {"creating", "scheduling", "joining", "exited"}

(* Round robin: of two unfinished threads the one created first is never     *)
(* behind and never more than one iteration ahead.                           *)
RoundRobin ==
  \A a, b \in Created \ completed : a < b => iteration[a] - iteration[b] \in {0, 1}

(* A thread that has returned from its routine never enters it again.        *)
RunsOnce == [][\A k \in completed : k \in completed' /\ iteration'[k] = iteration[k]]_vars

(* Once uthread_schedule runs, every thread gets the processor at least once. *)
EveryThreadRuns ==
  \A k \in Slots :
    (main = "scheduling" /\ k \in Created) ~> (iteration[k] > 0 \/ k \in completed)

(* The process ends only when every thread has run to its end, so that main  *)
(* reaches its line "all threads have completed" (main.c:72).                *)
AllThreadsComplete == main = "exited" /\ thread_count = wanted => completed = Created
=============================================================================
