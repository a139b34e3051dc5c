---------------------------- MODULE ToZeroCounter ---------------------------
(***************************************************************************)
(* util::ToZeroCounter: threads count up and down, others wait until the   *)
(* count is zero (StreamHandler waits for its jobs that way).              *)
(***************************************************************************)
EXTENDS ConditionalWait, FiniteSets

CONSTANTS Worker,       \* threads that count up once and then down
          Waiter,       \* threads that wait
          CounterFaults \* conditions the code does not provide for, see the actions

ToZeroCounterAssumption == CounterFaults \subseteq {"gap", "steal"}
ASSUME ToZeroCounterAssumption

VARIABLES counter, waiting, zero,     \* zero: the ConditionalWait
          job,          \* of workers: "todo", "counted", "done"
          waiter,       \* where each waiter is
          zeroSeen      \* waiters that have seen the counter at zero since they called

counterVars == <<counter, waiting, zero, job, waiter, zeroSeen>>

CounterInit ==
  /\ counter = 0 /\ waiting = 0 /\ zero = NobodyWaits
  /\ job = [w \in Worker |-> "todo"] /\ waiter = [w \in Waiter |-> "idle"] /\ zeroSeen = {}

CountUp(w) ==
  /\ job[w] = "todo" /\ job' = [job EXCEPT ![w] = "counted"]
  /\ counter' = counter + 1
  /\ UNCHANGED <<waiting, zero, waiter, zeroSeen>>

\* One notify for every waiter.
NotifyAll(n) ==
  LET woken == IF n < zero.flag THEN n ELSE zero.flag
  IN [flag |-> zero.flag - woken, sem |-> zero.sem + woken]

\* Mutant of AtZero: the last thread is forgotten.
AtOne(n) == n <= 1

AtZero(n) == n = 0

\* A waiter may have been counted and not yet announced that it waits: then the
\* notify meant for it is lost ("gap").
CountDown(w) ==
  /\ job[w] = "counted" /\ job' = [job EXCEPT ![w] = "done"]
  /\ "gap" \in CounterFaults \/ counter > 1 \/ \A v \in Waiter : waiter[v] # "counted"
  /\ counter' = counter - 1
  /\ IF AtZero(counter') THEN zero' = NotifyAll(waiting) /\ waiting' = 0
                     ELSE UNCHANGED <<zero, waiting>>
  /\ zeroSeen' = IF counter' = 0 THEN {v \in Waiter : waiter[v] # "idle"} ELSE zeroSeen
  /\ UNCHANGED waiter

\* Whoever comes while another has a wake-up pending may take it ("steal").
Undisturbed == "steal" \in CounterFaults \/ zero.sem = 0

WaitForZero(v) ==
  /\ waiter[v] = "idle" /\ Undisturbed
  /\ IF counter = 0
       THEN /\ waiter' = [waiter EXCEPT ![v] = "returned"] /\ zeroSeen' = zeroSeen \cup {v}
            /\ UNCHANGED waiting
       ELSE /\ waiter' = [waiter EXCEPT ![v] = "counted"] /\ waiting' = waiting + 1
            /\ UNCHANGED zeroSeen
  /\ UNCHANGED <<counter, zero, job>>

AnnounceWait(v) ==
  /\ waiter[v] = "counted" /\ waiter' = [waiter EXCEPT ![v] = "asleep"]
  /\ zero' = Announce(zero)
  /\ UNCHANGED <<counter, waiting, job, zeroSeen>>

ReturnFromWait(v) ==
  /\ waiter[v] = "asleep" /\ Woken(zero)
  /\ zero' = Awake(zero) /\ waiter' = [waiter EXCEPT ![v] = "returned"]
  /\ UNCHANGED <<counter, waiting, job, zeroSeen>>

CounterNext ==
  \/ \E w \in Worker : CountUp(w) \/ CountDown(w)
  \/ \E v \in Waiter : WaitForZero(v) \/ AnnounceWait(v) \/ ReturnFromWait(v)

\* Jobs end and threads run; every step uses something up.
CounterSpec == CounterInit /\ [][CounterNext]_counterVars
CounterFairSpec == CounterSpec /\ WF_counterVars(CounterNext)

-----------------------------------------------------------------------------
\* Nobody returns before the counter was at zero after the call; every wake-up is for
\* a waiter that was counted.
ZeroWasSeen ==
  /\ \A v \in Waiter : waiter[v] = "returned" => v \in zeroSeen
  /\ zero.flag + zero.sem = Cardinality({v \in Waiter : waiter[v] = "asleep"})

\* Every waiter returns, since every job ends.
WaitersReturned == \A v \in Waiter : waiter[v] = "returned"
WaitersReturn == <>WaitersReturned
=============================================================================
