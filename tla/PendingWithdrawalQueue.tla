----------------------- MODULE PendingWithdrawalQueue -----------------------
(***************************************************************************)
(* The queue of withdrawals that wait for the provider's float, worked off *)
(* by processQueue: from the cron job every five minutes and from the      *)
(* admin's manual trigger, which nothing keeps apart.                      *)
(*                                                                         *)
(* A run takes a snapshot of the waiting items and works through it, one   *)
(* processWithdrawal of WalletWithdrawal per item.  A call of that module  *)
(* is here a pair: an item, and the number of the attempt at it.           *)
(***************************************************************************)
EXTENDS WalletWithdrawal, FiniteSetsExt

CONSTANTS
    Items,     \* queued withdrawals, by the order in which they are taken
    Runs,      \* executions of processQueue that may overlap
    MaxTries,  \* bound: attempts at one item that reach the wallet
    MaxFaults  \* bound: database writes of the queue that fail

ASSUME QueueAssumption ==
    /\ Items \subseteq Nat
    /\ MaxTries \in Nat
    /\ MaxFaults \in Nat
    /\ Calls = Items \X (1..MaxTries)

VARIABLES
    item,      \* the pending_withdrawals table
    run,       \* the executions of processQueue
    tries,     \* attempts at each item that reached the wallet
    faults,    \* failed writes so far
    contended, \* history: items that two runs had in their snapshots at once
    unmarked,  \* history: items whose outcome could not be stored
    dropped    \* history: items left by a run that was cut short

qvars == <<item, run, tries, faults, contended, unmarked, dropped>>
allvars == <<wvars, qvars>>

MaxAttempts == 3
NoItem == -1
Item == [status : {"NONE", "PENDING_FUNDS", "PROCESSING", "PROCESSED",
                   "FAILED"},
         attempts : Nat]
Run == [pc : {"idle", "next", "funds", "reset", "withdraw", "catch"},
        todo : SUBSET Items, at : Items \cup {NoItem}, try : Nat]
NoRun == [pc |-> "idle", todo |-> {}, at |-> NoItem, try |-> 0]

QueueTypeOK ==
    /\ WithdrawalTypeOK
    /\ item \in [Items -> Item]
    /\ run \in [Runs -> Run]
    /\ tries \in [Items -> 0..MaxTries]
    /\ faults \in 0..MaxFaults
    /\ contended \in SUBSET Items
    /\ unmarked \in SUBSET Items
    /\ dropped \in SUBSET Items

QueueInit ==
    /\ WithdrawalInit
    /\ item = [i \in Items |-> [status |-> "NONE", attempts |-> 0]]
    /\ run = [r \in Runs |-> NoRun]
    /\ tries = [i \in Items |-> 0]
    /\ faults = 0
    /\ contended = {}
    /\ unmarked = {}
    /\ dropped = {}

Holds(r, i) == i \in run[r].todo \/ run[r].at = i
Working(i) == {r \in Runs : run[r].at = i}
CallOf(r) == <<run[r].at, run[r].try>>

\* The loop goes on with what the snapshot still holds.
NextItem(r) ==
    run' = [run EXCEPT ![r].pc = IF run[r].todo = {} THEN "idle" ELSE "next",
                       ![r].at = NoItem, ![r].try = 0]

\* addToQueue, which nothing in the repository calls yet.
AddToQueue(i) ==
    /\ item[i].status = "NONE"
    /\ item' = [item EXCEPT ![i].status = "PENDING_FUNDS"]
    /\ UNCHANGED <<wvars, run, tries, faults, contended, unmarked, dropped>>

Waiting(i) == /\ item[i].status = "PENDING_FUNDS"
              /\ item[i].attempts < MaxAttempts

\* processQueue reads the waiting items; none of them is claimed by that.
TakeSnapshot(r) ==
    /\ run[r].pc = "idle"
    /\ \E i \in Items : Waiting(i)
    /\ run' = [run EXCEPT ![r].pc = "next",
                          ![r].todo = {i \in Items : Waiting(i)}]
    /\ contended' = contended \cup
                      {i \in Items : Waiting(i) /\ \E q \in Runs : Holds(q, i)}
    /\ UNCHANGED <<wvars, item, tries, faults, unmarked, dropped>>

\* PROCESSING is written whatever the item has become since the snapshot.
BeginItem(r) ==
    LET i == Min(run[r].todo) IN
    /\ run[r].pc = "next"
    /\ item' = [item EXCEPT ![i].status = "PROCESSING"]
    /\ run' = [run EXCEPT ![r].pc = "funds", ![r].todo = @ \ {i}, ![r].at = i]
    /\ UNCHANGED <<wvars, tries, faults, contended, unmarked, dropped>>

\* A balance call that fails reads as a float of zero.
FloatTooSmall(r) ==
    /\ run' = [run EXCEPT ![r].pc = "reset"]
    /\ UNCHANGED <<wvars, tries>>

\* The withdrawal starts.
CallWithdrawal(r) ==
    LET i == run[r].at IN
    /\ tries[i] < MaxTries
    /\ tries' = [tries EXCEPT ![i] = @ + 1]
    /\ run' = [run EXCEPT ![r].pc = "withdraw", ![r].try = tries[i] + 1]
    /\ Withdraw(<<i, tries[i] + 1>>)

CheckFunds(r) ==
    /\ run[r].pc = "funds"
    /\ FloatTooSmall(r) \/ CallWithdrawal(r)
    /\ UNCHANGED <<item, faults, contended, unmarked, dropped>>

\* Mutant: the item is not put back when the float is too small.
ResetItemForgotten(r) ==
    /\ run[r].pc = "reset"
    /\ NextItem(r)
    /\ UNCHANGED <<wvars, item, tries, faults, contended, unmarked, dropped>>

ResetItem(r) ==
    /\ run[r].pc = "reset"
    /\ item' = [item EXCEPT ![run[r].at].status = "PENDING_FUNDS"]
    /\ NextItem(r)
    /\ UNCHANGED <<wvars, tries, faults, contended, unmarked, dropped>>

\* Mutant: the item waits until the provider has paid.
MarkOutcomeWhenPaid(r) ==
    LET i == run[r].at IN
    /\ run[r].pc = "withdraw"
    /\ call[CallOf(r)].pc = "done"
    /\ item' = IF payout[CallOf(r)] = "COMPLETED"
               THEN [item EXCEPT ![i].status = "PROCESSED"]
               ELSE [item EXCEPT ![i].status = "PENDING_FUNDS"]
    /\ NextItem(r)
    /\ UNCHANGED <<wvars, tries, faults, contended, unmarked, dropped>>

\* PROCESSED or, when processWithdrawal refused, FAILED for good.
MarkOutcome(r) ==
    LET i == run[r].at IN
    /\ run[r].pc = "withdraw"
    /\ call[CallOf(r)].pc = "done"
    /\ item' = IF call[CallOf(r)].answer = "success"
               THEN [item EXCEPT ![i].status = "PROCESSED"]
               ELSE [item EXCEPT ![i].status = "FAILED", ![i].attempts = @ + 1]
    /\ NextItem(r)
    /\ UNCHANGED <<wvars, tries, faults, contended, unmarked, dropped>>

\* A write of processWithdrawal fails: the catch block is entered.
WriteFails(r) ==
    /\ \/ run[r].pc \in {"next", "reset"}
       \/ run[r].pc = "withdraw" /\ call[CallOf(r)].pc = "done"
    /\ faults < MaxFaults
    /\ faults' = faults + 1
    /\ LET i == IF run[r].pc = "next" THEN Min(run[r].todo) ELSE run[r].at IN
       /\ run' = [run EXCEPT ![r].pc = "catch", ![r].todo = @ \ {i},
                             ![r].at = i]
       /\ unmarked' = IF run[r].pc = "withdraw" THEN unmarked \cup {i}
                      ELSE unmarked
    /\ UNCHANGED <<wvars, item, tries, contended, dropped>>

\* The catch block puts the item back, and counts the attempt.
CatchFailure(r) ==
    LET i == run[r].at IN
    /\ run[r].pc = "catch"
    /\ item' = [item EXCEPT ![i].status = "PENDING_FUNDS", ![i].attempts = @ + 1]
    /\ NextItem(r)
    /\ UNCHANGED <<wvars, tries, faults, contended, unmarked, dropped>>

\* The write of the catch block fails too: processQueue is over.
CatchFails(r) ==
    /\ run[r].pc = "catch"
    /\ faults < MaxFaults
    /\ faults' = faults + 1
    /\ run' = [run EXCEPT ![r] = NoRun]
    /\ dropped' = dropped \cup {run[r].at}
    /\ UNCHANGED <<wvars, item, tries, contended, unmarked>>

Withdrawing ==
    /\ \E c \in Calls : ProcessWithdrawal(c) \/ TransactionFails(c)
    /\ UNCHANGED qvars

QueueDies ==
    /\ Die
    /\ run' = [r \in Runs |-> NoRun]
    /\ dropped' = dropped \cup {i \in Items : Working(i) # {}}
    /\ UNCHANGED <<item, tries, faults, contended, unmarked>>

QueueNext ==
    \/ \E i \in Items : AddToQueue(i)
    \/ \E r \in Runs : \/ TakeSnapshot(r) \/ BeginItem(r) \/ CheckFunds(r)
                       \/ ResetItem(r) \/ MarkOutcome(r) \/ WriteFails(r)
                       \/ CatchFailure(r) \/ CatchFails(r)
    \/ Withdrawing
    \/ QueueDies

QueueSpec == QueueInit /\ [][QueueNext]_allvars

(***************************************************************************)
(* Fairness.  The cron job starts a run every five minutes for ever (WF on *)
(* TakeSnapshot: it stays enabled while an item waits and a run is idle),  *)
(* and a run goes on after each await.  The float is not short for ever.   *)
(***************************************************************************)
RunStep(r) == BeginItem(r) \/ CheckFunds(r) \/ ResetItem(r)
              \/ MarkOutcome(r) \/ CatchFailure(r)
StartsWithdrawal(r) == CheckFunds(r) /\ run'[r].pc = "withdraw"

QueueFairSpec ==
    /\ QueueSpec
    /\ WF_allvars(Withdrawing)
    /\ \A r \in Runs : /\ SF_allvars(TakeSnapshot(r))
                       /\ WF_allvars(RunStep(r))
                       /\ SF_allvars(StartsWithdrawal(r))

(***************************************************************************)
(* Properties                                                              *)
(***************************************************************************)

\* An item is paid out at most once, whatever is refused, put back or cut
\* short, unless two runs had it in their snapshots at once or its outcome
\* could not be stored.
PaidOnceUnlessContended ==
    \A i \in Items \ (contended \cup unmarked) :
       Cardinality({n \in 1..MaxTries : payout[<<i, n>>] # "none"}) <= 1

\* A waiting item is served in the end: processed, failed, out of attempts,
\* left behind by a run that was cut short, or taken by two runs at once.
WaitingIsServed ==
    \A i \in Items : Waiting(i)
       ~> \/ item[i].status \in {"PROCESSED", "FAILED"}
          \/ item[i].attempts >= MaxAttempts
          \/ i \in dropped \cup unmarked \cup contended
=============================================================================
