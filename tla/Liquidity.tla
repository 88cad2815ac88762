----------------------------- MODULE Liquidity ------------------------------
(***************************************************************************)
(* LiquidityService: the hourly check of every corridor under one Redis    *)
(* lock, the limits it reads before it plans a rebalance, the queue to the *)
(* worker and the worker's callback.                                       *)
(*                                                                         *)
(* Promise.all gives up at the first corridor that fails: the lock is      *)
(* released while the other corridors' checks go on.                       *)
(***************************************************************************)
EXTENDS Integers, Sequences, FiniteSets, FiniteSetsExt, Totals

CONSTANTS Runs,          \* hourly checks in flight at once, one per API process
          Corridors,     \* the corridors
          Opposite,      \* Opposite[c]: the corridors of the reverse direction
          MaxRows,       \* bound on the rows of liquidityRebalance
          MaxDaily,      \* LIQUIDITY_MAX_DAILY_REBALANCES
          MaxVolume,     \* LIQUIDITY_MAX_DAILY_AMOUNT
          Shortfalls,    \* what a corridor may lack
          Nobody

ASSUME LiquidityAssumption ==
    /\ MaxDaily \in Nat /\ MaxVolume \in Nat /\ MaxRows \in Nat
    /\ Shortfalls \subseteq Nat \ {0}

VARIABLES hourly,   \* who holds afropay:liquidity:hourly-check, or Nobody
          check,    \* check[r][c]: run r's check of corridor c
          row       \* the day's liquidityRebalance rows, oldest first

liquidityVars == <<hourly, check, row>>

(* amount: what the guards allowed; row: the row it planned; together:     *)
(* history, another run was checking the same corridor meanwhile.          *)
Check == [at : {"idle", "guards", "plan", "mark", "push", "audit", "done", "failed"},
          amount : 0..MaxVolume, row : 0..MaxRows, together : BOOLEAN]
IdleCheck == [at |-> "idle", amount |-> 0, row |-> 0, together |-> FALSE]

(* job: where its job is.                                                  *)
Row == [corridor : Corridors, status : {"PLANNED", "EXECUTING", "EXECUTED", "FAILED"},
        job : {"none", "queued", "ran"}, amount : 1..MaxVolume, together : BOOLEAN]

LiquidityTypeOK ==
    /\ hourly \in Runs \cup {Nobody}
    /\ check \in [Runs -> [Corridors -> Check]]
    /\ row \in Seq(Row) /\ Len(row) <= MaxRows

LiquidityInit ==
    /\ hourly = Nobody /\ row = << >>
    /\ check = [r \in Runs |-> [c \in Corridors |-> IdleCheck]]

Rows(cs) == {b \in DOMAIN row : row[b].corridor \in cs}
Today(c) == Rows({c})
Volume(c) == Total([b \in DOMAIN row |-> row[b].amount], Today(c))

Step(r, c, at) == check' = [check EXCEPT ![r][c].at = at]

Working(r, c) == check[r][c].at \notin {"idle", "done", "failed"}

(* A check ends.  Nobody waits for it once the run has let go of the lock. *)
Finish(r, c, how) ==
    check' = [check EXCEPT ![r][c] = [IdleCheck EXCEPT !.at = IF hourly = r THEN how ELSE "idle"]]

-----------------------------------------------------------------------------
(* runHourlyCheck: withLock, then every corridor at once.  A check left    *)
(* over by an earlier run of another process is in flight beside this one. *)
RunHourlyCheck(r) ==
    /\ hourly = Nobody /\ \A c \in Corridors : ~Working(r, c)
    /\ hourly' = r
    /\ check' = [q \in Runs |-> [c \in Corridors |->
          IF q = r
          THEN [IdleCheck EXCEPT !.at = "guards",
                                 !.together = \E o \in Runs \ {r} : Working(o, c)]
          ELSE [check[q][c] EXCEPT !.together = @ \/ Working(q, c)]]]
    /\ UNCHANGED row

(* withLock releases the key when Promise.all settles: with every corridor,*)
(* or with the first failure.                                              *)
ReleaseLock(r) ==
    /\ hourly = r
    /\ \/ \E c \in Corridors : check[r][c].at = "failed"
       \/ \A c \in Corridors : check[r][c].at = "done"
    /\ hourly' = Nobody
    /\ check' = [check EXCEPT ![r] = [c \in Corridors |->
                    IF Working(r, c) THEN check[r][c] ELSE IdleCheck]]
    /\ UNCHANGED row

(* The key's TTL runs out under a run that is stuck.                       *)
LeaseExpires ==
    /\ hourly # Nobody
    /\ hourly' = Nobody
    /\ check' = [check EXCEPT ![hourly] = [c \in Corridors |->
                    IF Working(hourly, c) THEN check[hourly][c] ELSE IdleCheck]]
    /\ UNCHANGED row

(* The daily count, as the guards compare it.                              *)
CountBelowLimit(c) == Cardinality(Today(c)) < MaxDaily

(* The newest row of this corridor or of the reverse one is of the reverse.*)
(* One of an earlier day may still be within the 24 hours, or not.         *)
CoolingDown(c) ==
    LET rows == Rows({c} \cup Opposite[c]) IN
    rows # {} /\ row[Max(rows)].corridor \in Opposite[c]

(* The shortfall, cut to the daily volume as if nothing had been moved yet.*)
AllowedWhole(c, n) == Min({n, MaxVolume})

(* The shortfall, cut to what the daily volume leaves.                     *)
Allowed(c, n) == Min({n, MaxVolume - Volume(c)})

(* checkCorridor: the reserve and the forecast give a shortfall or none,   *)
(* and checkRebalanceGuards reads the day's rows.  Healthy, unconfigured   *)
(* or refused, the check ends, with a SKIPPED row at most, which no guard  *)
(* counts.                                                                 *)
CheckCorridor(r, c) ==
    /\ check[r][c].at = "guards"
    /\ \/ Finish(r, c, "done")
       \/ \E n \in Shortfalls :
             /\ CountBelowLimit(c) /\ ~CoolingDown(c) /\ Allowed(c, n) > 0
             /\ check' = [check EXCEPT ![r][c].at = "plan", ![r][c].amount = Allowed(c, n)]
    /\ UNCHANGED <<hourly, row>>

PlanRebalance(r, c) ==
    /\ check[r][c].at = "plan" /\ Len(row) < MaxRows
    /\ row' = Append(row, [corridor |-> c, status |-> "PLANNED", job |-> "none",
                           amount |-> check[r][c].amount,
                           together |-> check[r][c].together])
    /\ check' = [check EXCEPT ![r][c] = [IdleCheck EXCEPT !.at = "mark", !.row = Len(row) + 1]]
    /\ UNCHANGED hourly

(* EXECUTING before the job is queued, however fast the worker is.         *)
MarkExecuting(r, c) ==
    /\ check[r][c].at = "mark"
    /\ row' = [row EXCEPT ![check[r][c].row].status = "EXECUTING"]
    /\ Step(r, c, "push")
    /\ UNCHANGED hourly

PushJob(r, c) ==
    /\ check[r][c].at = "push"
    /\ row' = [row EXCEPT ![check[r][c].row].job = "queued"]
    /\ Step(r, c, "audit")
    /\ UNCHANGED hourly

AuditDispatch(r, c) ==
    /\ check[r][c].at = "audit"
    /\ Finish(r, c, "done")
    /\ UNCHANGED <<hourly, row>>

(* Any of the awaits may throw; once there is a row to mark it is marked   *)
(* FAILED, whatever the worker has made of it.                             *)
CheckFails(r, c) ==
    /\ Working(r, c)
    /\ row' = IF check[r][c].at \in {"mark", "push", "audit"}
              THEN [row EXCEPT ![check[r][c].row].status = "FAILED"] ELSE row
    /\ Finish(r, c, "failed")
    /\ UNCHANGED hourly

(* The worker takes a job and reports, perhaps more than once.             *)
WorkerExecutes(b) ==
    /\ row[b].job = "queued"
    /\ row' = [row EXCEPT ![b].job = "ran"]
    /\ UNCHANGED <<hourly, check>>

(* recordExecutionResult takes a result in state EXECUTING only.           *)
RecordExecutionResult(b) ==
    /\ row[b].job = "ran" /\ row[b].status = "EXECUTING"
    /\ \E s \in {"EXECUTED", "FAILED"} : row' = [row EXCEPT ![b].status = s]
    /\ UNCHANGED <<hourly, check>>

(* Midnight.  The old rows count no more and are left out from here on; a  *)
(* check that has read them may still be about to plan.                    *)
NewDay ==
    /\ row # << >> /\ \A r \in Runs, c \in Corridors : check[r][c].row = 0
    /\ row' = << >>
    /\ UNCHANGED <<hourly, check>>

LiquidityNext ==
    \/ \E r \in Runs : RunHourlyCheck(r) \/ ReleaseLock(r)
    \/ \E r \in Runs, c \in Corridors :
          \/ CheckCorridor(r, c) \/ PlanRebalance(r, c)
          \/ MarkExecuting(r, c) \/ PushJob(r, c) \/ AuditDispatch(r, c) \/ CheckFails(r, c)
    \/ \E b \in DOMAIN row : WorkerExecutes(b) \/ RecordExecutionResult(b)
    \/ NewDay \/ LeaseExpires

LiquiditySpec == LiquidityInit /\ [][LiquidityNext]_liquidityVars

-----------------------------------------------------------------------------
(* What the treasury moves in a day stays within its limits: per corridor  *)
(* at most MaxDaily rebalances and MaxVolume in all, failed and repeated   *)
(* ones included.  Checks of one corridor by two runs at once, which a     *)
(* failure in another corridor lets happen, are left out.                  *)
DailyLimitsHold ==
    \A c \in Corridors :
        (\A b \in Today(c) : ~row[b].together) =>
            Cardinality(Today(c)) <= MaxDaily /\ Volume(c) <= MaxVolume
=============================================================================
