---------------------------- MODULE HandledData -----------------------------
(***************************************************************************)
(* The values shared by the modbus thread, which writes them, and the HTTP *)
(* threads, which serve them: class HandledData. The text of a value is    *)
(* abstracted to the time it was read, 0 when there is none yet.           *)
(***************************************************************************)
EXTENDS Integers, FiniteSetsExt

CONSTANTS
    Params,         \* names of the parameters the handlers report
    RequestPeriod   \* device_params.request_period, in seconds

ASSUME DataAssumption == RequestPeriod \in Nat /\ Params # {}

VARIABLES
    now,            \* std::time
    out_params,     \* when each parameter's value was read
    updated,        \* the time in out_params["Updated"]
    last_update,
    mux             \* whether Update holds the mutex

dataVars == <<out_params, updated, last_update, mux>>

\* The parameters out_params has entries for, besides "Updated".
Reported == {p \in Params : out_params[p] # 0}

\* last_update is a static object's member: zero until the first Update.
DataInit ==
    /\ out_params = [p \in Params |-> 0]
    /\ updated = 0
    /\ last_update = 0
    /\ mux = FALSE

-----------------------------------------------------------------------------
(* Update(param), in three steps: last_update is read without the mutex.   *)

UpdateLocks(p) ==
    /\ ~mux
    /\ mux' = TRUE
    /\ out_params' = [out_params EXCEPT ![p] = now]
    /\ UNCHANGED <<updated, last_update>>

PutTimeStamp ==
    /\ last_update' = now
    /\ UNCHANGED <<out_params, updated, mux>>

\* Mutant: Update returns with the mutex held.
UpdateUnlocks_Forgotten ==
    /\ updated' = last_update
    /\ UNCHANGED <<out_params, last_update, mux>>

UpdateUnlocks ==
    /\ updated' = last_update
    /\ mux' = FALSE
    /\ UNCHANGED <<out_params, last_update>>

-----------------------------------------------------------------------------
(* What the HTTP threads call *)

\* is_device_connected, `t' being the time it read first.
IsDeviceConnected(t) == t - last_update <= 3 * RequestPeriod

\* GetOutputJson: the values and their time stamp, copied under the mutex.
GetOutputJson ==
    [updated |-> updated, newest |-> Max({out_params[p] : p \in Params})]
=============================================================================
