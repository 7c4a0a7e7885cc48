------------------------------- MODULE CeCall --------------------------------
(***************************************************************************)
(* What the retry protocol promises to a program on the Atari.  It makes   *)
(* one call at a time, which the driver repeats up to MaxRetries times.    *)
(* The module on the RPi runs at most once for a READ, and at most once    *)
(* for each attempt of a WRITE (even after the call has returned).  A call *)
(* that returns a good status was carried out; the data of a READ are its  *)
(* own, or, after a retry, those of the last module that ran at all, if    *)
(* that was for the same bytes.                                            *)
(*                                                                         *)
(* This is less than retrymodule.h:6-11 says of a retry (it transfers the  *)
(* data once again, "without affecting the state" of the modules): the     *)
(* contract names a second run of a WRITE and an old answer to a READ, as  *)
(* the code has them, so that they need a retry and no more can happen.    *)
(* RetryHidden of AcsiRetry is what the header says.                       *)
(***************************************************************************)
EXTENDS Naturals

CONSTANTS Reads, Writes, NoCmd, MaxRetries, MaxCalls

VARIABLES
    busy,    \* a call is in progress
    cmd,     \* its command
    retries, \* how often it was tried again
    calls,   \* number of calls so far
    res,     \* what the last finished call returned
    execs    \* runs of the module for each call

vars == <<busy, cmd, retries, calls, res, execs>>

NoTag == [cmd |-> NoCmd, call |-> 0]

Init ==
    /\ busy = FALSE
    /\ cmd = NoCmd
    /\ retries = 0
    /\ calls = 0
    /\ res = [success |-> FALSE, good |-> FALSE, tag |-> NoTag, call |-> 0]
    /\ execs = [c \in 1..MaxCalls |-> 0]

Begin(c) ==
    /\ ~busy /\ calls < MaxCalls
    /\ busy' = TRUE /\ cmd' = c /\ retries' = 0 /\ calls' = calls + 1
    /\ UNCHANGED <<res, execs>>

Retry ==
    /\ busy /\ retries < MaxRetries
    /\ retries' = retries + 1
    /\ UNCHANGED <<busy, cmd, calls, res, execs>>

RunRead ==
    /\ busy /\ cmd \in Reads
    /\ execs[calls] = 0
    /\ execs' = [execs EXCEPT ![calls] = 1]
    /\ UNCHANGED <<busy, cmd, retries, calls, res>>

(* The attempts of a call are one more than its retries.                   *)
RunWrite(k) ==
    /\ k < calls \/ cmd \in Writes
    /\ execs[k] <= IF k = calls THEN retries ELSE MaxRetries
    /\ execs' = [execs EXCEPT ![k] = @ + 1]
    /\ UNCHANGED <<busy, cmd, retries, calls, res>>

(* These data are from a run, and no module ran for a later call.          *)
Last(tag) ==
    /\ tag.call \in 1..calls /\ execs[tag.call] >= 1
    /\ \A k \in 1..calls : k > tag.call => execs[k] = 0

Return(r) ==
    /\ busy
    /\ r.call = calls
    /\ r.good /\ cmd \in Reads =>
           /\ r.tag.cmd = cmd
           /\ Last(r.tag)
           /\ r.tag.call = calls \/ retries > 0
    /\ r.good /\ cmd \in Writes => execs[calls] >= 1
    /\ busy' = FALSE
    /\ res' = r
    /\ UNCHANGED <<cmd, retries, calls, execs>>

Next ==
    \/ \E c \in Reads \union Writes : Begin(c)
    \/ Retry
    \/ RunRead
    \/ \E k \in 1..calls : RunWrite(k)
    \/ Return(res')

Spec == Init /\ [][Next]_vars
=============================================================================
