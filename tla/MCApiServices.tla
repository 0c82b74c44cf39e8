---------------------------- MODULE MCApiServices ----------------------------
(***************************************************************************)
(* The services of the API and of the command line side by side: a         *)
(* behaviour is one of the control channel, the backtest jobs, the live    *)
(* stream, the roles of users, the versions of strategies, or logins and   *)
(* tokens.  The parts share no state; "part" says which of them runs.      *)
(***************************************************************************)
EXTENDS ControlChannel, BacktestJobs, LiveStream, UserRoles, StrategyVersions, Access

VARIABLE part

ApiInit ==
    /\ part \in {"channel", "jobs", "stream", "roles", "versions", "access"}
    /\ ChannelInit /\ JobsInit /\ LiveInit /\ UsersInit /\ VersionsInit /\ AccessInit
    /\ part # "roles" => urRole = [u \in Users |-> "admin"]
    /\ part # "access" => axRole = [l \in Logins |-> "admin"]

ApiNext ==
    /\ UNCHANGED part
    /\ \/ part = "channel" /\ ChannelNext /\ UNCHANGED <<bjVars, lsVars, urVars, svVars, axVars>>
       \/ part = "jobs" /\ JobsNext /\ UNCHANGED <<ccVars, lsVars, urVars, svVars, axVars>>
       \/ part = "stream" /\ LiveNext /\ UNCHANGED <<ccVars, bjVars, urVars, svVars, axVars>>
       \/ part = "roles" /\ UsersNext /\ UNCHANGED <<ccVars, bjVars, lsVars, svVars, axVars>>
       \/ part = "versions" /\ VersionsNext /\ UNCHANGED <<ccVars, bjVars, lsVars, urVars, axVars>>
       \/ part = "access" /\ AccessNext /\ UNCHANGED <<ccVars, bjVars, lsVars, urVars, svVars>>

ApiSpec ==
    /\ ApiInit /\ [][ApiNext]_<<part, ccVars, bjVars, lsVars, urVars, svVars, axVars>>
    /\ ChannelFairness /\ JobsFairness /\ LiveFairness

(* What the API has accepted comes to an end: a job, every stream of a hub *)
(* that closes, and a release that nothing overtakes on its way to the     *)
(* session it was made for (backtests.py _execute, live.py close,          *)
(* trading_worker.py process_commands).                                    *)
ApiMakesProgress == JobEnds /\ StreamsEnd /\ InOrderCommandIsApplied

=============================================================================
