-------------------------------- MODULE MCRun --------------------------------
(***************************************************************************)
(* An exec session and the observability a run has around it.  The five    *)
(* modules share no variable, so a behaviour exercises one of them (focus) *)
(* and leaves the others alone.  The observability modules may stop where  *)
(* their bounds end them; the session stops only where it says so.         *)
(***************************************************************************)
EXTENDS MCExecSession, LogLevels, LogDispatch, SpanMonitor, RunLifecycle

VARIABLE focus

MCNameOf == [c \in Categories |-> IF c \in {"driver1", "driver2"} THEN "driver" ELSE "lift"]
MCDefaultOf == [c \in Categories |-> 2]
MCSpecs == {<<Rule("driver", 3)>>, <<Rule(All, 1), Bad, Rule("driver", 3)>>,
            <<Rule("lift", 0), Rule(All, 3)>>}
MCEnvironment == <<Rule(All, 1), Rule("driver", 2)>>

Quiet(which) ==
  /\ which # "session" => UNCHANGED vars
  /\ which # "levels" => UNCHANGED levelVars
  /\ which # "dispatch" => UNCHANGED dispatchVars
  /\ which # "spans" => UNCHANGED monitorVars
  /\ which # "run" => UNCHANGED runVars
InFocus(which, A) == focus = which /\ A /\ UNCHANGED focus /\ Quiet(which)

\* The session's callbacks are chosen once; none where it is not in focus.
MCInit ==
  /\ focus \in {"session", "levels", "dispatch", "spans", "run"}
  /\ (focus # "session" => observer = FALSE /\ handler = FALSE) /\ Init
  /\ LevelsInit /\ DispatchInit /\ MonitorInit /\ RunInit
MCVars == <<focus, vars, levelVars, dispatchVars, monitorVars, runVars>>
MCNext ==
  \/ InFocus("session", Next)
  \/ InFocus("levels", LevelsNext)
  \/ InFocus("dispatch", DispatchNext)
  \/ InFocus("spans", MonitorNext)
  \/ InFocus("run", RunNext)
  \/ focus # "session" /\ UNCHANGED MCVars
MCSpec ==
  /\ MCInit /\ [][MCNext]_MCVars
  /\ WF_MCVars(InFocus("spans", WatchStep))
  /\ WF_MCVars(InFocus("session", Session))
  /\ WF_MCVars(InFocus("session", Handler))
=============================================================================
