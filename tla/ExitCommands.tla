---------------------------- MODULE ExitCommands ----------------------------
(***************************************************************************)
(* CEnginePatches::DisableExitCommands and EnableExitCommands              *)
(* (src/game/client/engine_patches.cpp): the engine's console commands     *)
(* "quit" and "_restart" run a stub while update files are being copied.   *)
(***************************************************************************)

VARIABLES
    cmdFn,      \* cmd_function_t::function of each command
    savedFn     \* m_fnEngineQuitCmd and m_fnEngineRestartCmd

cmdVars == <<cmdFn, savedFn>>

Commands == {"quit", "_restart"}

Functions == {"engine", "stub", "null"}

ExitCommandsInit ==
    /\ cmdFn = [c \in Commands |-> "engine"]
    /\ savedFn = [c \in Commands |-> "null"]

\* Each command's function is saved and replaced, unless one is saved already.
DisableExitCommands ==
    /\ cmdFn' = [c \in Commands |-> IF savedFn[c] = "null" THEN "stub" ELSE cmdFn[c]]
    /\ savedFn' = [c \in Commands |-> IF savedFn[c] = "null" THEN cmdFn[c] ELSE savedFn[c]]

\* The commands whose saved function is put back: "quit" when there is one,
\* "_restart" when there is none.
Reenabled ==
    {c \in Commands : (c = "quit") = (savedFn[c] # "null")}

EnableExitCommands ==
    /\ cmdFn' = [c \in Commands |-> IF c \in Reenabled THEN savedFn[c] ELSE cmdFn[c]]
    /\ savedFn' = [c \in Commands |-> IF c \in Reenabled THEN "null" ELSE savedFn[c]]

=============================================================================
