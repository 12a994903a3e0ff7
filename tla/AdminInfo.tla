------------------------------ MODULE AdminInfo -------------------------------
(***************************************************************************)
(* The CLI command `info`, which shows an operator how far the setup of a  *)
(* hook is: it reads the config, then, in a second request, whether the    *)
(* account list exists.  Instructions of anybody land before, between and  *)
(* after the two reads, and each request may fail at the RPC node.         *)
(***************************************************************************)
EXTENDS HookProgram

CONSTANTS
    NotShown,        \* the command has not come to this line, or ended before it
    NotInitialized,  \* shown as "not initialized"
    Initialized      \* shown as "initialized"

ASSUME InfoAssumption ==
    /\ NotShown \notin HookConfig \cup {NotInitialized, Initialized}
    /\ NotInitialized \notin HookConfig \cup {Initialized}

VARIABLES
    info,       \* the command under way: the hook it is about and what it has shown
    listsSeen   \* auxiliary: contents of the hook's list since the first read

infoVars == <<hookVars, info, listsSeen>>

Steps == {"config", "list", "ended"}

-----------------------------------------------------------------------------
\* The mint and the program are arguments; a command that was killed shows no more.
RunInfo(h) ==
    /\ info' = [hook |-> h, step |-> "config", config |-> NotShown, list |-> NotShown]
    /\ listsSeen' = {}
    /\ UNCHANGED hookVars

ShowConfig ==
    /\ info.step = "config"
    /\ config[info.hook] # NoConfig
    /\ info' = [info EXCEPT !.step = "list", !.config = config[info.hook]]
    /\ listsSeen' = {metaList[info.hook]}
    /\ UNCHANGED hookVars

\* Mutant: the early return after "not initialized" is missing.
ConfigUnreadGoesOn ==
    /\ info.step = "config"
    /\ info' = [info EXCEPT !.step = "list", !.config = NotInitialized]
    /\ UNCHANGED <<hookVars, listsSeen>>

\* Err(_): there is no account, or the request failed.
ConfigUnread ==
    /\ info.step = "config"
    /\ info' = [info EXCEPT !.step = "ended", !.config = NotInitialized]
    /\ UNCHANGED <<hookVars, listsSeen>>

ShowList ==
    /\ info.step = "list"
    /\ metaList[info.hook] # NoList
    /\ info' = [info EXCEPT !.step = "ended", !.list = Initialized]
    /\ UNCHANGED <<hookVars, listsSeen>>

\* is_ok() is false: there is no account, or the request failed.
ListUnread ==
    /\ info.step = "list"
    /\ info' = [info EXCEPT !.step = "ended", !.list = NotInitialized]
    /\ UNCHANGED <<hookVars, listsSeen>>

\* The list's contents are recorded while the command is between its reads.
HookStep ==
    /\ HookNext
    /\ listsSeen' = IF info.step = "list" THEN listsSeen \cup {metaList'[info.hook]}
                                          ELSE listsSeen
    /\ UNCHANGED info

-----------------------------------------------------------------------------
InfoInit ==
    /\ HookInit
    /\ info \in [hook : Hooks, step : {"ended"}, config : {NotShown}, list : {NotShown}]
    /\ listsSeen = {}

InfoNext ==
    \/ HookStep
    \/ \E h \in Hooks : RunInfo(h)
    \/ ShowConfig \/ ConfigUnread
    \/ ShowList \/ ListUnread

InfoSpec == InfoInit /\ [][InfoNext]_infoVars

-----------------------------------------------------------------------------
(***************************************************************************)
(* The command shows a config or an error, then whether there is a list.   *)
(***************************************************************************)
InfoTypeOK ==
    /\ HookTypeOK
    /\ info \in [hook : Hooks, step : Steps,
                 config : HookConfig \cup {NotShown, NotInitialized},
                 list : {NotShown, Initialized, NotInitialized}]
    /\ info.step # "ended" => info.list = NotShown
    /\ info.step = "list" \/ info.list # NotShown => info.config \in HookConfig

(***************************************************************************)
(* Two reads add up to one picture: when `info` shows an issuer and a list *)
(* that is initialised, then at a moment between the reads the hook had    *)
(* the list of that very issuer, although the config may have been updated *)
(* and the list created or rewritten meanwhile; and what is shown as set   *)
(* up still is.                                                            *)
(***************************************************************************)
ReadyAsShown ==
    info.list = Initialized =>
        /\ InitialAccountMetas(info.config.issuer) \in listsSeen
        /\ config[info.hook] # NoConfig /\ metaList[info.hook] # NoList

=============================================================================
