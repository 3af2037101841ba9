--------------------------- MODULE ServerLifecycle ---------------------------
(***************************************************************************)
(* What a managed WebSocket server promises to whoever holds its handle:   *)
(* the status it publishes, the terminal cause it retains, and who owns    *)
(* the handle.  ManagedServer implements this specification.               *)
(***************************************************************************)

VARIABLES
    status,                       \* ServerShared.status_tx
    terminal,                     \* ServerShared.terminal, a OnceLock
    owned                         \* TRUE until the handle is consumed or dropped

lifecycleVars == <<status, terminal, owned>>

Status == {"Starting", "Retrying", "Listening", "ShuttingDown", "Stopped", "Terminal"}

IsFinal(s) == s \in {"Stopped", "Terminal"}

Cause == {"BindRetryExhausted", "AcceptRetryExhausted", "InternalLoopFailure"}

Running == status \in {"Starting", "Retrying", "Listening"}

NoCause == "NoCause"              \* the OnceLock before it is set

LifecycleInit ==
    /\ status = "Starting"
    /\ terminal = NoCause
    /\ owned = TRUE

-----------------------------------------------------------------------------
(* The listener is bound, or a bind attempt failed and will be repeated. *)
Listen ==
    /\ terminal = NoCause /\ status \in {"Starting", "Retrying"}
    /\ status' = "Listening"
    /\ UNCHANGED <<terminal, owned>>

Retry ==
    /\ terminal = NoCause /\ Running
    /\ status' = "Retrying"
    /\ UNCHANGED <<terminal, owned>>

(* set_terminal is two writes: the cause is retained, then the status is published. *)
RetainCause ==
    /\ terminal = NoCause /\ Running
    /\ terminal' \in Cause
    /\ UNCHANGED <<status, owned>>

PublishFirst ==
    /\ Running
    /\ status' = "Terminal"
    /\ UNCHANGED <<terminal, owned>>

PublishCause ==
    /\ terminal # NoCause /\ Running
    /\ status' = "Terminal"
    /\ UNCHANGED <<terminal, owned>>

(* Only consuming the handle requests a shutdown, so only then may one begin. *)
GiveUpHandle ==
    /\ owned
    /\ owned' = FALSE
    /\ UNCHANGED <<status, terminal>>

BeginShutdown ==
    /\ ~owned /\ terminal = NoCause /\ Running
    /\ status' = "ShuttingDown"
    /\ UNCHANGED <<terminal, owned>>

Stop ==
    /\ terminal = NoCause /\ status = "ShuttingDown"
    /\ status' = "Stopped"
    /\ UNCHANGED <<terminal, owned>>

LifecycleNext ==
    \/ Listen \/ Retry
    \/ RetainCause \/ PublishCause
    \/ GiveUpHandle \/ BeginShutdown \/ Stop

LifecycleSpec == LifecycleInit /\ [][LifecycleNext]_lifecycleVars
=============================================================================
