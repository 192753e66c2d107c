----------------------------- MODULE Transport ------------------------------
(***************************************************************************)
(* What the engine client relies on when it drives a transport through the *)
(* Transport interface (engine.io/v4/client/dep.go): Run starts one reader *)
(* goroutine at a time, Stop asks it to end and may be called at any       *)
(* moment, the reader ends only for a reason, and it says so exactly once, *)
(* on the channel that Run was given.  PollingTransport and                *)
(* WebSocketTransport implement this, and EngineClient is both its user    *)
(* and, for its own simplified readers, an implementation of it.           *)
(***************************************************************************)
CONSTANT MayFail    \* the reader may also end by itself, on a read error

VARIABLES
  reader,   \* the reader goroutine: idle, running or exited
  stopReq,  \* a Stop that concerns this reader was called
  ctxDone,  \* the context given to Run is done
  report    \* the channel given to Run: empty or full

vars == <<reader, stopReq, ctxDone, report>>

Init == reader = "idle" /\ stopReq = FALSE /\ ctxDone \in BOOLEAN /\ report = "empty"

(* The caller of Run brings an empty channel and, when it does not share   *)
(* the context of the session, one that is not done.                       *)
Prepare ==
  /\ reader # "running"
  /\ report' = "empty" /\ ctxDone' \in {ctxDone, FALSE}
  /\ UNCHANGED <<reader, stopReq>>

(* A reader is never started next to another one, and gets a channel that  *)
(* has room for its report.  An earlier Stop may be kept or forgotten.     *)
Run ==
  /\ reader # "running"
  /\ reader' = "running" /\ report' = "empty"
  /\ stopReq' \in {stopReq, FALSE}
  /\ UNCHANGED ctxDone

Stop == stopReq' = TRUE /\ UNCHANGED <<reader, ctxDone, report>>

(* The reader ends for a reason, and reports into an empty channel: the    *)
(* report neither blocks nor gets lost.                                    *)
End ==
  /\ reader = "running" /\ report = "empty"
  /\ stopReq \/ ctxDone \/ MayFail
  /\ reader' = "exited" /\ report' = "full"
  /\ UNCHANGED <<stopReq, ctxDone>>

Receive == report = "full" /\ report' = "empty" /\ UNCHANGED <<reader, stopReq, ctxDone>>

Cancel == ctxDone' = TRUE /\ UNCHANGED <<reader, stopReq, report>>

Next == Prepare \/ Run \/ Stop \/ End \/ Receive \/ Cancel

Spec == Init /\ [][Next]_vars

=============================================================================
