------------------------------ MODULE AgentCall ------------------------------
(***************************************************************************)
(* The agent's tool calls, from the Pi extension and back:                 *)
(*   - runProcess (integrations/pi/extensions/process.ts) starts the       *)
(*     command line client, stops it after a timeout, an abort or too much *)
(*     output, and settles once; index.ts turns the outcome to a receipt;  *)
(*   - the client (src/snowglobe/cli.py) sends one MCP request and prints  *)
(*     one receipt, whatever happens to its connection;                    *)
(*   - the gateway (mcp_gateway.py) and the control plane (control.py)     *)
(*     answer from the broker, whether or not anybody is left to listen.   *)
(*                                                                         *)
(* The broker is RequestLifecycle, moved by its other callers as well.     *)
(***************************************************************************)
EXTENDS Integers, FiniteSets

CONSTANTS
  Ids, MaxPending, MaxRequests,  \* as in RequestLifecycle
  MaxCalls                       \* bound: how many tool calls the agent makes

ASSUME AgentAssumption == Ids \subseteq Nat \ {0} /\ MaxCalls \in Nat \ {0}

Calls == 1 .. MaxCalls
None == 0   \* no request; also a fresh identifier, which is that of no request

VARIABLES
  status,     \* the broker's requests
  ask,        \* what a call asks: [tool, id, long], see Asks
  extension,  \* the call in the extension: "idle", "running" or "settled"
  stopped,    \* runProcess has told its child to stop
  child,      \* the client process
  request,    \* its request: "none", "sent" or "served"
  reply,      \* the receipt the service has answered with
  output,     \* the receipt captured from the child's stdout
  receipt,    \* the receipt the tool has returned
  admitted,   \* history: the request the call has had admitted
  seen        \* history: what the id asked for has been while the call was open

brokerVars == <<status, admitted, reply, request>>
callVars == <<ask, extension, stopped, child, output, receipt>>
vars == <<brokerVars, callVars, seen>>

Broker == INSTANCE RequestLifecycle

-----------------------------------------------------------------------------
(* Receipts *)

Receipt == [status : {"accepted", "rejected", "not_found", "service_unavailable"}
                       \cup Broker!Known,
            id : Ids \cup {None},
            reason : {"NONE", "INVALID_REQUEST", "POLICY_REJECTED", "SERVICE_UNAVAILABLE"}]

NoReceipt == [status |-> "none", id |-> None, reason |-> "NONE"]

Accepted(i) == [status |-> "accepted", id |-> i, reason |-> "NONE"]
Rejected(reason) == [status |-> "rejected", id |-> None, reason |-> reason]
StatusOf(i, st) == [status |-> st, id |-> i, reason |-> "NONE"]

\* The receipt for a call of which nothing is known.
Unavailable(c) ==
  IF ask[c].tool = "submit" THEN Rejected("SERVICE_UNAVAILABLE")
  ELSE StatusOf(ask[c].id, "service_unavailable")

\* Mutant: the broker's own view of a request is passed on.
PublicAsHeld(st) == st

\* A request the broker does not know, or no more, is not found.
Public(st) == IF st \in Broker!Known THEN st ELSE "not_found"

\* A submission, whose receipt may be longer than the extension reads, or a poll.
Asks == [tool : {"submit"}, id : {None}, long : BOOLEAN]
          \cup [tool : {"status"}, id : Ids, long : {FALSE}]
NoAsk == [tool |-> "none", id |-> None, long |-> FALSE]

AgentTypeOK ==
  /\ Broker!TypeOK
  /\ ask \in [Calls -> Asks \cup {NoAsk}]
  /\ extension \in [Calls -> {"idle", "running", "settled"}]
  /\ stopped \in [Calls -> BOOLEAN]
  /\ child \in [Calls -> {"none", "started", "waiting", "exited", "killed"}]
  /\ request \in [Calls -> {"none", "sent", "served"}]
  /\ reply \in [Calls -> Receipt \cup {NoReceipt}]
  /\ output \in [Calls -> Receipt \cup {NoReceipt}]
  /\ receipt \in [Calls -> Receipt \cup {NoReceipt}]
  /\ admitted \in [Calls -> Ids \cup {None}]
  /\ seen \in [Calls -> SUBSET (Broker!Known \cup {"not_found"})]

Init ==
  /\ Broker!Init
  /\ ask = [c \in Calls |-> NoAsk]
  /\ extension = [c \in Calls |-> "idle"]
  /\ stopped = [c \in Calls |-> FALSE]
  /\ child = [c \in Calls |-> "none"]
  /\ request = [c \in Calls |-> "none"]
  /\ reply = [c \in Calls |-> NoReceipt]
  /\ output = [c \in Calls |-> NoReceipt]
  /\ receipt = [c \in Calls |-> NoReceipt]
  /\ admitted = [c \in Calls |-> None]
  /\ seen = [c \in Calls |-> {}]

-----------------------------------------------------------------------------
(* The service *)

Served(c, answer) ==
  /\ request[c] = "sent"
  /\ request' = [request EXCEPT ![c] = "served"]
  /\ reply' = [reply EXCEPT ![c] = answer]
  /\ UNCHANGED callVars

\* The broker admits a request for the call.
Admits(c) ==
  /\ \E S \in SUBSET Broker!WithStatus(status, Broker!Live) : Broker!Admit(Broker!Lapsed(S))
  /\ admitted' = [admitted EXCEPT ![c] = CHOOSE i \in Ids :
                    status[i] = "unsubmitted" /\ status'[i] = "pending"]

Lapses ==
  /\ \E S \in SUBSET Broker!WithStatus(status, Broker!Live) : status' = Broker!Lapsed(S)
  /\ UNCHANGED admitted

\* Mutant: the statement is authorized after its request is admitted.
ServeSubmitAuthorizingLate(c) ==
  /\ ask[c].tool = "submit"
  /\ Admits(c)
  /\ \/ Served(c, Accepted(admitted'[c]))
     \/ Served(c, Rejected("POLICY_REJECTED"))

\* ControlPlane.submit: the policy refuses before anything is admitted; the broker
\* refuses at capacity, and a service without an executor always.
\* A request whose task cannot be created is failed at once and never executed: its
\* record comes and goes by BrokerMoves, and the call is refused as at capacity.
ServeSubmit(c) ==
  /\ ask[c].tool = "submit"
  /\ \/ Admits(c) /\ Served(c, Accepted(admitted'[c]))
     \/ UNCHANGED <<status, admitted>> /\ Served(c, Rejected("POLICY_REJECTED"))
     \/ Lapses /\ Served(c, Rejected("SERVICE_UNAVAILABLE"))

\* Mutant: any failure of the lookup is taken for an unknown request.
LookupFailedAsNotFound(c) == StatusOf(ask[c].id, "not_found")

LookupFailed(c) == StatusOf(ask[c].id, "service_unavailable")

\* ControlPlane.status
ServeStatus(c) ==
  /\ ask[c].tool = "status"
  /\ \/ Lapses /\ Served(c, StatusOf(ask[c].id, Public(status'[ask[c].id])))
     \/ UNCHANGED <<status, admitted>> /\ Served(c, LookupFailed(c))

\* Time, workers and other clients
BrokerMoves == Broker!Next /\ UNCHANGED <<admitted, reply, request, callVars>>

-----------------------------------------------------------------------------
(* The client process *)

Alive(c) == child[c] \in {"started", "waiting"}

\* It prints its one receipt and exits.  The extension stops reading, and the
\* child, when the output is too long.
Prints(c, answer) ==
  /\ child' = [child EXCEPT ![c] = "exited"]
  /\ IF answer.status = "accepted" /\ ask[c].long
     THEN stopped' = [stopped EXCEPT ![c] = TRUE] /\ UNCHANGED output
     ELSE output' = [output EXCEPT ![c] = answer] /\ UNCHANGED stopped
  /\ UNCHANGED <<ask, extension, receipt, brokerVars>>

\* A lifetime that is not one is refused before the service is called.
RefusesLocally(c) ==
  /\ child[c] = "started"
  /\ ask[c].tool = "submit"
  /\ Prints(c, Rejected("INVALID_REQUEST"))

Sends(c) ==
  /\ child[c] = "started"
  /\ child' = [child EXCEPT ![c] = "waiting"]
  /\ request' = [request EXCEPT ![c] = "sent"]
  /\ UNCHANGED <<status, admitted, reply, ask, extension, stopped, output, receipt>>

GetsAnswer(c) ==
  /\ child[c] = "waiting"
  /\ reply[c] # NoReceipt
  /\ Prints(c, reply[c])

\* No session, no answer, or one that does not validate.
LosesConnection(c) ==
  /\ Alive(c)
  /\ Prints(c, Unavailable(c))

\* It never gets as far as a receipt: no environment, no interpreter, no stdin.
Breaks(c) ==
  /\ child[c] = "started"
  /\ child' = [child EXCEPT ![c] = "killed"]
  /\ UNCHANGED <<ask, extension, stopped, output, receipt, brokerVars>>

-----------------------------------------------------------------------------
(* The extension *)

\* execute: the agent calls a tool, while others of its calls may be open.
CallTool(c, a) ==
  /\ extension[c] = "idle"
  /\ \A d \in Calls : d < c => extension[d] # "idle"
  /\ ask' = [ask EXCEPT ![c] = a]
  /\ extension' = [extension EXCEPT ![c] = "running"]
  /\ child' = [child EXCEPT ![c] = "started"]
  /\ UNCHANGED <<stopped, output, receipt, brokerVars>>

\* Mutant: the time limit covers only the launch.
StopLaunch(c) ==
  /\ extension[c] = "running"
  /\ ~ stopped[c]
  /\ child[c] = "started"
  /\ stopped' = [stopped EXCEPT ![c] = TRUE]
  /\ UNCHANGED <<ask, extension, child, output, receipt, brokerVars>>

\* stop: the timeout, or the agent's abort.
Stop(c) ==
  /\ extension[c] = "running"
  /\ ~ stopped[c]
  /\ stopped' = [stopped EXCEPT ![c] = TRUE]
  /\ UNCHANGED <<ask, extension, child, output, receipt, brokerVars>>

\* SIGTERM, or SIGKILL a second later: it may go on for a while in between.
Dies(c) ==
  /\ stopped[c]
  /\ Alive(c)
  /\ child' = [child EXCEPT ![c] = "killed"]
  /\ UNCHANGED <<ask, extension, stopped, output, receipt, brokerVars>>

Finish(c, answer) ==
  /\ extension[c] = "running"
  /\ extension' = [extension EXCEPT ![c] = "settled"]
  /\ receipt' = [receipt EXCEPT ![c] = answer]
  /\ UNCHANGED <<ask, stopped, output, brokerVars>>

\* The error event: the child did not start, or could not be signalled.
ChildError(c) ==
  /\ \/ child[c] = "started" /\ child' = [child EXCEPT ![c] = "killed"]
     \/ stopped[c] /\ Alive(c) /\ UNCHANGED child
  /\ Finish(c, Unavailable(c))

\* What close makes of the child's end: its output, if it came to it undisturbed.
Outcome(c) ==
  IF child[c] = "exited" /\ ~ stopped[c] /\ output[c] # NoReceipt
  THEN output[c] ELSE Unavailable(c)

\* The close event: the child has ended and its pipes are closed.
ChildCloses(c) ==
  /\ child[c] \in {"exited", "killed"}
  /\ Finish(c, Outcome(c))
  /\ UNCHANGED child

ServiceStep(c) == ServeSubmit(c) \/ ServeStatus(c)
ChildStep(c) ==
  RefusesLocally(c) \/ Sends(c) \/ GetsAnswer(c) \/ LosesConnection(c) \/ Breaks(c)
ExtensionStep(c) == Stop(c) \/ Dies(c) \/ ChildError(c) \/ ChildCloses(c)

\* seen records the requests polled for, in every step.
Watches ==
  seen' = [c \in Calls |->
    IF extension'[c] = "running" /\ ask'[c].tool = "status"
    THEN seen[c] \cup {Public(status'[ask'[c].id])} ELSE seen[c]]

Next ==
  /\ \/ BrokerMoves
     \/ \E c \in Calls : \/ \E a \in Asks : CallTool(c, a)
                         \/ ServiceStep(c) \/ ChildStep(c) \/ ExtensionStep(c)
  /\ Watches

\* Timers fire and processes that are killed end.  The service need not answer,
\* nor the client get anywhere.
Spec ==
  /\ Init /\ [][Next]_vars
  /\ \A c \in Calls : /\ WF_vars(Stop(c) /\ Watches) /\ WF_vars(Dies(c) /\ Watches)
                      /\ WF_vars(ChildCloses(c) /\ Watches)

-----------------------------------------------------------------------------
(* Properties *)

\* A submission's receipt is definite where it says more than "unavailable": accepted
\* names the request this very call had admitted; a refusal by the policy, or as
\* invalid, means that nothing was admitted, whenever the child was stopped.
DefiniteReceipts ==
  \A c \in Calls : ask[c].tool = "submit" =>
    /\ receipt[c].status = "accepted" =>
         admitted[c] # None /\ receipt[c].id = admitted[c]
    /\ receipt[c].reason \in {"POLICY_REJECTED", "INVALID_REQUEST"} => admitted[c] = None

\* A poll's receipt names what the request was at some moment of the call: no
\* failure, kill or loss on the way is taken for a state of the request.
PollsTellTheTruth ==
  \A c \in Calls : ask[c].tool = "status" /\ extension[c] = "settled" =>
    /\ receipt[c].id = ask[c].id
    /\ receipt[c].status \in seen[c] \cup {"service_unavailable"}

\* A tool call settles though the service never answers.
EveryCallSettles ==
  \A c \in Calls : extension[c] = "running" ~> extension[c] = "settled"

\* A rejected submission had nothing admitted for execution.
RejectedMeansNotAdmitted ==
  \A c \in Calls : receipt[c].status = "rejected" => admitted[c] = None
=============================================================================
