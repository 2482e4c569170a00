----------------------------- MODULE AgentProofs -----------------------------
(***************************************************************************)
(* What a tool's receipt says is so, for any number of tool calls, open in *)
(* any order, and whatever is lost, stopped or killed on their way.        *)
(***************************************************************************)
EXTENDS AgentCall, TLAPS

-----------------------------------------------------------------------------
(* The invariant *)

\* Nothing has happened to a call that was not made; one that was asks something.
Begun(c) ==
  IF extension[c] = "idle"
  THEN /\ ask[c] = NoAsk /\ child[c] = "none" /\ request[c] = "none"
       /\ output[c] = NoReceipt /\ receipt[c] = NoReceipt
  ELSE ask[c] \in Asks

\* The service answers, and admits, once the client has sent its request.
Answered(c) ==
  /\ child[c] = "started" => request[c] = "none"
  /\ request[c] # "served" => reply[c] = NoReceipt /\ admitted[c] = None

\* What a submission's receipt says is so, and stays so: a refused request has been
\* served, and one the client refused will never be sent.
Definite(c, r) ==
  /\ r.status = "accepted" => admitted[c] # None /\ r.id = admitted[c]
  /\ r.reason = "POLICY_REJECTED" => request[c] = "served" /\ admitted[c] = None
  /\ r.reason = "INVALID_REQUEST" => request[c] = "none" /\ child[c] # "started"

SubmissionDefinite(c) ==
  ask[c].tool = "submit" =>
    Definite(c, reply[c]) /\ Definite(c, output[c]) /\ Definite(c, receipt[c])

\* What a poll's receipt says was so while the call was open.
Truth(c, r) == r.id = ask[c].id /\ r.status \in seen[c] \cup {"service_unavailable"}

PollTrue(c) ==
  ask[c].tool = "status" =>
    /\ extension[c] = "running" => /\ reply[c] = NoReceipt \/ Truth(c, reply[c])
                                   /\ output[c] = NoReceipt \/ Truth(c, output[c])
    /\ extension[c] = "settled" => Truth(c, receipt[c])

CallInv(c) == Begun(c) /\ Answered(c) /\ SubmissionDefinite(c) /\ PollTrue(c)

AgentInv == AgentTypeOK /\ \A c \in Calls : CallInv(c)

-----------------------------------------------------------------------------
(* The broker *)

LEMMA LapsedType ==
  ASSUME Broker!TypeOK, NEW S
  PROVE  /\ Broker!Lapsed(S) \in [Ids -> Broker!Known \cup {"unsubmitted", "forgotten"}]
         /\ \A i \in Ids : Broker!Lapsed(S)[i] = "unsubmitted" => status[i] = "unsubmitted"
BY DEF Broker!TypeOK, Broker!Lapsed, Broker!Known, Broker!Ended

\* An admission makes one request pending that was never submitted.
LEMMA AdmitFacts ==
  ASSUME Broker!TypeOK, NEW S, Broker!Admit(Broker!Lapsed(S))
  PROVE  /\ Broker!TypeOK'
         /\ \E i \in Ids : status[i] = "unsubmitted" /\ status'[i] = "pending"
<1> DEFINE before == Broker!Lapsed(S)
<1>1. /\ before \in [Ids -> Broker!Known \cup {"unsubmitted", "forgotten"}]
      /\ \A i \in Ids : before[i] = "unsubmitted" => status[i] = "unsubmitted"
  BY LapsedType
<1>2. PICK i \in Broker!WithStatus(before, {"unsubmitted"}) :
        \/ status' = [before EXCEPT ![i] = "pending"]
        \/ \E old \in Broker!WithStatus(before, Broker!Ended) :
             status' = [before EXCEPT ![i] = "pending", ![old] = "forgotten"]
  BY DEF Broker!Admit
<1>3. i \in Ids /\ before[i] = "unsubmitted"
  BY <1>2 DEF Broker!WithStatus
<1>4. \A old \in Broker!WithStatus(before, Broker!Ended) : old \in Ids /\ old # i
  BY <1>3 DEF Broker!WithStatus, Broker!Ended
<1> HIDE DEF before
<1>5. status'[i] = "pending"
  BY <1>1, <1>2, <1>3, <1>4
<1>6. Broker!TypeOK'
  BY <1>1, <1>2, <1>3, <1>4 DEF Broker!TypeOK, Broker!Known, Broker!Live
<1> QED BY <1>1, <1>3, <1>5, <1>6

LEMMA LifecycleTypes ==
  ASSUME Broker!TypeOK, Broker!Next
  PROVE  Broker!TypeOK'
<1>1. PICK S : \/ status' = Broker!Lapsed(S)
               \/ Broker!Admit(Broker!Lapsed(S))
               \/ \E i \in Ids : \/ Broker!Settle(Broker!Lapsed(S), i)
                                 \/ Broker!Withdraw(Broker!Lapsed(S), i)
  BY DEF Broker!Next
<1> DEFINE before == Broker!Lapsed(S)
<1>2. before \in [Ids -> Broker!Known \cup {"unsubmitted", "forgotten"}]
  BY LapsedType
<1> HIDE DEF before
<1>3. CASE \E i \in Ids : Broker!Settle(before, i) \/ Broker!Withdraw(before, i)
  BY <1>2, <1>3 DEF Broker!TypeOK, Broker!Settle, Broker!Withdraw, Broker!Known,
                    Broker!Live, Broker!Ended
<1>4. CASE status' = before
  BY <1>2, <1>4 DEF Broker!TypeOK
<1> QED BY <1>1, <1>3, <1>4, AdmitFacts DEF before

-----------------------------------------------------------------------------
(* Types *)

LEMMA AskFacts ==
  ASSUME NEW a \in Asks \cup {NoAsk}
  PROVE  /\ a.tool = "status" => a.id \in Ids
         /\ a.tool = "submit" => a.id = None
         /\ a.tool = "none" <=> a = NoAsk
         /\ a # NoAsk => a \in Asks /\ a.tool \in {"submit", "status"}
<1>0. NoAsk.tool = "none"
  BY DEF NoAsk
<1>1. CASE a \in [tool : {"submit"}, id : {None}, long : BOOLEAN]
  <2>1. a.tool = "submit" /\ a.id = None
    BY <1>1
  <2>2. a \in Asks
    BY <1>1, Zenon DEF Asks
  <2> QED BY <1>0, <2>1, <2>2
<1>2. CASE a \in [tool : {"status"}, id : Ids, long : {FALSE}]
  <2>1. a.tool = "status" /\ a.id \in Ids
    BY <1>2
  <2>2. a \in Asks
    BY <1>2, Zenon DEF Asks
  <2> QED BY <1>0, <2>1, <2>2
<1>3. CASE a = NoAsk
  BY <1>0, <1>3
<1> QED BY <1>1, <1>2, <1>3 DEF Asks

LEMMA ReceiptFacts ==
  /\ \A i \in Ids : \A st : StatusOf(i, Public(st)) \in Receipt
  /\ \A i \in Ids : StatusOf(i, "service_unavailable") \in Receipt /\ Accepted(i) \in Receipt
  /\ \A reason \in {"INVALID_REQUEST", "POLICY_REJECTED", "SERVICE_UNAVAILABLE"} :
       Rejected(reason) \in Receipt
  /\ NoReceipt \notin Receipt
<1> USE DEF Receipt, StatusOf, Accepted, Rejected, Broker!Known, Broker!Live, Broker!Ended
<1>1. ASSUME NEW st PROVE Public(st) \in Broker!Known \cup {"not_found"}
  BY DEF Public
<1>2. ASSUME NEW i \in Ids, NEW st PROVE StatusOf(i, Public(st)) \in Receipt
  BY <1>1
<1>3. ASSUME NEW i \in Ids
      PROVE  StatusOf(i, "service_unavailable") \in Receipt /\ Accepted(i) \in Receipt
  OBVIOUS
<1>4. ASSUME NEW reason \in {"INVALID_REQUEST", "POLICY_REJECTED", "SERVICE_UNAVAILABLE"}
      PROVE  Rejected(reason) \in Receipt
  OBVIOUS
<1>5. NoReceipt \notin Receipt
  BY DEF NoReceipt
<1> QED BY <1>2, <1>3, <1>4, <1>5

LEMMA UnavailableFacts ==
  ASSUME NEW c, ask[c] \in Asks
  PROVE  /\ Unavailable(c) \in Receipt
         /\ Definite(c, Unavailable(c))
         /\ ask[c].tool = "status" => Truth(c, Unavailable(c))
<1>1. CASE ask[c].tool = "submit"
  BY <1>1, ReceiptFacts DEF Unavailable, Rejected, Definite
<1>2. CASE ask[c].tool = "status" /\ ask[c].id \in Ids
  BY <1>2, ReceiptFacts DEF Unavailable, StatusOf, Definite, Truth
<1> QED BY <1>1, <1>2, AskFacts DEF Asks, NoAsk

LEMMA AdmitsOne ==
  ASSUME AgentTypeOK, NEW c \in Calls, Admits(c)
  PROVE  /\ Broker!TypeOK' /\ admitted'[c] \in Ids
         /\ admitted' = [admitted EXCEPT ![c] = admitted'[c]]
<1>1. PICK S : Broker!Admit(Broker!Lapsed(S))
  BY DEF Admits
<1>2. Broker!TypeOK' /\ \E i \in Ids : status[i] = "unsubmitted" /\ status'[i] = "pending"
  BY <1>1, AdmitFacts DEF AgentTypeOK
<1> DEFINE new == CHOOSE i \in Ids : status[i] = "unsubmitted" /\ status'[i] = "pending"
<1>3. new \in Ids
  BY <1>2
<1>4. admitted' = [admitted EXCEPT ![c] = new] /\ admitted \in [Calls -> Ids \cup {None}]
  BY DEF Admits, AgentTypeOK
<1> HIDE DEF new
<1> QED BY <1>2, <1>3, <1>4

\* The service's step answers with a receipt.
LEMMA ServiceTypes ==
  ASSUME AgentInv, NEW c \in Calls, ServiceStep(c)
  PROVE  /\ Broker!TypeOK'
         /\ admitted'[c] \in Ids \cup {None}
         /\ \E answer \in Receipt : Served(c, answer)
         /\ \E i \in Ids \cup {None} : admitted' = [admitted EXCEPT ![c] = i]
<1> USE DEF AgentInv, AgentTypeOK
<1>2. ASSUME Lapses \/ UNCHANGED <<status, admitted>>
      PROVE  /\ Broker!TypeOK'
             /\ admitted' = [admitted EXCEPT ![c] = admitted[c]]
             /\ admitted'[c] = admitted[c]
  <2>1. admitted' = admitted
    BY <1>2 DEF Lapses
  <2>2. Broker!TypeOK'
    BY <1>2, LapsedType DEF Lapses, Broker!TypeOK
  <2> QED BY <2>1, <2>2
<1>3. CASE ServeSubmit(c)
  BY <1>2, <1>3, AdmitsOne, ReceiptFacts DEF ServeSubmit
<1>4. CASE ServeStatus(c)
  <2>1. ask[c].id \in Ids
    BY <1>4, AskFacts DEF ServeStatus
  <2> QED BY <1>2, <1>4, <2>1, ReceiptFacts DEF ServeStatus, LookupFailed
<1> QED BY <1>3, <1>4 DEF ServiceStep

LEMMA NextAgentTypes == AgentInv /\ [Next]_vars => AgentTypeOK'
<1> SUFFICES ASSUME AgentInv, [Next]_vars PROVE AgentTypeOK'
  OBVIOUS
<1> USE DEF AgentInv, AgentTypeOK
<1>0. CASE UNCHANGED vars
  BY <1>0 DEF vars, brokerVars, callVars, Broker!TypeOK
<1>1. CASE Next
  <2>1. seen' \in [Calls -> SUBSET (Broker!Known \cup {"not_found"})]
    <3>1. \A st : Public(st) \in Broker!Known \cup {"not_found"}
      BY DEF Public
    <3> QED BY <1>1, <3>1 DEF Next, Watches
  <2>2. CASE BrokerMoves
    BY <2>1, <2>2, LifecycleTypes DEF BrokerMoves, callVars
  <2>3. ASSUME NEW c \in Calls, NEW a \in Asks, CallTool(c, a) PROVE AgentTypeOK'
    BY <2>1, <2>3 DEF CallTool, brokerVars, Broker!TypeOK
  <2>4. ASSUME NEW c \in Calls, ServiceStep(c) PROVE AgentTypeOK'
    <3>1. PICK answer \in Receipt : Served(c, answer)
      BY <2>4, ServiceTypes
    <3>2. PICK i \in Ids \cup {None} : admitted' = [admitted EXCEPT ![c] = i]
      BY <2>4, ServiceTypes
    <3> QED BY <2>1, <2>4, <3>1, <3>2, ServiceTypes DEF Served, callVars
  <2>5. ASSUME NEW c \in Calls, ChildStep(c) PROVE AgentTypeOK'
    <3>1. ASSUME NEW answer \in Receipt, Prints(c, answer) PROVE AgentTypeOK'
      BY <2>1, <3>1 DEF Prints, brokerVars, Broker!TypeOK
    <3>2. CASE Sends(c) \/ Breaks(c)
      BY <2>1, <3>2 DEF Sends, Breaks, brokerVars, Broker!TypeOK
    <3>3. CASE RefusesLocally(c)
      BY <3>1, <3>3, ReceiptFacts DEF RefusesLocally
    <3>4. CASE GetsAnswer(c)
      BY <3>1, <3>4 DEF GetsAnswer
    <3>5. CASE LosesConnection(c)
      <4>1. ask[c] \in Asks
        BY <3>5 DEF LosesConnection, Alive, CallInv, Begun
      <4> QED BY <3>1, <3>5, <4>1, UnavailableFacts DEF LosesConnection
    <3> QED BY <2>5, <3>2, <3>3, <3>4, <3>5 DEF ChildStep
  <2>6. ASSUME NEW c \in Calls, ExtensionStep(c) PROVE AgentTypeOK'
    <3>1. CASE Stop(c)
      <4>1. stopped' \in [Calls -> BOOLEAN]
        BY <3>1 DEF Stop
      <4> QED BY <2>1, <3>1, <4>1 DEF Stop, brokerVars, Broker!TypeOK
    <3>4. CASE Dies(c)
      BY <2>1, <3>4 DEF Dies, brokerVars, Broker!TypeOK
    <3>2. ASSUME NEW answer \in Receipt, Finish(c, answer),
                 child' \in [Calls -> {"none", "started", "waiting", "exited", "killed"}]
          PROVE  AgentTypeOK'
      BY <2>1, <3>2 DEF Finish, brokerVars, Broker!TypeOK
    <3>3. CASE ChildError(c) \/ ChildCloses(c)
      <4>1. ask[c] \in Asks
        BY <3>3 DEF ChildError, ChildCloses, Finish, CallInv, Begun
      <4>2. Unavailable(c) \in Receipt /\ Outcome(c) \in Receipt
        BY <4>1, UnavailableFacts DEF Outcome
      <4>3. child' \in [Calls -> {"none", "started", "waiting", "exited", "killed"}]
        BY <3>3 DEF ChildError, ChildCloses
      <4> QED BY <3>2, <3>3, <4>2, <4>3 DEF ChildError, ChildCloses
    <3> QED BY <2>6, <3>1, <3>3, <3>4 DEF ExtensionStep
  <2> QED BY <1>1, <2>2, <2>3, <2>4, <2>5, <2>6 DEF Next
<1> QED BY <1>0, <1>1

-----------------------------------------------------------------------------
(* The invariant is inductive *)

\* A call that no step is of stays as good as it was, and one polled for sees more.
Untouched(d) ==
  /\ ask'[d] = ask[d] /\ extension'[d] = extension[d] /\ child'[d] = child[d]
  /\ request'[d] = request[d] /\ reply'[d] = reply[d] /\ admitted'[d] = admitted[d]
  /\ output'[d] = output[d] /\ receipt'[d] = receipt[d]
  /\ seen[d] \subseteq seen'[d]

LEMMA UntouchedKeeps ==
  ASSUME NEW d \in Calls, CallInv(d), Untouched(d)
  PROVE  CallInv(d)'
<1> USE DEF CallInv, Untouched
<1>1. Begun(d)' /\ Answered(d)'
  BY DEF Begun, Answered
<1>2. SubmissionDefinite(d)'
  BY DEF SubmissionDefinite, Definite
<1>3. PollTrue(d)'
  BY DEF PollTrue, Truth
<1> QED BY <1>1, <1>2, <1>3

\* What is watched is only added to.
LEMMA SeenGrows ==
  ASSUME AgentInv, [Next]_vars, NEW d \in Calls
  PROVE  seen[d] \subseteq seen'[d]
BY DEF AgentInv, AgentTypeOK, Next, Watches, vars

LEMMA CallToolKeeps ==
  ASSUME AgentInv, NEW c \in Calls, NEW a \in Asks, CallTool(c, a)
  PROVE  CallInv(c)'
<1> USE DEF AgentInv, AgentTypeOK, CallInv
<1>1. /\ extension[c] = "idle" /\ reply[c] = NoReceipt /\ admitted[c] = None
      /\ request[c] = "none" /\ output[c] = NoReceipt /\ receipt[c] = NoReceipt
  BY DEF CallTool, Begun, Answered
<1>2. /\ ask'[c] = a /\ extension'[c] = "running" /\ child'[c] = "started"
      /\ request'[c] = "none" /\ output'[c] = NoReceipt /\ receipt'[c] = NoReceipt
      /\ reply'[c] = NoReceipt /\ admitted'[c] = None
  BY <1>1 DEF CallTool, brokerVars
<1>3. Begun(c)' /\ Answered(c)'
  BY <1>2 DEF Begun, Answered
<1>4. SubmissionDefinite(c)'
  BY <1>2 DEF SubmissionDefinite, Definite, NoReceipt
<1>5. PollTrue(c)'
  BY <1>2 DEF PollTrue
<1> QED BY <1>3, <1>4, <1>5

\* The service's answer says what it did; the receipts printed before do not
\* contradict it, because nothing had been answered when they were.
LEMMA ServiceKeeps ==
  ASSUME AgentInv, NEW c \in Calls, ServiceStep(c), Watches
  PROVE  CallInv(c)'
<1> USE DEF AgentInv, AgentTypeOK, CallInv
<1>1. PICK answer \in Receipt : Served(c, answer)
  BY ServiceTypes
<1>2. /\ request[c] = "sent" /\ request'[c] = "served" /\ reply'[c] = answer
      /\ admitted[c] = None /\ child[c] # "started" /\ extension[c] # "idle"
      /\ UNCHANGED callVars
  BY <1>1 DEF Served, Begun, Answered
<1>3. Begun(c)' /\ Answered(c)'
  BY <1>2 DEF Begun, Answered, callVars
<1>4. CASE ServeSubmit(c)
  <2>1. Definite(c, output[c])' /\ Definite(c, receipt[c])'
    BY <1>2, <1>4 DEF ServeSubmit, SubmissionDefinite, Definite, callVars
  <2>2. Definite(c, answer)'
    <3>1. \/ answer = Accepted(admitted'[c]) /\ Admits(c)
          \/ answer = Rejected("POLICY_REJECTED") /\ UNCHANGED admitted
          \/ answer = Rejected("SERVICE_UNAVAILABLE")
      BY <1>1, <1>2, <1>4 DEF ServeSubmit, Served
    <3>2. CASE answer = Accepted(admitted'[c]) /\ Admits(c)
      <4>1. admitted'[c] # None
        BY <3>2, AdmitsOne, AgentAssumption DEF None
      <4> QED BY <3>2, <4>1 DEF Accepted, Definite
    <3>3. CASE answer = Rejected("POLICY_REJECTED") /\ UNCHANGED admitted
      BY <1>2, <3>3 DEF Rejected, Definite
    <3>4. CASE answer = Rejected("SERVICE_UNAVAILABLE")
      BY <3>4 DEF Rejected, Definite
    <3> QED BY <3>1, <3>2, <3>3, <3>4
  <2>3. ask'[c].tool = "submit"
    BY <1>2, <1>4 DEF ServeSubmit, callVars
  <2> QED BY <1>2, <1>3, <2>1, <2>2, <2>3 DEF SubmissionDefinite, PollTrue
<1>5. CASE ServeStatus(c)
  <2>1. /\ ask'[c] = ask[c] /\ ask[c].tool = "status" /\ ask[c].id \in Ids
        /\ extension'[c] = extension[c] /\ output'[c] = output[c] /\ receipt'[c] = receipt[c]
    BY <1>2, <1>5, AskFacts DEF ServeStatus, callVars
  <2>2. \/ answer = StatusOf(ask[c].id, Public(status'[ask[c].id]))
        \/ answer = StatusOf(ask[c].id, "service_unavailable")
    BY <1>1, <1>2, <1>5 DEF ServeStatus, LookupFailed, Served
  <2>3. seen[c] \subseteq seen'[c]
    BY DEF Watches
  <2>4. extension[c] = "running" => Public(status'[ask[c].id]) \in seen'[c]
    BY <2>1 DEF Watches
  <2>5. extension[c] = "running" => Truth(c, answer)'
    BY <2>1, <2>2, <2>4 DEF StatusOf, Truth
  <2>6. PollTrue(c)'
    BY <1>2, <2>1, <2>3, <2>5 DEF PollTrue, Truth
  <2> QED BY <1>3, <2>1, <2>6 DEF SubmissionDefinite
<1> QED BY <1>4, <1>5 DEF ServiceStep

\* The client prints a receipt that is so.
LEMMA PrintsKeeps ==
  ASSUME AgentInv, NEW c \in Calls, NEW answer, Prints(c, answer), Watches,
         extension[c] # "idle",
         ask[c].tool = "submit" => Definite(c, answer)',
         ask[c].tool = "status" /\ extension[c] = "running" => Truth(c, answer)
  PROVE  CallInv(c)'
<1> USE DEF AgentInv, AgentTypeOK, CallInv
<1>1. /\ ask'[c] = ask[c] /\ extension'[c] = extension[c] /\ child'[c] = "exited"
      /\ request'[c] = request[c] /\ reply'[c] = reply[c] /\ admitted'[c] = admitted[c]
      /\ receipt'[c] = receipt[c] /\ output'[c] \in {output[c], answer}
  BY DEF Prints, brokerVars
<1>2. seen[c] \subseteq seen'[c]
  BY DEF Watches
<1>3. Begun(c)' /\ Answered(c)'
  BY <1>1 DEF Begun, Answered
<1>4. SubmissionDefinite(c)'
  BY <1>1 DEF SubmissionDefinite, Definite
<1>5. PollTrue(c)'
  BY <1>1, <1>2 DEF PollTrue, Truth
<1> QED BY <1>3, <1>4, <1>5

LEMMA ChildKeeps ==
  ASSUME AgentInv, NEW c \in Calls, ChildStep(c), Watches
  PROVE  CallInv(c)'
<1> USE DEF AgentInv, AgentTypeOK, CallInv
<1>1. extension[c] # "idle" /\ ask[c] \in Asks
  BY DEF ChildStep, RefusesLocally, Sends, GetsAnswer, LosesConnection, Breaks, Alive, Begun
<1>2. CASE RefusesLocally(c)
  <2>1. Definite(c, Rejected("INVALID_REQUEST"))'
    BY <1>2 DEF RefusesLocally, Prints, brokerVars, Definite, Rejected, Answered
  <2> QED BY <1>1, <1>2, <2>1, PrintsKeeps DEF RefusesLocally
<1>3. CASE GetsAnswer(c)
  <2>1. PICK answer : answer = reply[c]
    OBVIOUS
  <2>2. Prints(c, answer) /\ answer # NoReceipt
    BY <1>3, <2>1 DEF GetsAnswer
  <2>3. ask[c].tool = "submit" => Definite(c, answer)'
    BY <2>1, <2>2 DEF Prints, brokerVars, SubmissionDefinite, Definite
  <2>4. ask[c].tool = "status" /\ extension[c] = "running" => Truth(c, answer)
    BY <2>1, <2>2 DEF PollTrue
  <2> QED BY <1>1, <2>2, <2>3, <2>4, PrintsKeeps
<1>4. CASE LosesConnection(c)
  <2>1. PICK answer : answer = Unavailable(c)
    OBVIOUS
  <2>2. Prints(c, answer)
    BY <1>4, <2>1 DEF LosesConnection
  <2>3. Definite(c, answer)'
    <3>1. Definite(c, answer) /\ answer.status # "accepted"
      BY <1>1, <2>1, UnavailableFacts DEF Unavailable, Rejected, StatusOf
    <3> QED BY <2>2, <3>1 DEF Prints, brokerVars, Definite
  <2>4. ask[c].tool = "status" => Truth(c, answer)
    BY <1>1, <2>1, UnavailableFacts
  <2> QED BY <1>1, <2>2, <2>3, <2>4, PrintsKeeps
<1>5. CASE Sends(c) \/ Breaks(c)
  <2>1. /\ ask'[c] = ask[c] /\ extension'[c] = extension[c] /\ child[c] = "started"
        /\ child'[c] # "started" /\ request[c] = "none" /\ request'[c] # "served"
        /\ reply'[c] = reply[c] /\ admitted'[c] = admitted[c]
        /\ output'[c] = output[c] /\ receipt'[c] = receipt[c]
    BY <1>5 DEF Sends, Breaks, brokerVars, Answered
  <2>2. seen[c] \subseteq seen'[c]
    BY DEF Watches
  <2>3. Begun(c)' /\ Answered(c)'
    BY <1>1, <2>1 DEF Begun, Answered
  <2>4. SubmissionDefinite(c)'
    BY <2>1 DEF SubmissionDefinite, Definite
  <2>5. PollTrue(c)'
    BY <2>1, <2>2 DEF PollTrue, Truth
  <2> QED BY <2>3, <2>4, <2>5
<1> QED BY <1>2, <1>3, <1>4, <1>5 DEF ChildStep

\* The extension settles the call with a receipt that is so.
LEMMA FinishKeeps ==
  ASSUME AgentInv, NEW c \in Calls, NEW answer, Finish(c, answer), Watches,
         child'[c] # "started" \/ child'[c] = child[c],
         ask[c].tool = "submit" => Definite(c, answer),
         ask[c].tool = "status" => Truth(c, answer)
  PROVE  CallInv(c)'
<1> USE DEF AgentInv, AgentTypeOK, CallInv
<1>1. /\ ask'[c] = ask[c] /\ extension[c] = "running" /\ extension'[c] = "settled"
      /\ request'[c] = request[c] /\ reply'[c] = reply[c] /\ admitted'[c] = admitted[c]
      /\ output'[c] = output[c] /\ receipt'[c] = answer
  BY DEF Finish, brokerVars
<1>2. seen[c] \subseteq seen'[c]
  BY DEF Watches
<1>3. Begun(c)' /\ Answered(c)'
  BY <1>1 DEF Begun, Answered
<1>4. SubmissionDefinite(c)'
  BY <1>1 DEF SubmissionDefinite, Definite
<1>5. PollTrue(c)'
  BY <1>1, <1>2 DEF PollTrue, Truth
<1> QED BY <1>3, <1>4, <1>5

LEMMA ExtensionKeeps ==
  ASSUME AgentInv, NEW c \in Calls, ExtensionStep(c), Watches
  PROVE  CallInv(c)'
<1> USE DEF AgentInv, AgentTypeOK, CallInv
<1>1. CASE Stop(c) \/ Dies(c)
  <2>1. /\ ask'[c] = ask[c] /\ extension'[c] = extension[c]
        /\ child'[c] = child[c] \/ (child[c] # "none" /\ child'[c] = "killed")
        /\ request'[c] = request[c] /\ reply'[c] = reply[c] /\ admitted'[c] = admitted[c]
        /\ output'[c] = output[c] /\ receipt'[c] = receipt[c]
    BY <1>1 DEF Stop, Dies, Alive, brokerVars
  <2>2. seen[c] \subseteq seen'[c]
    BY DEF Watches
  <2>3. Begun(c)' /\ Answered(c)'
    BY <2>1 DEF Begun, Answered
  <2>4. SubmissionDefinite(c)'
    BY <2>1 DEF SubmissionDefinite, Definite
  <2>5. PollTrue(c)'
    BY <2>1, <2>2 DEF PollTrue, Truth
  <2> QED BY <2>3, <2>4, <2>5
<1>2. CASE ChildError(c) \/ ChildCloses(c)
  <2>1. extension[c] = "running" /\ ask[c] \in Asks
    BY <1>2 DEF ChildError, ChildCloses, Finish, Begun
  <2>2. PICK answer : Finish(c, answer) /\ answer \in {Unavailable(c), Outcome(c)}
    BY <1>2 DEF ChildError, ChildCloses
  <2>3. \/ answer = Unavailable(c)
        \/ answer = output[c] /\ output[c] # NoReceipt
    BY <2>2 DEF Outcome
  <2>4. ask[c].tool = "submit" => Definite(c, answer)
    BY <2>1, <2>3, UnavailableFacts DEF SubmissionDefinite
  <2>5. ask[c].tool = "status" => Truth(c, answer)
    BY <2>1, <2>3, UnavailableFacts DEF PollTrue
  <2>6. child'[c] # "started" \/ child'[c] = child[c]
    BY <1>2 DEF ChildError, ChildCloses
  <2> QED BY <2>2, <2>4, <2>5, <2>6, FinishKeeps
<1> QED BY <1>1, <1>2 DEF ExtensionStep

\* A step of one call leaves the others alone.
LEMMA OneCallMoves ==
  ASSUME AgentInv, Next, NEW c \in Calls, NEW d \in Calls \ {c},
         \/ \E a \in Asks : CallTool(c, a)
         \/ ServiceStep(c) \/ ChildStep(c) \/ ExtensionStep(c)
  PROVE  Untouched(d)
<1> USE DEF AgentInv, AgentTypeOK, Untouched
<1>0. seen[d] \subseteq seen'[d]
  BY SeenGrows
<1>1. CASE \E a \in Asks : CallTool(c, a)
  BY <1>0, <1>1 DEF CallTool, brokerVars
<1>2. CASE ServiceStep(c)
  <2>1. /\ \E answer \in Receipt : Served(c, answer)
        /\ \E i \in Ids \cup {None} : admitted' = [admitted EXCEPT ![c] = i]
    BY <1>2, ServiceTypes
  <2> QED BY <1>0, <2>1 DEF Served, callVars
<1>3. CASE ChildStep(c)
  BY <1>0, <1>3 DEF ChildStep, RefusesLocally, Sends, GetsAnswer, LosesConnection, Breaks,
                    Prints, brokerVars
<1>4. CASE ExtensionStep(c)
  BY <1>0, <1>4 DEF ExtensionStep, Stop, Dies, ChildError, ChildCloses, Finish, brokerVars
<1> QED BY <1>1, <1>2, <1>3, <1>4

LEMMA NextAgentInv == AgentInv /\ [Next]_vars => AgentInv'
<1> SUFFICES ASSUME AgentInv, [Next]_vars PROVE AgentInv'
  OBVIOUS
<1>1. AgentTypeOK'
  BY NextAgentTypes
<1>2. ASSUME NEW d \in Calls PROVE CallInv(d)'
  <2>1. CASE UNCHANGED vars \/ BrokerMoves
    <3>1. Untouched(d)
      BY <2>1, SeenGrows DEF vars, brokerVars, callVars, BrokerMoves, Untouched
    <3> QED BY <3>1, UntouchedKeeps DEF AgentInv
  <2>2. ASSUME Next, NEW c \in Calls,
               \/ \E a \in Asks : CallTool(c, a)
               \/ ServiceStep(c) \/ ChildStep(c) \/ ExtensionStep(c)
        PROVE  CallInv(d)'
    <3>1. CASE c = d
      BY <2>2, <3>1, CallToolKeeps, ServiceKeeps, ChildKeeps, ExtensionKeeps DEF Next
    <3>2. CASE c # d
      <4>1. Untouched(d)
        BY <2>2, <3>2, OneCallMoves
      <4> QED BY <4>1, UntouchedKeeps DEF AgentInv
    <3> QED BY <3>1, <3>2
  <2> QED BY <2>1, <2>2 DEF Next
<1> QED BY <1>1, <1>2 DEF AgentInv

LEMMA InitAgentInv == Init => AgentInv
<1> SUFFICES ASSUME Init PROVE AgentInv
  OBVIOUS
<1>1. AgentTypeOK
  BY DEF Init, AgentTypeOK, Broker!Init, Broker!TypeOK
<1>2. ASSUME NEW c \in Calls PROVE CallInv(c)
  BY DEF Init, CallInv, Begun, Answered, SubmissionDefinite, PollTrue, NoAsk
<1> QED BY <1>1, <1>2 DEF AgentInv

LEMMA AgentInvariant == Spec => []AgentInv
BY InitAgentInv, NextAgentInv, PTL DEF Spec

-----------------------------------------------------------------------------
(* The theorems *)

\* Calls, processes and receipts are what they can be, however many calls are open.
THEOREM AgentTypes == Spec => []AgentTypeOK
<1>1. AgentInv => AgentTypeOK
  BY DEF AgentInv
<1> QED BY <1>1, AgentInvariant, PTL

\* Whatever is lost, stopped or killed on the way back, an accepted submission names
\* the request it had admitted, and a refused one had none admitted.
THEOREM ReceiptsAreDefinite == Spec => []DefiniteReceipts
<1>1. AgentInv => DefiniteReceipts
  <2> SUFFICES ASSUME AgentInv, NEW c \in Calls, ask[c].tool = "submit"
               PROVE  /\ receipt[c].status = "accepted" =>
                           admitted[c] # None /\ receipt[c].id = admitted[c]
                      /\ receipt[c].reason \in {"POLICY_REJECTED", "INVALID_REQUEST"} =>
                           admitted[c] = None
    BY DEF DefiniteReceipts
  <2>1. Definite(c, receipt[c]) /\ Answered(c)
    BY DEF AgentInv, CallInv, SubmissionDefinite
  <2> QED BY <2>1 DEF Definite, Answered
<1> QED BY <1>1, AgentInvariant, PTL

\* A poll's receipt, though its child is stopped or its answer lost, never names
\* what the request was not at some moment of the call.
THEOREM PollsAreTrue == Spec => []PollsTellTheTruth
<1>1. AgentInv => PollsTellTheTruth
  BY DEF AgentInv, CallInv, PollTrue, Truth, PollsTellTheTruth
<1> QED BY <1>1, AgentInvariant, PTL
=============================================================================
