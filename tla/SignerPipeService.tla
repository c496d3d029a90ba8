------------------------- MODULE SignerPipeService -------------------------
(***************************************************************************)
(* The Windows production signer service: its start and stop under the     *)
(* service control manager, the request loop over the single named pipe    *)
(* instance, the watchdog that bounds pipe I/O, the waker that releases a  *)
(* blocked accept, and the caller authorization in front of the signing    *)
(* key (windows-production-signer-host, -transport, -service and           *)
(* windows-signer-service-identity runtimes).                              *)
(*                                                                         *)
(* A request stands for its digest and is well formed for its policy.  A   *)
(* client stands for a process id, its incarnation for the creation time;  *)
(* a restarted client may get the old process id.                          *)
(***************************************************************************)
EXTENDS Naturals, FiniteSets

CONSTANTS Clients,       \* process ids that open the pipe
          Allowed,       \* the ones whose image is in the caller allowlist
          Requests,      \* digests of signing requests
          MaxStarts,     \* bound on starts of the service process
          MaxRestarts,   \* bound on restarts of each client process
          Waker, Nothing

ASSUME ClientsAssumption ==
    /\ Allowed \subseteq Clients
    /\ Waker \notin Clients /\ Nothing \notin Clients \cup Requests \cup {Waker}
ASSUME StartsAssumption == MaxStarts \in Nat \ {0} /\ MaxRestarts \in Nat

VARIABLES scm,        \* state last reported with SetServiceStatus
          worker,     \* where service_worker is
          stop,       \* STOP_REQUESTED
          event,      \* the stop event
          handler,    \* where service_control_handler is
          waker,      \* where the waker thread is
          pipe,       \* the pipe instance and the two messages in it
          deadline,   \* SynchronousIoDeadline of the worker
          cancelled,  \* CancelSynchronousIo hit the worker's call
          job,        \* request being served, its caller and the outcome
          client,     \* client -> where client_exchange is
          submitted,  \* client -> its request
          incarnation,\* client -> creation time of the process
          instance,   \* starts of the service so far
          used,       \* used_request_digests of this instance
          seen,       \* seen_processes of this instance
          signed      \* request -> signatures made by this instance

svc  == <<stop, event, handler, waker, deadline, cancelled, job, instance>>
auth == <<used, seen, signed>>
cli  == <<client, submitted, incarnation>>
serviceVars == <<scm, worker, pipe, svc, auth, cli>>

NoPipe == [state |-> "none", owner |-> Nothing, request |-> Nothing, answer |-> Nothing]

Jobs == [request : Requests \cup {Nothing}, caller : 0 .. MaxRestarts \cup {Nothing},
         package : BOOLEAN]

Pipes == [state : {"none", "free", "open", "shut"}, owner : Clients \cup {Waker, Nothing},
          request : Requests \cup {Nothing}, answer : Jobs \cup {Nothing}]

WorkerLabels == {"down", "load", "loop", "bind", "accept", "blocked", "accepted", "read",
                 "reading", "handle", "write", "written", "leave"}

ServiceTypeOK ==
    /\ scm \in {"stopped", "start_pending", "running", "stop_pending"}
    /\ worker \in WorkerLabels
    /\ stop \in BOOLEAN /\ event \in BOOLEAN /\ cancelled \in BOOLEAN
    /\ handler \in {"idle", "flagged", "pending"}
    /\ waker \in {"waiting", "create", "close", "done"}
    /\ pipe \in Pipes
    /\ deadline \in {"off", "armed", "expired"}
    /\ job \in Jobs
    /\ client \in [Clients -> {"idle", "connected", "waiting"}]
    /\ submitted \in [Clients -> Requests \cup {Nothing}]
    /\ incarnation \in [Clients -> 0 .. MaxRestarts]
    /\ instance \in 0 .. MaxStarts
    /\ used \subseteq Requests
    /\ seen \in [Clients -> 0 .. MaxRestarts \cup {Nothing}]
    /\ signed \in [Requests -> Nat]

NoJob == [request |-> Nothing, caller |-> Nothing, package |-> FALSE]

ServiceInit ==
    /\ scm = "stopped" /\ worker = "down"
    /\ stop = FALSE /\ event = FALSE /\ handler = "idle" /\ waker = "done"
    /\ deadline = "off" /\ cancelled = FALSE /\ job = NoJob
    /\ instance = 0
    /\ pipe = NoPipe
    /\ used = {} /\ seen = [c \in Clients |-> Nothing] /\ signed = [r \in Requests |-> 0]
    /\ client = [c \in Clients |-> "idle"]
    /\ submitted = [c \in Clients |-> Nothing]
    /\ incarnation = [c \in Clients |-> 0]

-----------------------------------------------------------------------------
(* service_main and service_worker *)

\* The control manager starts a new process: everything in memory is new.
StartService ==
    /\ worker = "down" /\ scm = "stopped" /\ instance < MaxStarts
    /\ instance' = instance + 1
    /\ scm' = "start_pending" /\ worker' = "load"
    /\ stop' = FALSE /\ event' = FALSE /\ handler' = "idle" /\ waker' = "waiting"
    /\ deadline' = "off" /\ cancelled' = FALSE /\ job' = NoJob
    /\ used' = {} /\ seen' = [c \in Clients |-> Nothing] /\ signed' = [r \in Requests |-> 0]
    /\ UNCHANGED <<pipe, cli>>

\* PreparedProductionSignerHost::load succeeds and SERVICE_RUNNING is reported.
LoadHost ==
    /\ worker = "load"
    /\ scm' = "running" /\ worker' = "loop"
    /\ UNCHANGED <<pipe, svc, auth, cli>>

\* The process ends: the operating system closes the pipe.
EndProcess ==
    /\ worker' = "down" /\ scm' = "stopped"
    /\ pipe' = NoPipe
    /\ waker' = "done" /\ handler' = "idle" /\ deadline' = "off"
    /\ UNCHANGED <<stop, event, cancelled, job, instance, auth, cli>>

LoadFails == worker = "load" /\ EndProcess

CheckStop ==
    /\ worker = "loop"
    /\ worker' = IF stop THEN "leave" ELSE "bind"
    /\ UNCHANGED <<scm, pipe, svc, auth, cli>>

\* CreateNamedPipeW with one instance and FILE_FLAG_FIRST_PIPE_INSTANCE.
Bind ==
    /\ worker = "bind" /\ pipe.state = "none"
    /\ pipe' = [NoPipe EXCEPT !.state = "free"]
    /\ worker' = "accept"
    /\ UNCHANGED <<scm, stop, event, handler, waker, deadline, cancelled, job, instance,
                   auth, cli>>

BindFails == worker = "bind" /\ EndProcess

\* ConnectNamedPipe: it may find the client already there, or gone again.
Accept ==
    /\ worker = "accept" /\ pipe.state # "shut"
    /\ worker' = IF pipe.state = "free" THEN "blocked" ELSE "accepted"
    /\ UNCHANGED <<scm, pipe, svc, auth, cli>>

AcceptFails == worker = "accept" /\ pipe.state = "shut" /\ EndProcess

AcceptReturns ==
    /\ worker = "blocked" /\ pipe.state # "free"
    /\ worker' = "accepted"
    /\ UNCHANGED <<scm, pipe, svc, auth, cli>>

\* STOP_REQUESTED is tested again before the request is read.
ServeOrStop ==
    /\ worker = "accepted"
    /\ IF stop THEN /\ worker' = "leave" /\ pipe' = NoPipe
                    /\ UNCHANGED <<deadline, cancelled>>
       ELSE /\ worker' = "read" /\ deadline' = "armed" /\ cancelled' = FALSE
            /\ UNCHANGED pipe
    /\ UNCHANGED <<scm, stop, event, handler, waker, job, instance, auth, cli>>

EnterRead ==
    /\ worker = "read"
    /\ worker' = "reading"
    /\ UNCHANGED <<scm, pipe, svc, auth, cli>>

\* ReadFile returns a message, a broken pipe or the cancellation; an expired
\* deadline turns even a message that was read into IoTimedOut.  The caller is
\* derived from the process that has the client's id by then, which can fail.
ReadReturns(derived) ==
    /\ worker = "reading"
    /\ pipe.request # Nothing \/ pipe.state = "shut" \/ cancelled
    /\ IF pipe.request # Nothing /\ deadline = "armed" /\ derived
       THEN /\ worker' = "handle" /\ deadline' = "off"
            /\ job' = [request |-> pipe.request, caller |-> incarnation[pipe.owner],
                       package |-> FALSE]
       ELSE worker' = "write" /\ deadline' = "armed" /\ job' = NoJob
    /\ cancelled' = FALSE
    /\ pipe' = [pipe EXCEPT !.request = Nothing]
    /\ UNCHANGED <<scm, stop, event, handler, waker, instance, auth, cli>>

-----------------------------------------------------------------------------
(* SignerIdentityAuthorizer::authorize and the signing key *)

Authorize_NoReplayCheck(c, created, r) == c \in Allowed /\ seen[c] \in {Nothing, created}

Authorize_AnyImage(c, created, r) == r \notin used /\ seen[c] \in {Nothing, created}

\* The digest is new, the image is allowed, and the process id was never
\* seen with another creation time.
Authorize(c, created, r) ==
    /\ r \notin used
    /\ c \in Allowed
    /\ seen[c] \in {Nothing, created}

\* The process id is bound to its creation time.
Remember(c, created) == [seen EXCEPT ![c] = created]

\* handle_authenticated or handle_identity_challenge: the trust state may
\* refuse before the authorization; the key may fail after it.
HandleRequest(permitted, signs) ==
    /\ worker = "handle"
    /\ LET c == pipe.owner
           r == job.request
           ok == permitted /\ Authorize(c, job.caller, r)
       IN /\ used' = IF ok THEN used \cup {r} ELSE used
          /\ seen' = IF ok THEN Remember(c, job.caller) ELSE seen
          /\ signed' = IF ok /\ signs THEN [signed EXCEPT ![r] = @ + 1] ELSE signed
          /\ job' = [job EXCEPT !.package = ok /\ signs]
    /\ worker' = "write" /\ deadline' = "armed"
    /\ UNCHANGED <<scm, pipe, stop, event, handler, waker, cancelled, instance, cli>>

\* The response fits the pipe buffer: WriteFile fails only without a reader.
WriteResponse ==
    /\ worker = "write"
    /\ pipe' = IF pipe.state = "open" THEN [pipe EXCEPT !.answer = job] ELSE pipe
    /\ worker' = "written" /\ deadline' = "off"
    /\ UNCHANGED <<scm, stop, event, handler, waker, cancelled, job, instance,
                   auth, cli>>

\* DisconnectNamedPipe discards what the client has not read.
CloseConnection ==
    /\ worker = "written"
    /\ worker' = "loop"
    /\ pipe' = NoPipe
    /\ UNCHANGED <<scm, svc, auth, cli>>

\* After the loop the event is set for the waker, which is joined.
SetEventForWaker ==
    /\ worker = "leave" /\ ~ event
    /\ event' = TRUE
    /\ UNCHANGED <<scm, worker, pipe, stop, handler, waker, deadline, cancelled, job,
                   instance, auth, cli>>

Leave == worker = "leave" /\ event /\ waker = "done" /\ EndProcess

ServiceCrash == worker # "down" /\ EndProcess

-----------------------------------------------------------------------------
(* service_control_handler, the waker and the I/O watchdog *)

\* Controls are accepted only in SERVICE_RUNNING.
StopControl ==
    /\ handler = "idle" /\ scm = "running"
    /\ stop' = TRUE
    /\ handler' = "flagged"
    /\ UNCHANGED <<scm, worker, pipe, event, waker, deadline, cancelled, job, instance, auth, cli>>

ReportStopPending ==
    /\ handler = "flagged"
    /\ scm' = "stop_pending"
    /\ handler' = "pending"
    /\ UNCHANGED <<worker, pipe, stop, event, waker, deadline, cancelled, job, instance, auth, cli>>

SignalStop ==
    /\ handler = "pending"
    /\ event' = TRUE
    /\ handler' = "idle"
    /\ UNCHANGED <<scm, worker, pipe, stop, waker, deadline, cancelled, job, instance, auth, cli>>

\* WaitNamedPipeW: its result is ignored.  It returns at once when there is no
\* instance, and after five seconds when the instance stays busy.
WakerWaits ==
    /\ waker = "waiting" /\ event
    /\ waker' = "create"
    /\ UNCHANGED <<scm, worker, pipe, stop, event, handler, deadline, cancelled, job,
                   instance, auth, cli>>

WakerOpens ==
    /\ waker = "create"
    /\ IF pipe.state = "free"
       THEN waker' = "close" /\ pipe' = [pipe EXCEPT !.state = "open", !.owner = Waker]
       ELSE waker' = "done" /\ UNCHANGED pipe
    /\ UNCHANGED <<scm, worker, stop, event, handler, deadline, cancelled, job, instance, auth, cli>>

\* The client end of the pipe is closed; what it sent stays readable.
Shut(p) == IF pipe.owner = p THEN [pipe EXCEPT !.state = "shut", !.answer = Nothing] ELSE pipe

WakerCloses ==
    /\ waker = "close"
    /\ waker' = "done"
    /\ pipe' = Shut(Waker)
    /\ UNCHANGED <<scm, worker, stop, event, handler, deadline, cancelled, job, instance, auth, cli>>

Expire_NoCancel ==
    /\ deadline = "armed"
    /\ deadline' = "expired"
    /\ UNCHANGED <<scm, worker, pipe, stop, event, handler, waker, cancelled, job,
                   instance, auth, cli>>

\* CancelSynchronousIo ends the system call the thread is in, if it is in one.
Expire ==
    /\ deadline = "armed"
    /\ deadline' = "expired"
    /\ cancelled' = (worker = "reading")
    /\ UNCHANGED <<scm, worker, pipe, stop, event, handler, waker, job, instance,
                   auth, cli>>

-----------------------------------------------------------------------------
(* client_exchange in the backend, and the backend process itself *)

OpenPipe(c) ==
    /\ client[c] = "idle" /\ pipe.state = "free"
    /\ pipe' = [pipe EXCEPT !.state = "open", !.owner = c]
    /\ client' = [client EXCEPT ![c] = "connected"]
    /\ UNCHANGED <<scm, worker, svc, auth, submitted, incarnation>>

SendRequest(c, r) ==
    /\ client[c] = "connected" /\ pipe.owner = c
    /\ pipe' = [pipe EXCEPT !.request = r]
    /\ submitted' = [submitted EXCEPT ![c] = r]
    /\ client' = [client EXCEPT ![c] = "waiting"]
    /\ UNCHANGED <<scm, worker, svc, auth, incarnation>>

\* The answer was read, the deadline expired or the pipe was disconnected.
CloseClient(c) ==
    /\ client[c] # "idle"
    /\ client' = [client EXCEPT ![c] = "idle"]
    /\ pipe' = Shut(c)
    /\ UNCHANGED <<scm, worker, svc, auth, submitted, incarnation>>

\* The process dies and another one is given its id.
RestartClient(c) ==
    /\ incarnation[c] < MaxRestarts
    /\ incarnation' = [incarnation EXCEPT ![c] = @ + 1]
    /\ client' = [client EXCEPT ![c] = "idle"]
    /\ pipe' = Shut(c)
    /\ UNCHANGED <<scm, worker, svc, auth, submitted>>

-----------------------------------------------------------------------------
Worker ==
    \/ LoadHost \/ LoadFails \/ CheckStop \/ Bind \/ BindFails
    \/ Accept \/ AcceptFails \/ AcceptReturns \/ ServeOrStop \/ EnterRead
    \/ \E derived \in BOOLEAN : ReadReturns(derived)
    \/ \E permitted, signs \in BOOLEAN : HandleRequest(permitted, signs)
    \/ WriteResponse \/ CloseConnection \/ SetEventForWaker \/ Leave

WakerThread == WakerWaits \/ WakerOpens \/ WakerCloses

Handler == ReportStopPending \/ SignalStop

Environment ==
    \/ StartService \/ ServiceCrash \/ StopControl
    \/ \E c \in Clients : \/ OpenPipe(c) \/ CloseClient(c) \/ RestartClient(c)
                          \/ \E r \in Requests : SendRequest(c, r)

ServiceNext == Worker \/ WakerThread \/ Handler \/ Expire \/ Environment

ServiceSpec == ServiceInit /\ [][ServiceNext]_serviceVars

\* The threads of the service process are scheduled and a timed wait ends.
\* Nothing is assumed of the clients or of the control manager.
Fairness ==
    /\ WF_serviceVars(Worker) /\ WF_serviceVars(WakerThread) /\ WF_serviceVars(Handler)
    /\ WF_serviceVars(Expire)

FairSpec == ServiceSpec /\ Fairness

-----------------------------------------------------------------------------
(* Properties *)

\* The replay set of authorize is filled before the key is used, so that one
\* service process signs a request at most once, whatever clients resend
\* after a timeout, a discarded answer or a restart.
SignedOncePerInstance == \A r \in Requests : signed[r] <= 1

\* A package waits in the pipe only for the allowlisted process that sent the
\* request it answers, on the connection it sent it on.
PackageForCaller ==
    pipe.answer # Nothing =>
        /\ pipe.answer.request \in {Nothing, submitted[pipe.owner]}
        /\ pipe.answer.package => pipe.owner \in Allowed

\* A client that neither sends nor closes is cut off by the I/O deadline,
\* unless the deadline expired before the worker was inside the read.
DeadlineBounds ==
    (worker = "reading" /\ deadline = "armed") ~> (worker # "reading")

\* What the architecture document promises: a stop control ends the service.
StopCompletes == (handler = "flagged") ~> (scm = "stopped")
=============================================================================
