--------------------------- MODULE MappingSession ---------------------------
(* One client mapping: the provider sessions its Client opens one after the  *)
(* other (MappingManager.accept, ProviderSession, client.run_once), the      *)
(* calls that HTTP threads and FUSE workers make through them                *)
(* (MappingManager.call), the temporary full approval that an administrator  *)
(* grants through them (set_full_approval), and the administrator's updates. *)
(* A step is one critical section of the Manager lock or of a session lock,  *)
(* one row read, or one message.  There is one Client per mapping: it holds  *)
(* its configuration locked and connects again only after run_once is over.  *)
EXTENDS Integers, FiniteSets

CONSTANTS Calls,        \* threads in MappingManager.call
          Approvers,    \* administrator requests in set_full_approval
          Ops,          \* the kinds of operation that calls make
          None,
          Duration,     \* the length of an approval
          MaxSessions,  \* bound: connections
          MaxUpdates,   \* bound: administrator updates
          MaxTime       \* bound: the clock

VARIABLES enabled,      \* the row's enabled column
          registered,   \* manager.sessions[mid], 0 when there is none
          approval,     \* manager._full_approvals[mid]
          control,      \* the holder of _full_approval_locks[mid], or None
          server,       \* the ProviderSession of every connection
          client,       \* the ClientRpcSession of every connection
          grant,        \* runtime._full_approval_deadline, and who set it
          thread,       \* the state of every call and approver
          requests,     \* what is between the two sides
          performed,    \* history: the requests that took effect
          admin,        \* the administrator's update in progress
          updates, now

vars == <<enabled, registered, approval, control, server, client, grant,
          thread, requests, performed, admin, updates, now>>

ASSUME MappingAssumption ==
    /\ MaxSessions \in Nat /\ MaxUpdates \in Nat /\ MaxTime \in Nat
    /\ Duration \in Nat \ {0}
    /\ Calls \cap Approvers = {} /\ None \notin Calls \cup Approvers
    /\ Ops \subseteq {"read", "rpc", "write", "handle"}

Sessions == 1 .. MaxSessions
Threads == Calls \cup Approvers
NoApproval == [s |-> 0, deadline |-> 0]
Fresh == [pc |-> "idle", op |-> "none", gen |-> 0, s |-> 0, n |-> 1, retry |-> FALSE,
          replay |-> FALSE, enabled |-> FALSE, answer |-> "none", deadline |-> 0]

Init ==
    /\ enabled = TRUE
    /\ registered = 0
    /\ approval = NoApproval
    /\ control = None
    /\ server = [s \in Sessions |-> [open |-> FALSE, ready |-> FALSE, serving |-> FALSE]]
    /\ client = [s \in Sessions |-> "absent"]
    /\ grant = NoApproval
    /\ thread = [t \in Threads |-> Fresh]
    /\ requests = {}
    /\ performed = {}
    /\ admin = [pc |-> "idle", s |-> 0]
    /\ updates = 0
    /\ now = 0

\* session is not None, not closed and ready
Online(s) == s # 0 /\ server[s].open /\ server[s].ready

\* ProviderSession.close: every waiter without an answer learns that the
\* session is gone, with request_sent set.
ClosedServer(s) == [server EXCEPT ![s].open = FALSE]
Orphaned(threads, s) ==
    [t \in Threads |->
        IF /\ threads[t].pc \in {"send", "wait"} /\ threads[t].s = s
           /\ threads[t].answer = "none" /\ server[s].open
        THEN [threads[t] EXCEPT !.answer = "gone"]
        ELSE threads[t]]
Close(s, threads) ==
    IF s = 0 THEN server' = server /\ thread' = threads
             ELSE server' = ClosedServer(s) /\ thread' = Orphaned(threads, s)

-----------------------------------------------------------------------------
(* The connection *)

\* MappingManager.accept, up to session.run: an open session refuses a second
\* provider, a closed one that has not been retired is replaced.
Accept(s) ==
    /\ client[s] = "absent"
    /\ \A r \in Sessions : r < s => client[r] = "closed"
    /\ enabled
    /\ registered # 0 => ~server[registered].open
    /\ server' = [server EXCEPT ![s] = [open |-> TRUE, ready |-> FALSE, serving |-> TRUE]]
    /\ client' = [client EXCEPT ![s] = "dialing"]
    /\ registered' = s
    /\ UNCHANGED <<enabled, approval, control, grant, thread, requests, performed,
                   admin, updates, now>>

\* run: a valid client_hello makes the session ready.
Hello(s) ==
    /\ server[s].open /\ ~server[s].ready /\ client[s] = "dialing"
    /\ server' = [server EXCEPT ![s].ready = TRUE]
    /\ UNCHANGED <<enabled, registered, approval, control, client, grant, thread,
                   requests, performed, admin, updates, now>>

\* run ends: the socket is closed, idle for too long or carries nonsense.
Drop(s) ==
    /\ server[s].open
    /\ Close(s, thread)
    /\ UNCHANGED <<enabled, registered, approval, control, client, grant, requests,
                   performed, admin, updates, now>>

\* A cleanup that does not look whose session is registered.
RetireAny(s) ==
    /\ server[s].serving /\ ~server[s].open
    /\ server' = [server EXCEPT ![s].serving = FALSE]
    /\ registered' = 0 /\ approval' = NoApproval
    /\ UNCHANGED <<enabled, control, client, grant, thread, requests, performed,
                   admin, updates, now>>

\* accept's finally: the session is deregistered unless it has been replaced.
Retire(s) ==
    /\ server[s].serving /\ ~server[s].open
    /\ server' = [server EXCEPT ![s].serving = FALSE]
    /\ registered' = IF registered = s THEN 0 ELSE registered
    /\ approval' = IF registered = s THEN NoApproval ELSE approval
    /\ UNCHANGED <<enabled, control, client, grant, thread, requests, performed,
                   admin, updates, now>>

\* run_once: READY has arrived and the ClientRpcSession is created.
ClientReady(s) ==
    /\ client[s] = "dialing" /\ server[s].ready
    /\ client' = [client EXCEPT ![s] = "up"]
    /\ UNCHANGED <<enabled, registered, approval, control, server, grant, thread,
                   requests, performed, admin, updates, now>>

\* The receive loop, the heartbeat or a failed reply sets `stopped`.
ClientStop(s) ==
    /\ client[s] \in {"dialing", "up"}
    /\ client' = [client EXCEPT ![s] = "stopped"]
    /\ UNCHANGED <<enabled, registered, approval, control, server, grant, thread,
                   requests, performed, admin, updates, now>>

\* run_once's finally: ClientRpcSession.close, and the approval is withdrawn.
ClientClose(s) ==
    /\ client[s] = "stopped"
    /\ client' = [client EXCEPT ![s] = "closed"]
    /\ grant' = NoApproval
    /\ UNCHANGED <<enabled, registered, approval, control, server, thread, requests,
                   performed, admin, updates, now>>

-----------------------------------------------------------------------------
(* A call *)

\* _call_retryable: may the operation be sent again after it has been sent?
Retryable(op) == op = "read" \/ (op = "rpc" /\ registered # 0)

\* call: whether a replay is allowed is decided before the first attempt.
Call(t) ==
    /\ thread[t].pc = "idle"
    /\ \E op \in Ops, retry \in BOOLEAN, gen \in Sessions :
        /\ op = "handle" => server[gen].ready
        /\ op # "handle" => gen = 1
        /\ thread' = [thread EXCEPT ![t] =
              [Fresh EXCEPT !.pc = "once", !.op = op, !.retry = retry,
                            !.gen = IF op = "handle" THEN gen ELSE 0,
                            !.replay = Retryable(op)]]
    /\ UNCHANGED <<enabled, registered, approval, control, server, client, grant,
                   requests, performed, admin, updates, now>>

\* _call_once: store.get, and whether the workspace is available.
ReadRow(t) ==
    /\ thread[t].pc = "once"
    /\ \E pc \in {"look", "evict"} :
          thread' = [thread EXCEPT ![t].pc = pc, ![t].enabled = enabled]
    /\ UNCHANGED <<enabled, registered, approval, control, server, client, grant,
                   requests, performed, admin, updates, now>>

\* The workspace is unavailable: disconnect, then the call raises.
Evict(t) ==
    /\ thread[t].pc = "evict"
    /\ registered' = 0 /\ approval' = NoApproval
    /\ thread' = [thread EXCEPT ![t].pc = "close", ![t].s = registered]
    /\ UNCHANGED <<enabled, control, server, client, grant, requests, performed,
                   admin, updates, now>>

CloseEvicted(t) ==
    /\ thread[t].pc = "close"
    /\ Close(thread[t].s, [thread EXCEPT ![t].pc = "done"])
    /\ UNCHANGED <<enabled, registered, approval, control, client, grant, requests,
                   performed, admin, updates, now>>

\* A retry that does not ask whether the request had been sent.
DisconnectedRetries(threads, t, sent) ==
    LET me == threads[t]
    IN  [threads EXCEPT ![t] =
            IF me.n = 1 /\ me.retry THEN [me EXCEPT !.pc = "pause"] ELSE [me EXCEPT !.pc = "done"]]

\* call: what follows a MappingSessionDisconnected.
Disconnected(threads, t, sent) ==
    LET me == threads[t]
    IN  [threads EXCEPT ![t] =
            IF me.n = 1 /\ me.retry /\ (~sent \/ me.replay)
            THEN [me EXCEPT !.pc = "pause"] ELSE [me EXCEPT !.pc = "done"]]

\* _call_once under the Manager lock, and the generation of a handle.
Look(t) ==
    /\ thread[t].pc = "look"
    /\ LET me == thread[t]
       IN  thread' =
             IF ~me.enabled THEN [thread EXCEPT ![t].pc = "done"]
             ELSE IF ~Online(registered) THEN Disconnected(thread, t, FALSE)
             ELSE IF me.op = "handle" /\ me.gen # registered
                  THEN [thread EXCEPT ![t].pc = "done"]
             ELSE [thread EXCEPT ![t].pc = "enter", ![t].s = registered]
    /\ UNCHANGED <<enabled, registered, approval, control, server, client, grant,
                   requests, performed, admin, updates, now>>

\* How an operation fails for good: a call raises, an approval is fenced.
Failed(t) == IF t \in Calls THEN "done" ELSE "fence"

\* ProviderSession.call: the waiter is registered, or the session is closed.
\* The approval's deadline starts before the request is sent.
Enter(t) ==
    /\ thread[t].pc = "enter"
    /\ thread' = [thread EXCEPT
          ![t].pc = IF server[thread[t].s].open THEN "send" ELSE Failed(t),
          ![t].answer = "none",
          ![t].deadline = IF thread[t].op = "grant" THEN now + Duration ELSE 0]
    /\ UNCHANGED <<enabled, registered, approval, control, server, client, grant,
                   requests, performed, admin, updates, now>>

\* The end of an attempt that met a disconnect.
Lost(threads, t, sent) ==
    IF t \in Calls THEN Disconnected(threads, t, sent)
                   ELSE [threads EXCEPT ![t].pc = "fence"]

Request(t) == [from |-> t, s |-> thread[t].s, n |-> thread[t].n, stage |-> "sent"]

\* ProviderSession.send: a sendall that fails may have sent the frame.
Send(t) ==
    LET s == thread[t].s
    IN  /\ thread[t].pc = "send"
        /\ \/ /\ ~server[s].open
              /\ thread' = Lost(thread, t, FALSE)
              /\ UNCHANGED <<server, requests>>
           \/ /\ server[s].open
              /\ thread' = [thread EXCEPT ![t].pc = "wait"]
              /\ requests' = requests \cup {Request(t)}
              /\ UNCHANGED server
           \/ /\ server[s].open
              /\ Close(s, Lost(thread, t, TRUE))
              /\ requests' \in {requests, requests \cup {Request(t)}}
        /\ UNCHANGED <<enabled, registered, approval, control, client, grant,
                       performed, admin, updates, now>>

\* answer.get: a reply, the end of the session, or the deadline, after which a
\* late reply finds no waiter.
Await(t) ==
    /\ thread[t].pc = "wait"
    /\ thread' =
          CASE thread[t].answer = "gone"  -> Lost(thread, t, TRUE)
            [] thread[t].answer = "reply" ->
                 [thread EXCEPT ![t].pc = IF t \in Calls THEN "done" ELSE "publish"]
            [] OTHER -> [thread EXCEPT ![t].pc = Failed(t)]
    /\ UNCHANGED <<enabled, registered, approval, control, server, client, grant,
                   requests, performed, admin, updates, now>>

\* call: the second attempt, after the pause.
Retry(t) ==
    /\ thread[t].pc = "pause"
    /\ thread' = [thread EXCEPT ![t].pc = "once", ![t].n = 2, ![t].s = 0, ![t].answer = "none"]
    /\ UNCHANGED <<enabled, registered, approval, control, server, client, grant,
                   requests, performed, admin, updates, now>>

-----------------------------------------------------------------------------
(* The Client's side of a request *)

\* ClientRpcSession.submit and _run: a worker takes the request unless the
\* session has stopped, or every worker is busy and the request is refused.
Dispatch(m) ==
    /\ m.stage = "sent" /\ client[m.s] # "dialing"
    /\ requests' = (requests \ {m}) \cup
          IF client[m.s] = "up" THEN {[m EXCEPT !.stage = "running"]} ELSE {}
    /\ UNCHANGED <<enabled, registered, approval, control, server, client, grant,
                   thread, performed, admin, updates, now>>

Refuse(m) ==
    /\ m.stage = "sent" /\ client[m.s] = "up"
    /\ requests' = (requests \ {m}) \cup {[m EXCEPT !.stage = "refused"]}
    /\ UNCHANGED <<enabled, registered, approval, control, server, client, grant,
                   thread, performed, admin, updates, now>>

\* set_full_approval of the ClientRuntime, whose deadline all sessions share.
Granted(m) ==
    IF thread[m.from].op = "grant" THEN [s |-> m.s, deadline |-> now + Duration] ELSE NoApproval

\* A worker that applies an approval although its session has closed.
PerformLate(m) ==
    /\ m.stage = "running"
    /\ performed' = IF m.from \in Calls
                    THEN performed \cup {[from |-> m.from, s |-> m.s, n |-> m.n]} ELSE performed
    /\ grant' = IF m.from \in Calls THEN grant ELSE Granted(m)
    /\ requests' = (requests \ {m}) \cup {[m EXCEPT !.stage = "replied"]}
    /\ UNCHANGED <<enabled, registered, approval, control, server, client, thread,
                   admin, updates, now>>

\* _dispatch: an operation that has begun takes effect even when the session
\* stops meanwhile; an approval is applied under the session's lock and not
\* after it has stopped.
Perform(m) ==
    /\ m.stage = "running"
    /\ IF m.from \in Calls
       THEN /\ performed' = performed \cup {[from |-> m.from, s |-> m.s, n |-> m.n]}
            /\ grant' = grant
            /\ requests' = (requests \ {m}) \cup {[m EXCEPT !.stage = "replied"]}
       ELSE /\ performed' = performed
            /\ grant' = IF client[m.s] = "up" THEN Granted(m) ELSE grant
            /\ requests' = (requests \ {m}) \cup
                  IF client[m.s] = "up" THEN {[m EXCEPT !.stage = "replied"]} ELSE {}
    /\ UNCHANGED <<enabled, registered, approval, control, server, client, thread,
                   admin, updates, now>>

\* _reply, and run on the server: the reply reaches its own waiter, if that is
\* still there, or is lost with the connection.
Deliver(m) ==
    LET me == thread[m.from]
    IN  /\ m.stage \in {"replied", "refused"}
        /\ requests' = requests \ {m}
        /\ \/ /\ server[m.s].open
              /\ thread' =
                   IF me.pc = "wait" /\ me.s = m.s /\ me.n = m.n /\ me.answer = "none"
                   THEN [thread EXCEPT ![m.from].answer =
                           IF m.stage = "replied" THEN "reply" ELSE "error"]
                   ELSE thread
           \/ /\ ~server[m.s].open \/ client[m.s] # "up"
              /\ UNCHANGED thread
        /\ UNCHANGED <<enabled, registered, approval, control, server, client, grant,
                       performed, admin, updates, now>>

-----------------------------------------------------------------------------
(* The temporary full approval *)

\* set_full_approval: the control lock, and the row for a grant.
BeginApproval(t) ==
    /\ thread[t].pc = "idle" /\ control = None
    /\ \E op \in {"grant", "revoke"} :
        IF op = "grant" /\ ~enabled
        THEN /\ thread' = [thread EXCEPT ![t].pc = "done"]
             /\ control' = control
        ELSE /\ thread' = [thread EXCEPT ![t] = [Fresh EXCEPT !.pc = "find", !.op = op]]
             /\ control' = t
    /\ UNCHANGED <<enabled, registered, approval, server, client, grant, requests,
                   performed, admin, updates, now>>

\* The session, under the Manager lock.  Without one a revocation is done.
FindSession(t) ==
    /\ thread[t].pc = "find"
    /\ IF Online(registered)
       THEN /\ thread' = [thread EXCEPT ![t].pc = "enter", ![t].s = registered]
            /\ UNCHANGED <<approval, control>>
       ELSE /\ thread' = [thread EXCEPT ![t].pc = "done"]
            /\ approval' = IF thread[t].op = "revoke" THEN NoApproval ELSE approval
            /\ control' = None
    /\ UNCHANGED <<enabled, registered, server, client, grant, requests, performed,
                   admin, updates, now>>

\* A failed exchange fences the session it used, and only that one.
Fence(t) ==
    LET s == thread[t].s
    IN  /\ thread[t].pc = "fence"
        /\ registered' = IF registered = s THEN 0 ELSE registered
        /\ approval' = IF registered = s THEN NoApproval ELSE approval
        /\ thread' = [thread EXCEPT ![t].pc = "close"]
        /\ UNCHANGED <<enabled, control, server, client, grant, requests, performed,
                       admin, updates, now>>

CloseFenced(t) ==
    /\ thread[t].pc = "close"
    /\ Close(thread[t].s, [thread EXCEPT ![t].pc = "done"])
    /\ control' = None
    /\ UNCHANGED <<enabled, registered, approval, client, grant, requests, performed,
                   admin, updates, now>>

\* The display deadline starts when the acknowledgement arrives.
PublishFromNow(t) ==
    LET me == thread[t]
    IN  /\ me.pc = "publish"
        /\ IF registered # me.s \/ ~server[me.s].open
           THEN Close(me.s, [thread EXCEPT ![t].pc = "done"]) /\ approval' = approval
           ELSE /\ thread' = [thread EXCEPT ![t].pc = "done"]
                /\ approval' = IF me.op = "grant"
                               THEN [s |-> me.s, deadline |-> now + Duration] ELSE NoApproval
                /\ UNCHANGED server
        /\ control' = None
        /\ UNCHANGED <<enabled, registered, client, grant, requests, performed, admin,
                       updates, now>>

\* The acknowledgement counts only while its session is still registered.
Publish(t) ==
    LET me == thread[t]
    IN  /\ me.pc = "publish"
        /\ IF registered # me.s \/ ~server[me.s].open
           THEN Close(me.s, [thread EXCEPT ![t].pc = "done"]) /\ approval' = approval
           ELSE /\ thread' = [thread EXCEPT ![t].pc = "done"]
                /\ approval' = IF me.op = "grant"
                               THEN [s |-> me.s, deadline |-> me.deadline] ELSE NoApproval
                /\ UNCHANGED server
        /\ control' = None
        /\ UNCHANGED <<enabled, registered, client, grant, requests, performed, admin,
                       updates, now>>

\* full_approval_status: the administrator's page shows an approval.
Shown ==
    /\ Online(registered)
    /\ approval.s = registered
    /\ approval.deadline > now

-----------------------------------------------------------------------------
(* The administrator and the clock *)

\* _handle_admin_mappings: disconnect takes the session out, ...
Disconnect ==
    /\ admin.pc = "idle" /\ updates < MaxUpdates
    /\ registered' = 0 /\ approval' = NoApproval
    /\ admin' = [pc |-> "close", s |-> registered]
    /\ updates' = updates + 1
    /\ UNCHANGED <<enabled, control, server, client, grant, thread, requests,
                   performed, now>>

\* ... closes it, ...
CloseDisconnected ==
    /\ admin.pc = "close"
    /\ Close(admin.s, thread)
    /\ admin' = [pc |-> "update", s |-> 0]
    /\ UNCHANGED <<enabled, registered, approval, control, client, grant, requests,
                   performed, updates, now>>

\* ... and then the row is written.
Update ==
    /\ admin.pc = "update"
    /\ enabled' \in BOOLEAN
    /\ admin' = [pc |-> "idle", s |-> 0]
    /\ UNCHANGED <<registered, approval, control, server, client, grant, thread,
                   requests, performed, updates, now>>

Tick ==
    /\ now < MaxTime
    /\ now' = now + 1
    /\ UNCHANGED <<enabled, registered, approval, control, server, client, grant,
                   thread, requests, performed, admin, updates>>

Connection ==
    \E s \in Sessions :
        \/ Accept(s) \/ Hello(s) \/ Drop(s) \/ Retire(s)
        \/ ClientReady(s) \/ ClientStop(s) \/ ClientClose(s)

Exchange(t) == Enter(t) \/ Send(t) \/ Await(t)

CallStep(t) ==
    Call(t) \/ ReadRow(t) \/ Evict(t) \/ CloseEvicted(t) \/ Look(t) \/ Exchange(t) \/ Retry(t)

ApproverStep(t) ==
    BeginApproval(t) \/ FindSession(t) \/ Exchange(t) \/ Fence(t) \/ CloseFenced(t) \/ Publish(t)

ClientStep == \E m \in requests : Dispatch(m) \/ Refuse(m) \/ Perform(m) \/ Deliver(m)

Next ==
    \/ Connection
    \/ \E t \in Calls : CallStep(t)
    \/ \E t \in Approvers : ApproverStep(t)
    \/ ClientStep
    \/ Disconnect \/ CloseDisconnected \/ Update \/ Tick

Spec == Init /\ [][Next]_vars

-----------------------------------------------------------------------------
(* Properties *)

\* docs/client-mappings.md: "A timeout or disconnect after dispatch is never
\* automatically replayed."  An operation that changes something takes effect
\* at most once per call, and an operation on a handle only in the session
\* that opened the handle, whatever disconnects, reconnects and retries.
NoReplay ==
    \A t \in Calls :
        LET effects == {p \in performed : p.from = t}
        IN  /\ thread[t].op \in {"write", "handle"} => Cardinality(effects) <= 1
            /\ thread[t].op = "handle" => \A p \in effects : p.s = thread[t].gen

\* The approval that the administrator sees is one the Client still honours:
\* same session, and a deadline that does not outlive the Client's own.  It may
\* lag behind only during a change or after the Client has left.
ShownApprovalIsReal ==
    Shown /\ control = None /\ client[registered] = "up" =>
        grant.s = registered /\ grant.deadline > now

\* The Client's approval ends with the connection that it was granted through:
\* a worker of an older connection cannot leave one behind.
GrantBelongsToSession == grant.s # 0 => client[grant.s] \in {"up", "stopped"}

\* An open session can be reached by calls and by the administrator, or the
\* thread that took it out is about to close it: the cleanup of a connection
\* never deregisters the one that replaced it.
OpenSessionReachable ==
    \A s \in Sessions : server[s].open =>
        \/ registered = s
        \/ admin.pc = "close" /\ admin.s = s
        \/ \E t \in Threads : thread[t].pc = "close" /\ thread[t].s = s
=============================================================================
