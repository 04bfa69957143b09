--------------------------- MODULE SessionService ---------------------------
(***************************************************************************)
(* What the client API promises its callers, without worlds, mutex, tasks  *)
(* or a main loop: each call takes effect at one instant between its start *)
(* and its return, on the sessions that are open at that instant.          *)
(*                                                                         *)
(* phase     "idle", "called" (not served yet) or "served"                 *)
(* request   the call of each thread, as in TzCall                         *)
(* answer    its result once served                                        *)
(* done      whether the service carried the command out                   *)
(* sessions  client and service of every session ever opened, in order     *)
(* open      the sessions that are open                                    *)
(* handles   the sessions each client was told of                          *)
(***************************************************************************)
EXTENDS Integers, Sequences

CONSTANTS Threads, Clients, ClientOf, Services, NoService

VARIABLES phase, request, answer, done, sessions, open, handles
vars == <<phase, request, answer, done, sessions, open, handles>>

NoRequest == [op |-> "close", what |-> NoService, session |-> 0]

Requests(t) ==
    [op : {"open"}, what : Services \cup {NoService}, session : {0}]
        \cup [op : {"close"}, what : {NoService}, session : handles[ClientOf[t]]]
        \cup [op : {"invoke"}, what : Services \cup {NoService},
              session : handles[ClientOf[t]]]

Init ==
    /\ phase = [t \in Threads |-> "idle"]
    /\ request = [t \in Threads |-> NoRequest]
    /\ answer = [t \in Threads |-> "none"]
    /\ done = [t \in Threads |-> FALSE]
    /\ sessions = <<>>
    /\ open = {}
    /\ handles = [c \in Clients |-> {}]

Call(t) ==
    /\ phase[t] = "idle"
    /\ phase' = [phase EXCEPT ![t] = "called"]
    /\ \E r \in Requests(t) : request' = [request EXCEPT ![t] = r]
    /\ UNCHANGED <<answer, done, sessions, open, handles>>

Answer(t, result) ==
    /\ phase[t] = "called"
    /\ phase' = [phase EXCEPT ![t] = "served"]
    /\ answer' = [answer EXCEPT ![t] = result]
    /\ UNCHANGED handles

(* An open of a known service makes a new session with the next id.        *)
Open(t) ==
    /\ request[t].op = "open"
    /\ \/ /\ request[t].what \in Services
          /\ Answer(t, "SUCCESS")
          /\ sessions' = Append(sessions, [client |-> ClientOf[t],
                                           service |-> request[t].what])
          /\ open' = open \cup {Len(sessions) + 1}
          /\ request' = [request EXCEPT ![t].session = Len(sessions) + 1]
       \/ /\ request[t].what \notin Services
          /\ Answer(t, "NOT_SUPPORTED")
          /\ UNCHANGED <<sessions, open, request>>
    /\ UNCHANGED done

(* A close always succeeds, of a session closed before too.                *)
Close(t) ==
    /\ request[t].op = "close"
    /\ Answer(t, "SUCCESS")
    /\ open' = open \ {request[t].session}
    /\ UNCHANGED <<sessions, request, done>>

(* An invocation on a session that is not open is refused.  On an open one *)
(* the session's service carries the command out if it knows it; nothing   *)
(* is promised about the answer to a command it does not know.             *)
Invoke(t) ==
    /\ request[t].op = "invoke"
    /\ \/ /\ request[t].session \notin open
          /\ Answer(t, "BAD_PARAMETERS")
          /\ UNCHANGED done
       \/ /\ request[t].session \in open
          /\ request[t].what = sessions[request[t].session].service
          /\ Answer(t, "SUCCESS")
          /\ done' = [done EXCEPT ![t] = TRUE]
       \/ /\ request[t].session \in open
          /\ request[t].what # sessions[request[t].session].service
          /\ \E r \in {"SUCCESS", "BAD_PARAMETERS"} : Answer(t, r)
          /\ UNCHANGED done
    /\ UNCHANGED <<sessions, open, request>>

(* The client may fail to learn of a session it opened.                    *)
Return(t) ==
    /\ phase[t] = "served"
    /\ phase' = [phase EXCEPT ![t] = "idle"]
    /\ request' = [request EXCEPT ![t] = NoRequest]
    /\ answer' = [answer EXCEPT ![t] = "none"]
    /\ done' = [done EXCEPT ![t] = FALSE]
    /\ \/ /\ request[t].op = "open" /\ answer[t] = "SUCCESS"
          /\ handles' = [handles EXCEPT ![ClientOf[t]] = @ \cup {request[t].session}]
       \/ UNCHANGED handles
    /\ UNCHANGED <<sessions, open>>

Next == \E t \in Threads :
            Call(t) \/ Open(t) \/ Close(t) \/ Invoke(t) \/ Return(t)

Spec == Init /\ [][Next]_vars /\ \A t \in Threads : WF_vars(Return(t))

=============================================================================
