----------------------------- MODULE PeerRegistry -----------------------------
(***************************************************************************)
(* What a HOST promises about its connections, without lists, positions,   *)
(* rounds or threads: each connection has one session, which is registered *)
(* once, may be expelled, and leaves when the connection has been closed   *)
(* by the client and the session is no longer served.  Bytes are delivered *)
(* to online sessions only.                                                *)
(***************************************************************************)
CONSTANT Client   \* the TCP connections that will be attempted, each once

VARIABLES
  conn,      \* conn[c]: "none", "up" or "closed", as the client left it
  mail,      \* clients with unread bytes from the HOST
  session    \* session[c]: "absent", "online", "offline" or "gone"

vars == <<conn, mail, session>>

Init ==
  /\ conn = [c \in Client |-> "none"]
  /\ mail = {}
  /\ session = [c \in Client |-> "absent"]

--------------------------------------------------------------------------------
\* The clients.

Connect(c) ==
  /\ conn[c] = "none"
  /\ conn' = [conn EXCEPT ![c] = "up"]
  /\ UNCHANGED <<mail, session>>

Close(c) ==
  /\ conn[c] = "up"
  /\ conn' = [conn EXCEPT ![c] = "closed"]
  /\ UNCHANGED <<mail, session>>

Fetch(c) ==
  /\ c \in mail
  /\ mail' = mail \ {c}
  /\ UNCHANGED <<conn, session>>

--------------------------------------------------------------------------------
\* The HOST.

Register(c) ==
  /\ conn[c] # "none"
  /\ session[c] = "absent"
  /\ session' = [session EXCEPT ![c] = "online"]
  /\ UNCHANGED <<conn, mail>>

Deliver(c) ==
  /\ session[c] = "online"
  /\ mail' = mail \union {c}
  /\ UNCHANGED <<conn, session>>

\* The session is not served again; the step may deliver the reason.
Expel(c) ==
  /\ session[c] = "online"
  /\ session' = [session EXCEPT ![c] = "offline"]
  /\ mail' \in {mail, mail \union {c}}
  /\ UNCHANGED conn

Leave(c) ==
  /\ session[c] = "offline"
  /\ conn[c] = "closed"
  /\ session' = [session EXCEPT ![c] = "gone"]
  /\ UNCHANGED <<conn, mail>>

--------------------------------------------------------------------------------
Next == \E c \in Client :
  \/ Connect(c) \/ Close(c) \/ Fetch(c)
  \/ Register(c) \/ Deliver(c) \/ Expel(c) \/ Leave(c)

Spec == Init /\ [][Next]_vars

================================================================================
