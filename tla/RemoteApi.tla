------------------------------ MODULE RemoteApi ------------------------------
(***************************************************************************)
(* The remote HTTP service of the host.  Every request runs on a thread of *)
(* its own: it finds out who asks (session cookie or technical token), asks*)
(* the role table, does its work, writes the answer and then one line of   *)
(* the audit log.  The accounts are one JSON file: an operation reads the  *)
(* whole file, changes its copy and replaces the file; no lock covers the  *)
(* two steps.  Sessions live in memory, behind a lock, and end with the    *)
(* service object that made them.                                          *)
(***************************************************************************)
EXTENDS Naturals, FiniteSets

CONSTANTS
  Clients,      \* browsers with one request at a time each
  Readers,      \* the clients that never change an account
  Names,        \* user names
  Ops,          \* the operations the clients ask for
  FreshSite,    \* the accounts file does not exist yet
  TokenRole,    \* role of the technical token the clients hold, or "none"
  MaxRequests,  \* requests in all
  MaxSessions,  \* session identifiers; one nobody holds is as good as new
  Drops,        \* a connection may break while the answer is written
  MaxFaults     \* failed writes, restarts of the service, ends of the process

RemoteApiAssumption ==
  /\ Readers \subseteq Clients
  /\ {MaxRequests, MaxSessions, MaxFaults} \subseteq Nat
  /\ MaxSessions > 2 * Cardinality(Clients)
  /\ {FreshSite, Drops} \subseteq BOOLEAN

Roles == {"admin", "tecnico", "observador"}
NoAccount == [role |-> "none", on |-> FALSE, pass |-> 0]
Accounts == [role : Roles, on : BOOLEAN, pass : {0, 1}] \cup {NoAccount}
Sids == 1 .. MaxSessions
Nobody == "nobody"

VARIABLES
  file,      \* the account of each name on disk
  sessions,  \* name each session of the running service belongs to
  cookie,    \* the session cookie of each client, 0 for none
  running,   \* the CKv2 session runs, with control plane and node
  pc,        \* where the request of each client is
  req,       \* what it asks for
  me,        \* who it was found to come from
  copy,      \* the accounts its thread is about to save
  out,       \* what it answers
  logged,    \* the audit line of each client's last request
  gone,      \* names whose end, or disabling, has been answered
  asked, faults

vars == <<file, sessions, cookie, running, pc, req, me, copy, out, logged, gone, asked, faults>>

Nothing == [n \in Names |-> NoAccount]
Unknown == [name |-> Nobody, role |-> "none", sid |-> 0]
NoRequest == [op |-> "none", who |-> Nobody, arg |-> 0, old |-> "no"]
Silent == [status |-> 0, cause |-> "none", named |-> FALSE]
NoLine == [actor |-> Nobody, status |-> 0]
Edits == {"create", "rename", "role", "enable", "password", "delete", "bootstrap"}
Actions == {"stat", "reboot"}
Public == {"login", "logout", "bootstrap", "whoami"}

Goes(c, p) == pc' = [pc EXCEPT ![c] = p]
Answers(c, status, cause, named) ==
  /\ out' = [out EXCEPT ![c] = [status |-> status, cause |-> cause, named |-> named]]
  /\ Goes(c, "answer")

(* _map_remote_auth_error: what the account service refuses, as it says it. *)
StatusOf(cause) ==
  CASE cause = "invalid_credentials" -> 401
    [] cause = "account_disabled" -> 403
    [] cause \in {"username_conflict", "bootstrap_already_completed", "bootstrap_required"} -> 409
Refuses(c, cause) == Answers(c, StatusOf(cause), cause, FALSE)

Used == {cookie[c] : c \in Clients} \cup {me[c].sid : c \in Clients}

Bootstrapped == \E n \in Names : file[n] # NoAccount
NewSid == CHOOSE s \in Sids : s \notin Used

Init ==
  /\ \E role \in Roles :
       file = [n \in Names |->
                 IF FreshSite THEN NoAccount
                 ELSE CASE n = "ana" -> [role |-> "admin", on |-> TRUE, pass |-> 0]
                        [] n = "eva" -> [role |-> role, on |-> TRUE, pass |-> 0]
                        [] OTHER -> NoAccount]
  /\ cookie \in [Clients -> IF FreshSite THEN {0} ELSE 0 .. 2]
  /\ \A c, d \in Clients : c # d /\ cookie[c] # 0 => cookie[c] # cookie[d]
  /\ sessions = [s \in Sids |-> IF \A c \in Clients : cookie[c] # s THEN Nobody
                                ELSE IF s = 1 THEN "ana" ELSE "eva"]
  /\ running = FALSE
  /\ pc = [c \in Clients |-> "idle"] /\ req = [c \in Clients |-> NoRequest]
  /\ me = [c \in Clients |-> Unknown] /\ copy = [c \in Clients |-> Nothing]
  /\ out = [c \in Clients |-> Silent] /\ logged = [c \in Clients |-> NoLine]
  /\ gone = {} /\ asked = 0 /\ faults = 0

-----------------------------------------------------------------------------
(* Sessions.  A request of a service that was stopped meanwhile works on    *)
(* the session table of that service, which nobody else reads any more: of  *)
(* that table, old keeps the owner of the session the request came with.    *)
Current(c) == req[c].old = "no"
OwnerOf(c) == IF cookie[c] = 0 THEN Nobody ELSE sessions[cookie[c]]
User(c) == IF Current(c) THEN OwnerOf(c) ELSE req[c].old
Destroyed(c, s) == IF s = 0 \/ ~Current(c) THEN sessions ELSE [sessions EXCEPT ![s] = Nobody]
Created(c, t, s, n) == IF Current(c) THEN [t EXCEPT ![s] = n] ELSE t
Token == IF TokenRole = "none" THEN Unknown ELSE [name |-> "token", role |-> TokenRole, sid |-> 0]

Ask(c, op, who, arg) ==
  /\ pc[c] = "idle" /\ asked < MaxRequests /\ op \in Ops
  /\ c \in Readers => op \notin Edits
  /\ asked' = asked + 1
  /\ req' = [req EXCEPT ![c] = [op |-> op, who |-> who, arg |-> arg, old |-> "no"]]
  /\ me' = [me EXCEPT ![c] = Unknown]
  /\ logged' = [logged EXCEPT ![c] = NoLine]
  /\ out' = [out EXCEPT ![c] = Silent]
  /\ Goes(c, IF op \in Public THEN op ELSE "auth")
  /\ UNCHANGED <<file, sessions, cookie, running, copy, gone, faults>>

Sends(c) ==
  \/ \E op \in Actions \cup {"read", "list", "whoami", "logout"} : Ask(c, op, Nobody, 0)
  \/ \E n \in Names :
       \/ \E op \in {"password", "login"}, p \in {0, 1} : Ask(c, op, n, p)
       \/ Ask(c, "delete", n, 0)
       \/ \E op \in {"create", "role"}, r \in Roles : Ask(c, op, n, r)
       \/ \E m \in Names : Ask(c, "rename", n, m)
       \/ \E on \in BOOLEAN : Ask(c, "enable", n, on)
  \/ \E first \in [Roles -> Names] : Ask(c, "bootstrap", Nobody, first)

-----------------------------------------------------------------------------
(* Who asks: the session first, then the account it names, read from the    *)
(* file for every request, then the role table.                             *)
Resolve(c) ==
  /\ pc[c] = "auth"
  /\ \/ /\ User(c) # Nobody
        /\ me' = [me EXCEPT ![c] = [name |-> User(c), role |-> "none", sid |-> cookie[c]]]
        /\ Goes(c, "account") /\ UNCHANGED out
     \/ /\ User(c) = Nobody /\ (cookie[c] # 0 \/ TokenRole = "none")
        /\ Answers(c, 401, "session", TRUE) /\ UNCHANGED me
     \/ /\ cookie[c] = 0 /\ TokenRole # "none"
        /\ me' = [me EXCEPT ![c] = Token]
        /\ Goes(c, "role") /\ UNCHANGED out
  /\ UNCHANGED <<file, sessions, cookie, running, req, copy, logged, gone, asked, faults>>

(* SLIP: the account only has to be on file. *)
CountsAsListed(n) == file[n] # NoAccount

CountsAs(n) == file[n].on

Account(c) ==
  /\ pc[c] = "account"
  /\ \/ /\ CountsAs(me[c].name)
        /\ me' = [me EXCEPT ![c].role = file[me[c].name].role]
        /\ Goes(c, "role") /\ UNCHANGED <<sessions, out>>
     \/ /\ ~CountsAs(me[c].name)
        /\ sessions' = Destroyed(c, me[c].sid)
        /\ me' = [me EXCEPT ![c] = Unknown]
        /\ Answers(c, 401, "session", TRUE)
  /\ UNCHANGED <<file, cookie, running, req, copy, logged, gone, asked, faults>>

Allowed(role, op) ==
  \/ op = "read"
  \/ op = "stat" /\ role \in {"tecnico", "admin"}
  \/ op \notin {"read", "stat"} /\ role = "admin"

Authorize(c) ==
  /\ pc[c] = "role"
  /\ \/ /\ ~Allowed(me[c].role, req[c].op) /\ Answers(c, 403, "role", TRUE)
     \/ /\ Allowed(me[c].role, req[c].op) /\ req[c].op \in {"read", "list"}
        /\ Answers(c, 200, "ok", TRUE)
     \/ /\ Allowed(me[c].role, req[c].op) /\ req[c].op \notin {"read", "list"}
        /\ Goes(c, IF req[c].op \in Actions THEN "check" ELSE "edit") /\ UNCHANGED out
  /\ UNCHANGED <<file, sessions, cookie, running, req, me, copy, logged, gone, asked, faults>>

-----------------------------------------------------------------------------
(* Commands: the state of the session is looked at, then the command goes   *)
(* through the session controller, which looks again and raises.            *)
Check(c) ==
  /\ pc[c] = "check"
  /\ \/ running /\ Goes(c, "send") /\ UNCHANGED out
     \/ ~running /\ Answers(c, 409, "session_not_running", FALSE)
  /\ UNCHANGED <<file, sessions, cookie, running, req, me, copy, logged, gone, asked, faults>>

SendCommand(c) ==
  /\ pc[c] = "send"
  /\ \/ running /\ Answers(c, 200, "ok", TRUE)
     \/ ~running /\ Answers(c, 500, "session_not_running", FALSE)
  /\ UNCHANGED <<file, sessions, cookie, running, req, me, copy, logged, gone, asked, faults>>

-----------------------------------------------------------------------------
(* Changes of accounts.                                                     *)
(* SLIP: the admin that remains need not be enabled. *)
AdminListed(users) == \E n \in Names : users[n].role = "admin"

AdminSurvives(users) == \E n \in Names : users[n].on /\ users[n].role = "admin"

Conflict(r, users) ==
  \/ r.op = "create" /\ users[r.who] # NoAccount
  \/ r.op = "rename" /\ r.arg # r.who /\ users[r.arg] # NoAccount

Changed(r, users) ==
  CASE r.op = "create"   -> [users EXCEPT ![r.who] = [role |-> r.arg, on |-> TRUE, pass |-> 0]]
    [] r.op = "rename"   -> [users EXCEPT ![r.who] = NoAccount, ![r.arg] = users[r.who]]
    [] r.op = "role"     -> [users EXCEPT ![r.who].role = r.arg]
    [] r.op = "enable"   -> [users EXCEPT ![r.who].on = r.arg]
    [] r.op = "password" -> [users EXCEPT ![r.who].pass = r.arg]
    [] r.op = "delete"   -> [users EXCEPT ![r.who] = NoAccount]

Refusal(r, users) ==
  IF r.op # "create" /\ users[r.who] = NoAccount THEN "user_not_found"
  ELSE IF Conflict(r, users) THEN "username_conflict"
  ELSE IF ~AdminSurvives(Changed(r, users)) THEN "last_admin_violation"
  ELSE "none"

(* Errors of the account service are not mapped here: they end as 500.      *)
ReadAccounts(c) ==
  /\ pc[c] = "edit"
  /\ LET why == Refusal(req[c], file) IN
       \/ why # "none" /\ Answers(c, 500, why, FALSE) /\ UNCHANGED copy
       \/ /\ why = "none"
          /\ copy' = [copy EXCEPT ![c] = Changed(req[c], file)]
          /\ Goes(c, "save") /\ UNCHANGED out
  /\ UNCHANGED <<file, sessions, cookie, running, req, me, logged, gone, asked, faults>>

(* The first accounts of a site: one of each role, and no account on file.  *)
Bootstrap(c) ==
  /\ pc[c] = "bootstrap"
  /\ LET first == req[c].arg
         users == [n \in Names |-> IF \E r \in Roles : first[r] = n
                                   THEN [role |-> CHOOSE r \in Roles : first[r] = n,
                                         on |-> TRUE, pass |-> 0]
                                   ELSE NoAccount]
         twice == \E r, s \in Roles : r # s /\ first[r] = first[s]
     IN \/ /\ Bootstrapped \/ twice
           /\ Refuses(c, IF Bootstrapped THEN "bootstrap_already_completed" ELSE "username_conflict")
           /\ UNCHANGED copy
        \/ /\ ~Bootstrapped /\ ~twice
           /\ copy' = [copy EXCEPT ![c] = users]
           /\ Goes(c, "save") /\ UNCHANGED out
  /\ UNCHANGED <<file, sessions, cookie, running, req, me, logged, gone, asked, faults>>

(* The account a change ends, and the one it brings back.                   *)
Ends(r) == r.op = "delete" \/ (r.op = "enable" /\ ~r.arg)
Gone(r) == IF Ends(r) \/ (r.op = "rename" /\ r.arg # r.who) THEN {r.who} ELSE {}
Back(r) ==
  CASE r.op = "create" -> {r.who}
    [] r.op = "rename" -> {r.arg}
    [] r.op = "enable" -> IF r.arg THEN {r.who} ELSE {}
    [] OTHER -> {}

Save(c) ==
  /\ pc[c] = "save" /\ copy' = [copy EXCEPT ![c] = Nothing]
  /\ \/ /\ file' = copy[c] /\ gone' = gone \ Back(req[c])
        /\ Goes(c, "session") /\ UNCHANGED <<out, faults>>
     \/ /\ faults < MaxFaults /\ faults' = faults + 1
        /\ Answers(c, 500, "disk", FALSE) /\ UNCHANGED <<file, gone>>
  /\ UNCHANGED <<sessions, cookie, running, req, me, logged, asked>>

(* Whoever changed its own account gets a new session, or none when the     *)
(* account has ended.                                                       *)
NewName(r) == IF r.op = "rename" THEN r.arg ELSE r.who
Own(c) == me[c].sid # 0 /\ me[c].name = req[c].who

Renew(c) ==
  /\ pc[c] = "session" /\ req[c].op \in Edits
  /\ \/ /\ req[c].op # "bootstrap" /\ ~Own(c)
        /\ UNCHANGED <<sessions, me>>
     \/ /\ req[c].op # "bootstrap" /\ Own(c) /\ Ends(req[c])
        /\ sessions' = Destroyed(c, me[c].sid)
        /\ me' = [me EXCEPT ![c].sid = 0]
     \/ /\ req[c].op # "bootstrap" /\ Own(c) /\ ~Ends(req[c])
        /\ sessions' = Created(c, Destroyed(c, me[c].sid), NewSid, NewName(req[c]))
        /\ me' = [me EXCEPT ![c].sid = NewSid]
     \/ /\ req[c].op = "bootstrap"
        /\ sessions' = Created(c, sessions, NewSid, req[c].arg["admin"])
        /\ me' = [me EXCEPT ![c] = [name |-> req[c].arg["admin"], role |-> "admin", sid |-> NewSid]]
  /\ Answers(c, 200, "ok", TRUE)
  /\ UNCHANGED <<file, cookie, running, req, copy, logged, gone, asked, faults>>

-----------------------------------------------------------------------------
(* Login, logout and the question who is logged in.                         *)
Login(c) ==
  /\ pc[c] = "login"
  /\ LET a == file[req[c].who] IN
       \/ /\ ~Bootstrapped
          /\ Refuses(c, "bootstrap_required") /\ UNCHANGED me
       \/ /\ a # NoAccount /\ ~a.on
          /\ Refuses(c, "account_disabled") /\ UNCHANGED me
       \/ /\ Bootstrapped /\ (a = NoAccount \/ (a.on /\ a.pass # req[c].arg))
          /\ Refuses(c, "invalid_credentials") /\ UNCHANGED me
       \/ /\ a.on /\ a.pass = req[c].arg
          /\ me' = [me EXCEPT ![c] = [name |-> req[c].who, role |-> a.role, sid |-> 0]]
          /\ Goes(c, "session") /\ UNCHANGED out
  /\ UNCHANGED <<file, sessions, cookie, running, req, copy, logged, gone, asked, faults>>

LoggedIn(c) ==
  /\ pc[c] = "session" /\ req[c].op = "login"
  /\ sessions' = Created(c, sessions, NewSid, me[c].name)
  /\ me' = [me EXCEPT ![c].sid = NewSid]
  /\ Answers(c, 200, "ok", TRUE)
  /\ UNCHANGED <<file, cookie, running, req, copy, logged, gone, asked, faults>>

(* The principal is optional here: an unknown or ended session counts as    *)
(* none.                                                                    *)
Optional(c) ==
  IF User(c) # Nobody /\ CountsAs(User(c))
  THEN [name |-> User(c), role |-> file[User(c)].role, sid |-> cookie[c]]
  ELSE IF cookie[c] = 0 THEN Token ELSE Unknown

WhoAmI(c) ==
  /\ pc[c] = "whoami"
  /\ me' = [me EXCEPT ![c] = Optional(c)]
  /\ sessions' = IF Optional(c) = Unknown THEN Destroyed(c, cookie[c]) ELSE sessions
  /\ Answers(c, 200, "ok", TRUE)
  /\ UNCHANGED <<file, cookie, running, req, copy, logged, gone, asked, faults>>

Logout(c) ==
  /\ pc[c] = "logout"
  /\ me' = [me EXCEPT ![c] = [Optional(c) EXCEPT !.sid = 0]]
  /\ sessions' = Destroyed(c, cookie[c])
  /\ Answers(c, 200, "ok", TRUE)
  /\ UNCHANGED <<file, cookie, running, req, copy, logged, gone, asked, faults>>

-----------------------------------------------------------------------------
(* The answer carries the cookie: the new session, an empty one, or none.   *)
Sent(c) ==
  CASE out[c].status # 200 -> IF out[c].status = 401 /\ req[c].op # "login" THEN 0 ELSE cookie[c]
    [] req[c].op \in {"login", "bootstrap", "logout", "whoami"} -> me[c].sid
    [] req[c].op \in Edits /\ me[c].name = req[c].who -> me[c].sid
    [] OTHER -> cookie[c]

Answer(c) ==
  /\ pc[c] = "answer"
  /\ cookie' = [cookie EXCEPT ![c] = Sent(c)]
  /\ gone' = IF out[c].status = 200 THEN gone \cup Gone(req[c]) ELSE gone
  /\ Goes(c, "audit")
  /\ UNCHANGED <<file, sessions, running, req, me, copy, out, logged, asked, faults>>

(* A connection that breaks while the head of the answer is written ends    *)
(* the request; one that breaks in the body is not noticed.                 *)
Disconnect(c) ==
  /\ Drops /\ pc[c] = "answer"
  /\ \/ Goes(c, "audit") /\ UNCHANGED req
     \/ Goes(c, "idle") /\ req' = [req EXCEPT ![c] = NoRequest]
  /\ UNCHANGED <<file, sessions, cookie, running, me, copy, out, logged, gone, asked, faults>>

(* _audit_outcome: an answer that is not an error names who asked.          *)
AuditLine(c) == [actor |-> IF out[c].named THEN me[c].name ELSE Nobody, status |-> out[c].status]
Audit(c) ==
  /\ pc[c] = "audit" /\ Goes(c, "idle") /\ req' = [req EXCEPT ![c] = NoRequest]
  /\ logged' = [logged EXCEPT ![c] = AuditLine(c)]
  /\ UNCHANGED <<file, sessions, cookie, running, me, copy, out, gone, asked, faults>>

-----------------------------------------------------------------------------
SessionMoves ==
  /\ Actions \cap Ops # {} /\ running' = ~running
  /\ UNCHANGED <<file, sessions, cookie, pc, req, me, copy, out, logged, gone, asked, faults>>

Expire(s) ==
  /\ sessions[s] # Nobody
  /\ sessions' = [sessions EXCEPT ![s] = Nobody]
  /\ UNCHANGED <<file, cookie, running, pc, req, me, copy, out, logged, gone, asked, faults>>

(* The settings are applied: a new service object, with no session, takes   *)
(* the place of the old, whose request threads run on.                      *)
Restart ==
  /\ faults < MaxFaults /\ faults' = faults + 1
  /\ sessions' = [s \in Sids |-> Nobody]
  /\ req' = [c \in Clients |->
               IF pc[c] # "idle" /\ Current(c) THEN [req[c] EXCEPT !.old = OwnerOf(c)] ELSE req[c]]
  /\ UNCHANGED <<file, cookie, running, pc, me, copy, out, logged, gone, asked>>

(* The process ends, and with it every request thread.                      *)
Crash ==
  /\ faults < MaxFaults /\ faults' = faults + 1
  /\ sessions' = [s \in Sids |-> Nobody] /\ running' = FALSE
  /\ pc' = [c \in Clients |-> "idle"] /\ me' = [c \in Clients |-> Unknown]
  /\ req' = [c \in Clients |-> NoRequest]
  /\ copy' = [c \in Clients |-> Nothing]
  /\ out' = [c \in Clients |-> Silent] /\ logged' = [c \in Clients |-> NoLine]
  /\ UNCHANGED <<file, cookie, gone, asked>>

Handle(c) ==
  \/ Resolve(c) \/ Account(c) \/ Authorize(c) \/ Check(c) \/ SendCommand(c)
  \/ ReadAccounts(c) \/ Bootstrap(c) \/ Save(c) \/ Renew(c)
  \/ Login(c) \/ LoggedIn(c) \/ WhoAmI(c) \/ Logout(c)
  \/ Answer(c) \/ Disconnect(c) \/ Audit(c)

Next ==
  \/ \E c \in Clients : Sends(c) \/ Handle(c)
  \/ SessionMoves \/ Restart \/ Crash
  \/ \E s \in Sids : Expire(s)

Spec == Init /\ [][Next]_vars

-----------------------------------------------------------------------------
(* Types, and that a request past the role table knows who asks for it.     *)
TypeOK ==
  /\ file \in [Names -> Accounts] /\ sessions \in [Sids -> Names \cup {Nobody}]
  /\ cookie \in [Clients -> 0 .. MaxSessions] /\ running \in BOOLEAN
  /\ copy \in [Clients -> [Names -> Accounts]] /\ gone \subseteq Names
  /\ \A c \in Clients :
       /\ out[c].status \in {0, 200, 401, 403, 409, 500}
       /\ pc[c] \in {"role", "check", "send", "edit"} => me[c].role \in Roles

(* A site that has an enabled admin keeps one, whatever the admins do to    *)
(* each other at the same time and wherever a write fails or a process      *)
(* ends.                                                                    *)
HasAdmin(users) == \E n \in Names : users[n].on /\ users[n].role = "admin"
AdminIsKept == HasAdmin(file) => HasAdmin(file')
AdminStays == [][AdminIsKept]_file

(* A change touches the account it names and no other that is on file: not  *)
(* one taken by a new name, not the accounts of a site that has some.       *)
ChangesTheNamed ==
  \A n \in Names :
    (file[n] # NoAccount /\ file'[n] # file[n])
      => \E c \in Clients : pc[c] = "save" /\ pc'[c] # "save" /\ req[c].who = n
OnlyOwnAccount == [][ChangesTheNamed]_file

(* Between two requests, a browser whose session still runs is logged in as *)
(* an account that is on file and enabled: editing one's own account gives  *)
(* a session for what it became.                                            *)
SessionFollowsAccount ==
  \A c \in Clients : pc[c] = "idle" /\ OwnerOf(c) # Nobody => file[OwnerOf(c)].on

(* Once the end of an account has been answered, no request is let through  *)
(* in its name until it comes back.                                         *)
LetsInTheLiving ==
  \A c \in Clients : (pc[c] = "account" /\ pc'[c] = "role") => me[c].name \notin gone
EndedIsRefused == [][LetsInTheLiving]_vars

(* Every request that was found to come from somebody leaves a line in the  *)
(* audit log with the status it was answered with.                          *)
AuthenticatedIsAudited ==
  \A c \in Clients : pc[c] = "idle" /\ me[c] # Unknown => logged[c].status = out[c].status

(* The audit line of such a request names who asked.                        *)
ActorIsNamed ==
  \A c \in Clients : pc[c] = "idle" /\ me[c] # Unknown /\ logged[c] # NoLine => logged[c].actor = me[c].name

(* A command that is refused because the session does not run is answered   *)
(* with 409.                                                                *)
NotRunningIs409 ==
  \A c \in Clients : out[c].cause = "session_not_running" => out[c].status = 409
=============================================================================
